--------------------------- MODULE RovMixerProofs ---------------------------
(***************************************************************************)
(* Proofs about RovMixer, for any number of axes and motors, any setpoints *)
(* and masks: a setpoint that leaves a mixer run of time to the command    *)
(* before it reaches every motor.                                          *)
(***************************************************************************)
EXTENDS RovMixer, TLAPS

(***************************************************************************)
(* The length of a run                                                     *)
(***************************************************************************)

Turn   == 2 * NumAxes + 1              \* edges for one motor
Length == NumMotors * Turn             \* edges for all of them
Later  == (NumMotors - 1 - m) * Turn   \* edges for the motors after m

\* Edges until the mixer is idle again.
Left ==
  IF fsm = "IDLE" THEN 0
  ELSE Later + (IF fsm = "DONE" THEN 1
                ELSE 2 * (NumAxes - ax) + (IF fsm = "MUL" THEN 1 ELSE 0))

LEMMA Constants ==
  /\ NumAxes \in Nat /\ NumAxes > 0 /\ NumMotors \in Nat /\ NumMotors > 0
  /\ Turn \in Nat /\ Turn > 2 /\ Length \in Nat /\ Length >= Turn
  /\ RunEdges \in Nat /\ RunEdges > Length
  /\ Zero \in Value /\ Zero \in Output /\ Mask \subseteq SUBSET Axis
<1>1. NumAxes \in Nat /\ NumAxes > 0 /\ NumMotors \in Nat /\ NumMotors > 0
  BY MixerAssumption
<1>2. Turn \in Nat /\ Turn > 2
  BY <1>1 DEF Turn
<1>3. Length \in Nat /\ Length >= Turn
  <2>1. \A n \in Nat, t \in Nat : n > 0 => n * t \in Nat /\ n * t >= t
    OBVIOUS
  <2>. QED BY <1>1, <1>2, <2>1 DEF Length
<1>. QED BY <1>1, <1>2, <1>3, MixerAssumption, MaskAssumption DEF Length, Turn

LEMMA Lengths ==
  Turn \in Nat /\ Length \in Nat /\ RunEdges \in Nat /\ RunEdges > Length /\ Length > 0
BY Constants

LEMMA LaterRange == m \in Motor => Later \in Nat /\ Later + Turn <= Length
<1>1. \A n \in Nat, k \in Nat, t \in Nat :
        k <= n - 1 => (n - 1 - k) * t \in Nat /\ (n - 1 - k) * t + t <= n * t
  OBVIOUS
<1>. QED BY <1>1, Constants DEF Motor, Later, Length

LEMMA LaterNat == m \in Motor => Later \in Nat
BY LaterRange

LEMMA LaterLast == ASSUME m = NumMotors - 1 PROVE Later = 0
BY Constants DEF Later

LEMMA LaterNext ==
  ASSUME m \in Motor, m' = m + 1 PROVE Later' = Later - Turn
<1>1. \A n \in Int, k \in Int, t \in Int :
        (n - 1 - (k + 1)) * t = (n - 1 - k) * t - t
  OBVIOUS
<1>. QED BY <1>1, Constants DEF Motor, Later

LEMMA LaterFirst == ASSUME m' = 0 PROVE Later' + Turn = Length
<1>1. \A n \in Int, t \in Int : (n - 1 - 0) * t + t = n * t
  OBVIOUS
<1>. QED BY <1>1, Constants DEF Later, Length
(***************************************************************************)
(* Types                                                                   *)
(***************************************************************************)

CommandOK ==
  /\ control_sp \in [Axis -> Value] /\ pid_enable \in SUBSET Axis
  /\ mixer_trig_man \in BOOLEAN /\ settled \in BOOLEAN /\ since \in 1 .. RunEdges

PidOK ==
  /\ pid_output \in [Axis -> Output] /\ mixer_trig \in BOOLEAN
  /\ pid_state \in {"IDLE", "S1", "S2", "S3", "S3_LATCH"} /\ pid_ax \in Axis

MixerOK ==
  /\ fsm \in {"IDLE", "MUL", "ADD", "DONE"} /\ m \in Motor /\ ax \in Axis
  /\ prod \in Value \cup Output /\ acc \in [Axis -> Value \cup Output]
  /\ motor_out \in [Motor -> [Axis -> Value \cup Output]]

LEMMA TypeParts == TypeOK <=> CommandOK /\ PidOK /\ MixerOK
BY DEF TypeOK, CommandOK, PidOK, MixerOK

LEMMA StatusTypes == ASSUME CommandOK, Status PROVE CommandOK'
<1>. USE Constants DEF CommandOK
<1>1. CASE NoCommand
  <2>1. since' \in 1 .. RunEdges
    BY <1>1 DEF NoCommand
  <2>. QED BY <1>1, <2>1 DEF NoCommand
<1>2. ASSUME NEW a \in Axis, NEW v \in Value, Setpoint(a, v) PROVE CommandOK'
  <2>1. settled' \in BOOLEAN
    BY <1>2, Zenon DEF Setpoint
  <2>2. since' \in 1 .. RunEdges
    BY <1>2 DEF Setpoint
  <2>. QED BY <1>2, <2>1, <2>2 DEF Setpoint
<1>3. ASSUME NEW mask \in Mask, PidEnable(mask) PROVE CommandOK'
  <2>1. settled' \in BOOLEAN
    BY <1>3, Zenon DEF PidEnable
  <2>2. since' \in 1 .. RunEdges
    BY <1>3 DEF PidEnable
  <2>. QED BY <1>3, <2>1, <2>2 DEF PidEnable
<1>. QED BY <1>1, <1>2, <1>3 DEF Status

LEMMA PidTypes == ASSUME PidOK, Pid PROVE PidOK'
<1>. USE Constants DEF PidOK
<1>1. CASE PidWait
  BY <1>1 DEF PidWait
<1>2. CASE PidTick
  <2>1. 0 \in Axis
    BY DEF Axis
  <2>. QED BY <1>2, <2>1 DEF PidTick
<1>3. CASE PidStage
  <2>1. pid_output' \in [Axis -> Output]
    BY <1>3 DEF PidStage
  <2>2. pid_state' \in {"S2", "S3", "S3_LATCH"}
    BY <1>3 DEF PidStage
  <2>3. mixer_trig' = mixer_trig /\ pid_ax' = pid_ax
    BY <1>3 DEF PidStage
  <2>4. mixer_trig' \in BOOLEAN /\ pid_ax' \in Axis
    BY <2>3
  <2>. QED BY <2>1, <2>2, <2>4
<1>4. CASE PidLatch
  <2>1. mixer_trig' \in BOOLEAN
    BY <1>4, Zenon DEF PidLatch
  <2>2. pid_ax' \in Axis
    BY <1>4 DEF PidLatch, Axis
  <2>. QED BY <1>4, <2>1, <2>2 DEF PidLatch
<1>. QED BY <1>1, <1>2, <1>3, <1>4 DEF Pid

LEMMA MixerTypes == ASSUME TypeOK, Mixer PROVE MixerOK'
<1>. USE Constants DEF TypeOK, MixerOK
<1>1. CASE MixerIdle
  BY <1>1 DEF MixerIdle, Axis, Motor
<1>2. CASE MixerMul
  BY <1>2 DEF MixerMul, mix_val
<1>3. CASE MixerAdd
  BY <1>3 DEF MixerAdd, Axis
<1>4. CASE MixerDone
  BY <1>4 DEF MixerDone, Axis, Motor
<1>. QED BY <1>1, <1>2, <1>3, <1>4 DEF Mixer

LEMMA InitTypes == ASSUME Init PROVE TypeOK
<1>1. Neutral \in [Axis -> Value] /\ Neutral \in [Axis -> Output]
      /\ Neutral \in [Axis -> Value \cup Output]
  BY Constants DEF Neutral
<1>2. 0 \in Axis /\ 0 \in Motor /\ RunEdges \in 1 .. RunEdges
  BY Constants DEF Axis, Motor
<1>. QED BY <1>1, <1>2, Constants DEF Init, TypeOK

LEMMA StepTypes == ASSUME TypeOK, Next PROVE TypeOK'
<1>1. CommandOK' /\ PidOK' /\ MixerOK'
  BY TypeParts, StatusTypes, PidTypes, MixerTypes DEF Next
<1>. QED BY <1>1 DEF TypeOK, CommandOK, PidOK, MixerOK

\* Registers keep the ranges of their declarations.
THEOREM TypeCorrect == Spec => []TypeOK
<1>1. TypeOK /\ [Next]_vars => TypeOK'
  <2>1. ASSUME TypeOK, UNCHANGED vars PROVE TypeOK'
    BY <2>1 DEF TypeOK, vars, command, pid, mixer
  <2>. QED BY <2>1, StepTypes
<1>. QED BY <1>1, InitTypes, PTL DEF Spec

(***************************************************************************)
(* The inductive invariant                                                 *)
(***************************************************************************)

\* A trigger lasts one edge, and with the PID off only a command raises one.
Triggers ==
  /\ mixer_trig_man => since = 1
  /\ mixer_trig => pid_state = "IDLE"
  /\ pid_enable = {} /\ mixer_trig => since = 1 /\ ~settled

\* With the PID off the mixer comes to rest while no command arrives.
RunsOut == pid_enable = {} => Left = 0 \/ Left + since <= Length + 2

\* The run under way has read the setpoints as they are now: in motors before
\* m, in the axes of the sum before ax, in the product.
Faithful ==
  /\ \A k \in Motor : k < m => motor_out[k] = control_sp
  /\ fsm = "MUL" => \A a \in Axis : a < ax => acc[a] = control_sp[a]
  /\ fsm = "ADD" => /\ \A a \in Axis : a < ax => acc[a] = control_sp[a]
                    /\ prod = control_sp[ax]
  /\ fsm = "DONE" => acc = control_sp

Applied ==
  pid_enable = {} /\ settled =>
    IF fsm # "IDLE" THEN ~mixer_trig_man /\ Faithful
    ELSE mixer_trig_man \/ motor_out = [k \in Motor |-> control_sp]

SettledInv == TypeOK /\ Triggers /\ RunsOut /\ Applied

\* One edge of a run takes one edge off it.
LEMMA LeftRange == TypeOK => Left \in 0 .. Length
<1>. SUFFICES ASSUME TypeOK PROVE Left \in 0 .. Length
  OBVIOUS
<1>1. Later \in Nat /\ Later + Turn <= Length
  BY LaterRange DEF TypeOK
<1>. QED BY <1>1, Constants DEF Left, TypeOK, Axis, Turn

LEMMA LeftPositive == ASSUME TypeOK, fsm # "IDLE" PROVE Left # 0
<1>1. Later \in Nat
  BY LaterNat DEF TypeOK
<1>. QED BY <1>1, Constants DEF Left, TypeOK, Axis

LEMMA LeftStep ==
  ASSUME TypeOK, Mixer
  PROVE  /\ fsm # "IDLE" => Left' = Left - 1
         /\ fsm = "IDLE" /\ ~mixer_trig /\ ~mixer_trig_man => Left' = 0
         /\ fsm # "IDLE" => (fsm' = "IDLE" <=> Left = 1)
<1>0. /\ Later \in Nat /\ m \in Motor /\ ax \in 0 .. NumAxes - 1
      /\ fsm \in {"IDLE", "MUL", "ADD", "DONE"}
  BY LaterRange DEF TypeOK, Axis
<1>. USE Constants
<1>1. CASE MixerIdle
  BY <1>1 DEF MixerIdle, Left
<1>2. CASE MixerMul
  <2>1. Later' = Later
    BY <1>2 DEF MixerMul, Later
  <2>. QED BY <1>0, <1>2, <2>1 DEF MixerMul, Left
<1>3. CASE MixerAdd
  <2>1. Later' = Later
    BY <1>3 DEF MixerAdd, Later
  <2>. QED BY <1>0, <1>3, <2>1 DEF MixerAdd, Left
<1>4. CASE MixerDone
  <2>1. CASE m = NumMotors - 1
    BY <1>4, <2>1, LaterLast DEF MixerDone, Left
  <2>2. CASE m # NumMotors - 1
    <3>1. Later' = Later - Turn
      BY <1>0, <1>4, <2>2, LaterNext DEF MixerDone
    <3>2. Later # 0
      <4>1. m' \in Motor
        BY MixerTypes DEF MixerOK
      <4>2. Later' \in Nat
        <5>1. (m \in Motor => Later \in Nat)'
          BY LaterNat, PTL
        <5>. QED BY <4>1, <5>1
      <4>. QED BY <1>0, <3>1, <4>2
    <3>. QED BY <1>0, <1>4, <2>2, <3>1, <3>2 DEF MixerDone, Left, Turn
  <2>. QED BY <2>1, <2>2
<1>. QED BY <1>1, <1>2, <1>3, <1>4 DEF Mixer
LEMMA TriggersKept == ASSUME TypeOK, Triggers, Next PROVE Triggers'
<1>1. mixer_trig' => pid_state' = "IDLE"
  <2>. USE DEF Triggers
  <2>1. CASE PidWait
    BY <2>1 DEF PidWait
  <2>2. CASE PidTick
    BY <2>2 DEF PidTick
  <2>3. CASE PidStage
    BY <2>3 DEF PidStage
  <2>4. CASE PidLatch
    BY <2>4 DEF PidLatch
  <2>. QED BY <2>1, <2>2, <2>3, <2>4 DEF Next, Pid
<1>2. mixer_trig' => pid_enable # {}
  BY DEF Next, Pid, PidWait, PidTick, PidStage, PidLatch, Triggers
<1>3. mixer_trig_man' => since' = 1
  BY DEF Next, Status, NoCommand, Setpoint, PidEnable
<1>4. pid_enable # {} /\ pid_enable' = {} => since' = 1 /\ ~settled'
  BY DEF Next, Status, NoCommand, Setpoint, PidEnable
<1>. QED BY <1>1, <1>2, <1>3, <1>4 DEF Triggers

\* The arithmetic of the next lemma: l and s are Left and since, l1 and s1
\* their next values, n is the length of a run.
LEMMA Countdown ==
  ASSUME NEW l \in Nat, NEW l1 \in Nat, NEW s \in Nat, NEW s1 \in Nat, NEW n \in Nat,
         l1 <= n,
         \/ s1 = 1
         \/ /\ s1 = s + 1 \/ s1 = s
            /\ s = 1 \/ (l1 = l - 1 /\ (l = 0 \/ l + s <= n + 2))
  PROVE  l1 = 0 \/ l1 + s1 <= n + 2
OBVIOUS

LEMMA RunsOutKept ==
  ASSUME TypeOK, Triggers, RunsOut, Next PROVE RunsOut'
<1>0. Length' = Length
  BY DEF Length, Turn
<1>. SUFFICES ASSUME pid_enable' = {}
              PROVE  Left' = 0 \/ Left' + since' <= Length + 2
  BY <1>0 DEF RunsOut
<1>1. /\ Left \in Nat /\ Left' \in Nat /\ Left' <= Length
      /\ since \in Nat /\ since' \in Nat /\ Length \in Nat
  <2>1. TypeOK'
    BY StepTypes
  <2>2. (TypeOK => Left \in 0 .. Length)'
    BY LeftRange, PTL
  <2>3. Left' \in 0 .. Length /\ Left \in 0 .. Length
    BY <2>1, <2>2, LeftRange
  <2>4. since \in 1 .. RunEdges /\ since' \in 1 .. RunEdges
    BY <2>1 DEF TypeOK
  <2>. QED BY <2>3, <2>4, Lengths
<1>2. CASE since' = 1
  BY <1>1, <1>2, Countdown
<1>3. CASE since' # 1
  <2>1. pid_enable = {} /\ NoCommand
    BY <1>3 DEF Next, Status, NoCommand, Setpoint, PidEnable
  <2>2. since' = since + 1 \/ since' = since
    <3>1. since <= RunEdges /\ RunEdges \in Nat
      BY Lengths DEF TypeOK
    <3>. QED BY <1>1, <2>1, <3>1 DEF NoCommand
  <2>3. CASE fsm # "IDLE"
    <3>1. Left' = Left - 1 /\ (Left = 0 \/ Left + since <= Length + 2)
      BY <2>1, <2>3, LeftStep DEF RunsOut, Next
    <3>2. Left # 0 /\ Left' = Left - 1 /\ Left + since <= Length + 2
      BY <2>3, <3>1, LeftPositive
    <3>3. CASE since' = since + 1
      BY <1>1, <3>2, <3>3, Countdown
    <3>4. CASE since' = since
      BY <1>1, <3>2, <3>4, Countdown
    <3>. QED BY <2>2, <3>3, <3>4
  <2>4. CASE fsm = "IDLE" /\ (mixer_trig \/ mixer_trig_man)
    <3>1. since = 1
      BY <2>1, <2>4 DEF Triggers
    <3>2. since' = 2
      BY <1>3, <2>2, <3>1
    <3>3. Left' + 2 <= Length + 2
      <4>1. \A l1 \in Nat, n \in Nat : l1 <= n => l1 + 2 <= n + 2
        OBVIOUS
      <4>. QED BY <1>1, <4>1
    <3>. QED BY <3>2, <3>3
  <2>5. CASE fsm = "IDLE" /\ ~mixer_trig /\ ~mixer_trig_man
    BY <2>5, LeftStep DEF Next
  <2>. QED BY <2>3, <2>4, <2>5
<1>. QED BY <1>2, <1>3

\* A run that began after the last setpoint goes on with it.
LEMMA FaithfulKept ==
  ASSUME TypeOK, Faithful, pid_enable = {}, fsm # "IDLE", Mixer,
         control_sp' = control_sp
  PROVE  IF fsm' # "IDLE" THEN Faithful' ELSE motor_out' = [k \in Motor |-> control_sp]
<1>1. CASE MixerIdle
  BY <1>1 DEF MixerIdle
<1>2. CASE MixerMul
  BY <1>2 DEF MixerMul, Faithful, mix_val
<1>3. CASE MixerAdd
  <2>1. ax \in 0 .. NumAxes - 1 /\ NumAxes \in Nat /\ acc \in [Axis -> Value \cup Output]
    BY Constants DEF TypeOK, Axis
  <2>2. \A a \in Axis : a <= ax => acc'[a] = control_sp[a]
    BY <1>3, <2>1 DEF MixerAdd, Faithful, Axis
  <2>3. CASE ax = NumAxes - 1
    <3>1. acc' \in [Axis -> Value \cup Output] /\ control_sp \in [Axis -> Value]
      BY <1>3, MixerTypes DEF MixerOK, TypeOK
    <3>2. \A a \in Axis : acc'[a] = control_sp[a]
      BY <2>1, <2>2, <2>3 DEF Axis
    <3>3. acc' = control_sp
      BY <3>1, <3>2
    <3>. QED BY <1>3, <2>3, <3>3 DEF MixerAdd, Faithful
  <2>4. CASE ax # NumAxes - 1
    <3>1. ax' = ax + 1 /\ fsm' = "MUL"
      BY <1>3, <2>4 DEF MixerAdd
    <3>2. \A a \in Axis : a < ax' => acc'[a] = control_sp[a]
      BY <2>1, <2>2, <3>1 DEF Axis
    <3>. QED BY <1>3, <3>1, <3>2 DEF MixerAdd, Faithful
  <2>. QED BY <2>3, <2>4
<1>4. CASE MixerDone
  <2>1. /\ m \in 0 .. NumMotors - 1 /\ NumMotors \in Nat
        /\ motor_out \in [Motor -> [Axis -> Value \cup Output]]
    BY Constants DEF TypeOK, Motor
  <2>2. \A k \in Motor : k <= m => motor_out'[k] = control_sp
    BY <1>4, <2>1 DEF MixerDone, Faithful, Motor
  <2>3. CASE m = NumMotors - 1
    <3>1. motor_out' \in [Motor -> [Axis -> Value \cup Output]]
      BY <1>4, MixerTypes DEF MixerOK
    <3>2. \A k \in Motor : motor_out'[k] = control_sp
      BY <2>1, <2>2, <2>3 DEF Motor
    <3>3. motor_out' = [k \in Motor |-> control_sp]
      BY <3>1, <3>2
    <3>. QED BY <1>4, <2>3, <3>3 DEF MixerDone
  <2>4. CASE m # NumMotors - 1
    <3>1. m' = m + 1 /\ ax' = 0 /\ fsm' = "MUL"
      BY <1>4, <2>4 DEF MixerDone
    <3>2. \A k \in Motor : k < m' => motor_out'[k] = control_sp
      BY <2>1, <2>2, <3>1 DEF Motor
    <3>3. \A a \in Axis : ~ a < ax'
      BY <3>1, Constants DEF Axis
    <3>. QED BY <3>1, <3>2, <3>3 DEF Faithful
  <2>. QED BY <2>3, <2>4
<1>. QED BY <1>1, <1>2, <1>3, <1>4 DEF Mixer

\* A run that begins has read nothing yet.
LEMMA FaithfulStart ==
  ASSUME TypeOK, fsm = "IDLE", fsm' # "IDLE", Mixer PROVE Faithful'
<1>1. m' = 0 /\ ax' = 0 /\ fsm' = "MUL"
  BY DEF Mixer, MixerIdle, MixerMul, MixerAdd, MixerDone
<1>2. (\A k \in Motor : ~ k < m') /\ (\A a \in Axis : ~ a < ax')
  BY <1>1, Constants DEF Motor, Axis
<1>. QED BY <1>1, <1>2 DEF Faithful

LEMMA AppliedKept ==
  ASSUME TypeOK, Triggers, RunsOut, Applied, Next PROVE Applied'
<1>. SUFFICES ASSUME pid_enable' = {}, settled' PROVE Applied'
  BY DEF Applied
<1>1. CASE control_sp' = control_sp /\ pid_enable = {} /\ settled /\ ~mixer_trig_man'
  <2>1. ~mixer_trig
    BY <1>1 DEF Triggers
  <2>2. CASE fsm # "IDLE"
    BY <1>1, <2>2, FaithfulKept DEF Applied, Next
  <2>3. CASE fsm = "IDLE" /\ fsm' # "IDLE"
    BY <1>1, <2>3, FaithfulStart DEF Applied, Next
  <2>4. CASE fsm = "IDLE" /\ fsm' = "IDLE"
    <3>1. ~mixer_trig_man /\ motor_out' = motor_out
      BY <2>4 DEF Next, Mixer, MixerIdle, MixerMul, MixerAdd, MixerDone
    <3>2. motor_out = [k \in Motor |-> control_sp]
      BY <1>1, <2>4, <3>1 DEF Applied
    <3>3. motor_out' = [k \in Motor |-> control_sp']
      BY <1>1, <3>1, <3>2
    <3>. QED BY <2>4, <3>3 DEF Applied
  <2>. QED BY <2>2, <2>3, <2>4
<1>2. CASE since = RunEdges /\ pid_enable = {} /\ mixer_trig_man'
  <2>1. since # 1
    BY <1>2, Lengths
  <2>2. ~mixer_trig /\ ~mixer_trig_man
    BY <1>2, <2>1 DEF Triggers
  <2>3. fsm' = "IDLE"
    <3>1. CASE fsm = "IDLE"
      BY <2>2, <3>1 DEF Next, Mixer, MixerIdle, MixerMul, MixerAdd, MixerDone
    <3>2. CASE fsm # "IDLE"
      <4>1. Left \in Nat /\ Length \in Nat /\ RunEdges \in Nat /\ RunEdges > Length
        BY LeftRange, Lengths
      <4>2. Left # 0
        BY <3>2, LeftPositive
      <4>3. Left = 1
        BY <1>2, <4>1, <4>2 DEF RunsOut
      <4>. QED BY <3>2, <4>3, LeftStep DEF Next
    <3>. QED BY <3>1, <3>2
  <2>. QED BY <1>2, <2>3 DEF Applied
<1>3. \/ control_sp' = control_sp /\ pid_enable = {} /\ settled /\ ~mixer_trig_man'
      \/ since = RunEdges /\ pid_enable = {} /\ mixer_trig_man'
  BY DEF Next, Status, NoCommand, Setpoint, PidEnable
<1>. QED BY <1>1, <1>2, <1>3

\* SetpointsApplied for all constants.
THEOREM SetpointsReachMotors == Spec => []SetpointsApplied
<1>1. Init => SettledInv
  <2> SUFFICES ASSUME Init PROVE SettledInv
    OBVIOUS
  <2>1. TypeOK
    BY InitTypes
  <2>2. Left = 0 /\ Triggers
    BY DEF Init, Left, Triggers
  <2>3. Applied
    BY DEF Init, Applied
  <2>. QED BY <2>1, <2>2, <2>3 DEF SettledInv, RunsOut
<1>2. SettledInv /\ [Next]_vars => SettledInv'
  <2>1. ASSUME SettledInv, Next PROVE SettledInv'
    BY <2>1, StepTypes, TriggersKept, RunsOutKept, AppliedKept DEF SettledInv
  <2>2. ASSUME SettledInv, UNCHANGED vars PROVE SettledInv'
    <3>. USE <2>2 DEF vars, command, pid, mixer
    <3>1. TypeOK' /\ Triggers'
      BY DEF SettledInv, TypeOK, Triggers
    <3>2. RunsOut'
      BY DEF SettledInv, RunsOut, Left, Later, Length, Turn
    <3>3. Applied'
      BY DEF SettledInv, Applied, Faithful
    <3>. QED BY <3>1, <3>2, <3>3 DEF SettledInv
  <2>. QED BY <2>1, <2>2
<1>3. SettledInv => SetpointsApplied
  BY DEF SettledInv, Applied, SetpointsApplied, Quiescent
<1>. QED BY <1>1, <1>2, <1>3, PTL DEF Spec
=============================================================================
