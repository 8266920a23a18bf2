------------------------------ MODULE RovMixer ------------------------------
(***************************************************************************)
(* The mixer state machine of neorv32_rov_motors.vhd, the PID sequencer    *)
(* that triggers it and the setpoint and PID-enable commands that feed it. *)
(*                                                                         *)
(* Every step is one clock edge, at which all three processes move at once *)
(* on the registered values of the edge before.  What the mixer computes   *)
(* is abstracted to what it read: motor_out[m] holds, for every axis, the  *)
(* value that went into the sum, so a result mixed from values of          *)
(* different moments is visible as such.  pid_tick rises when it likes.    *)
(***************************************************************************)
EXTENDS Integers

CONSTANTS
  NumAxes, NumMotors,   \* 6 and 8
  Value, Output,        \* setpoints, PID outputs
  Zero,                 \* the value after reset
  Mask,                 \* the PID enable masks command 0xB may carry
  RunEdges              \* edges after a command in which a mixer run may be going on

ASSUME MixerAssumption ==
  /\ NumAxes \in Nat \ {0} /\ NumMotors \in Nat \ {0}
  /\ RunEdges \in Nat /\ RunEdges > NumMotors * (2 * NumAxes + 1)
  /\ Zero \in Value \cap Output

Axis  == 0 .. NumAxes - 1
Motor == 0 .. NumMotors - 1

ASSUME MaskAssumption == Mask \subseteq SUBSET Axis

VARIABLES
  control_sp, pid_enable, pid_output,
  mixer_trig_man, mixer_trig,   \* the two triggers, high for one edge
  pid_state, pid_ax,            \* PID sequencer
  fsm, m, ax, prod, acc,        \* mixer: stage, motor, axis, registered product, sum
  motor_out,
  since,    \* history: edges since the last command, up to RunEdges
  settled   \* history: the last setpoint came RunEdges after the command before it,
            \* and pid_enable has not changed since

command == <<control_sp, pid_enable, mixer_trig_man, since, settled>>
pid     == <<pid_output, mixer_trig, pid_state, pid_ax>>
mixer   == <<fsm, m, ax, prod, acc, motor_out>>
vars    == <<command, pid, mixer>>

----------------------------------------------------------------------------
(* The status process: one command or none at this edge. *)

NoCommand ==
  /\ mixer_trig_man' = FALSE
  /\ since' = IF since < RunEdges THEN since + 1 ELSE RunEdges
  /\ UNCHANGED <<control_sp, pid_enable, settled>>

\* Mutant: a setpoint that does not start the mixer.
Setpoint_Silent(a, v) ==
  /\ since' = 1 /\ settled' = (since = RunEdges)
  /\ control_sp' = [control_sp EXCEPT ![a] = v]
  /\ mixer_trig_man' = FALSE
  /\ UNCHANGED pid_enable

Setpoint(a, v) == \* 0x6
  /\ since' = 1 /\ settled' = (since = RunEdges)
  /\ control_sp' = [control_sp EXCEPT ![a] = v]
  /\ mixer_trig_man' = TRUE
  /\ UNCHANGED pid_enable

PidEnable(mask) == \* 0xB
  /\ since' = 1 /\ settled' = (settled /\ mask = pid_enable)
  /\ pid_enable' = mask
  /\ mixer_trig_man' = FALSE
  /\ UNCHANGED control_sp

Status ==
  \/ NoCommand
  \/ \E a \in Axis, v \in Value : Setpoint(a, v)
  \/ \E mask \in Mask : PidEnable(mask)

----------------------------------------------------------------------------
(* The PID sequencer.  S1 and S2 fill pipeline registers; S3 writes the    *)
(* output of an enabled axis, whose arithmetic is left open here.          *)

\* Mutant: the mixer is started only when every axis is under PID control.
PidLatch_AllAxes ==
  /\ pid_state = "S3_LATCH"
  /\ IF pid_ax = NumAxes - 1
     THEN pid_state' = "IDLE" /\ mixer_trig' = (pid_enable = Axis) /\ UNCHANGED pid_ax
     ELSE pid_state' = "S1" /\ pid_ax' = pid_ax + 1 /\ UNCHANGED mixer_trig
  /\ UNCHANGED pid_output

PidLatch ==
  /\ pid_state = "S3_LATCH"
  /\ IF pid_ax = NumAxes - 1
     THEN pid_state' = "IDLE" /\ mixer_trig' = (pid_enable # {}) /\ UNCHANGED pid_ax
     ELSE pid_state' = "S1" /\ pid_ax' = pid_ax + 1 /\ UNCHANGED mixer_trig
  /\ UNCHANGED pid_output

PidWait == \* IDLE, no tick
  /\ pid_state = "IDLE"
  /\ mixer_trig' = FALSE
  /\ UNCHANGED <<pid_output, pid_state, pid_ax>>

PidTick == \* IDLE, pid_tick high
  /\ pid_state = "IDLE"
  /\ mixer_trig' = FALSE
  /\ pid_state' = "S1" /\ pid_ax' = 0
  /\ UNCHANGED pid_output

PidStage ==
  /\ \/ pid_state = "S1" /\ pid_state' = "S2" /\ UNCHANGED pid_output
     \/ pid_state = "S2" /\ pid_state' = "S3" /\ UNCHANGED pid_output
     \/ /\ pid_state = "S3" /\ pid_state' = "S3_LATCH"
        /\ \/ /\ pid_ax \in pid_enable
              /\ \E v \in Output : pid_output' = [pid_output EXCEPT ![pid_ax] = v]
           \/ pid_ax \notin pid_enable /\ UNCHANGED pid_output
  /\ UNCHANGED <<mixer_trig, pid_ax>>

Pid == PidWait \/ PidTick \/ PidStage \/ PidLatch

----------------------------------------------------------------------------
(* The mixer. *)

mix_val(a) == IF a \in pid_enable THEN pid_output[a] ELSE control_sp[a]

MixerIdle ==
  /\ fsm = "IDLE"
  /\ IF mixer_trig \/ mixer_trig_man
     THEN fsm' = "MUL" /\ m' = 0 /\ ax' = 0
     ELSE UNCHANGED <<fsm, m, ax>>
  /\ UNCHANGED <<prod, acc, motor_out>>

MixerMul ==
  /\ fsm = "MUL" /\ fsm' = "ADD"
  /\ prod' = mix_val(ax)
  /\ UNCHANGED <<m, ax, acc, motor_out>>

MixerAdd ==
  /\ fsm = "ADD"
  /\ acc' = [acc EXCEPT ![ax] = prod]
  /\ IF ax = NumAxes - 1 THEN fsm' = "DONE" /\ UNCHANGED ax
     ELSE fsm' = "MUL" /\ ax' = ax + 1
  /\ UNCHANGED <<m, prod, motor_out>>

\* Mutant: the machine stops one motor early.
MixerDone_OneLess ==
  /\ fsm = "DONE"
  /\ motor_out' = [motor_out EXCEPT ![m] = acc]
  /\ IF m >= NumMotors - 2 THEN fsm' = "IDLE" /\ UNCHANGED <<m, ax>>
     ELSE fsm' = "MUL" /\ m' = m + 1 /\ ax' = 0
  /\ UNCHANGED <<prod, acc>>

MixerDone ==
  /\ fsm = "DONE"
  /\ motor_out' = [motor_out EXCEPT ![m] = acc]
  /\ IF m = NumMotors - 1 THEN fsm' = "IDLE" /\ UNCHANGED <<m, ax>>
     ELSE fsm' = "MUL" /\ m' = m + 1 /\ ax' = 0
  /\ UNCHANGED <<prod, acc>>

Mixer == MixerIdle \/ MixerMul \/ MixerAdd \/ MixerDone

----------------------------------------------------------------------------
Neutral == [a \in Axis |-> Zero]

Init ==
  /\ control_sp = Neutral /\ pid_enable = {} /\ mixer_trig_man = FALSE
  /\ pid_output = Neutral /\ mixer_trig = FALSE /\ pid_state = "IDLE" /\ pid_ax = 0
  /\ fsm = "IDLE" /\ m = 0 /\ ax = 0 /\ prod = Zero /\ acc = Neutral
  /\ motor_out = [k \in Motor |-> Neutral]
  /\ since = RunEdges /\ settled = TRUE

Next == Status /\ Pid /\ Mixer

Spec == Init /\ [][Next]_vars

\* The clock runs, and pid_tick is a free-running divider of it.
FairSpec == Spec /\ WF_vars(Next) /\ WF_vars(Status /\ PidTick /\ Mixer)

----------------------------------------------------------------------------
(* Properties. *)

\* Registers keep the ranges of their declarations.
TypeOK ==
  /\ control_sp \in [Axis -> Value] /\ pid_output \in [Axis -> Output]
  /\ pid_enable \in SUBSET Axis
  /\ mixer_trig_man \in BOOLEAN /\ mixer_trig \in BOOLEAN /\ settled \in BOOLEAN
  /\ pid_state \in {"IDLE", "S1", "S2", "S3", "S3_LATCH"} /\ pid_ax \in Axis
  /\ fsm \in {"IDLE", "MUL", "ADD", "DONE"} /\ m \in Motor /\ ax \in Axis
  /\ prod \in Value \cup Output /\ acc \in [Axis -> Value \cup Output]
  /\ motor_out \in [Motor -> [Axis -> Value \cup Output]]
  /\ since \in 1 .. RunEdges

Quiescent == fsm = "IDLE" /\ ~mixer_trig_man /\ ~mixer_trig

\* With the PID off and the mixer at rest every motor carries the setpoints as
\* they are, provided the last one came a mixer run after the command before it,
\* which is 105 edges for 8 motors and 6 axes.
SetpointsApplied ==
  Quiescent /\ pid_enable = {} /\ settled =>
    motor_out = [k \in Motor |-> control_sp]

\* Whatever the commands' spacing, 400 Hz PID triggers repair it: while some
\* axis is under PID control, setpoints of the other axes that stay reach all
\* motors.
PidRefreshes ==
  \A mask \in Mask \ {{}}, sp \in [Axis -> Value] :
    <>[](pid_enable = mask /\ control_sp = sp) =>
      <>[](\A k \in Motor, a \in Axis \ mask : motor_out[k][a] = sp[a])

----------------------------------------------------------------------------
(* What the documents say and the code does not do: TLC refutes these.     *)

\* The console's "Free mode: depth/yaw hold disabled, PID off": with the PID off
\* and the mixer at rest no motor carries a PID output any more.  The
\* command does not start the mixer.  (Value = {Zero} tells the two apart.)
PidOffIsOff ==
  Quiescent /\ pid_enable = {} =>
    \A k \in Motor, a \in Axis : motor_out[k][a] \in Value
=============================================================================
