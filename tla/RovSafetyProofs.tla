-------------------------- MODULE RovSafetyProofs --------------------------
(***************************************************************************)
(* Proofs about RovSafety, for every counter width, timeout, neutral       *)
(* window, slew step and set of channels its assumptions admit.            *)
(***************************************************************************)
EXTENDS RovSafety, TLAPS

(***************************************************************************)
(* Types                                                                   *)
(***************************************************************************)

\* One slew step stays within the duty range and moves by at most SlewStep
\* away from wherever the duty was (operator Slewed, lines 526-540).
LEMMA SlewedRange ==
  ASSUME NEW c \in 0 .. DutyMax, NEW t \in 0 .. DutyMax
  PROVE  /\ Slewed(c, t) \in 0 .. DutyMax
         /\ Distance(Slewed(c, t)) <= Distance(c) + SlewStep
BY SlewAssumption DEF Slewed, Distance

\* The slew process preserves the types of its registers.
LEMMA SlewTypes ==
  ASSUME TypeOK, NEW tick \in BOOLEAN, SlewTick(tick)
  PROVE  /\ arm_timer' \in 0 .. ArmDelay
         /\ armed_prev' \in BOOLEAN
         /\ motor_out_slewed' \in [Channel -> 0 .. DutyMax]
         /\ upTicks' \in 0 .. TickCap
<1>1. CASE ~tick
  BY <1>1 DEF SlewTick, slew, TypeOK
<1>2. CASE tick
  <2>1. ArmTimerNext \in 0 .. ArmDelay
    BY SlewAssumption DEF ArmTimerNext, TypeOK
  <2>2. upTicks' \in 0 .. TickCap
    BY <1>2, SlewAssumption DEF SlewTick, Saturate, TypeOK
  <2>3. ASSUME NEW ch \in Channel
        PROVE  Slewed(motor_out_slewed[ch], motor_out[ch]) \in 0 .. DutyMax
    BY SlewedRange DEF TypeOK
  <2>4. motor_out_slewed' \in [Channel -> 0 .. DutyMax]
    BY <1>2, <2>3, SlewAssumption DEF SlewTick
  <2>. QED BY <1>2, <2>1, <2>2, <2>4 DEF SlewTick, TypeOK
<1>. QED BY <1>1, <1>2

\* A watchdog tick preserves the types of its registers.
LEMMA WatchdogTypes ==
  ASSUME TypeOK, NEW tick \in BOOLEAN, WatchdogTick(tick)
  PROVE  /\ heartbeat_cnt' \in 0 .. CntMod - 1
         /\ heartbeat_alive' \in BOOLEAN
         /\ quiet' \in 0 .. CntMod
BY WatchdogAssumption DEF WatchdogTick, Saturate, TypeOK

\* A cycle preserves the types of what both processes assign.
LEMMA CycleTypes ==
  ASSUME TypeOK, NEW tick \in BOOLEAN, NEW armed \in BOOLEAN, Cycle(tick, armed)
  PROVE  /\ motors_armed' \in BOOLEAN
         /\ sinceArm' \in 0 .. TickCap
         /\ motor_out' \in [Channel -> 0 .. DutyMax]
         /\ arm_timer' \in 0 .. ArmDelay
         /\ armed_prev' \in BOOLEAN
         /\ motor_out_slewed' \in [Channel -> 0 .. DutyMax]
         /\ upTicks' \in 0 .. TickCap
<1>1. sinceArm' \in 0 .. TickCap
  BY SlewAssumption DEF Cycle, Saturate, TypeOK
<1>2. SlewTick(tick)
  BY DEF Cycle
<1>. QED BY <1>1, <1>2, SlewTypes DEF Cycle, TypeOK

\* The registers of RovSafety keep the ranges their VHDL declarations give
\* them, timeouts included: a written 0 never reaches hb_timeout.
THEOREM TypeCorrect == Spec => []TypeOK
<1>1. Init => TypeOK
  <2> SUFFICES ASSUME Init PROVE TypeOK
    OBVIOUS
  <2>1. [ch \in Channel |-> Neutral] \in [Channel -> 0 .. DutyMax]
    BY SlewAssumption
  <2>2. /\ CntMod \in 0 .. CntMod /\ 0 \in 0 .. CntMod - 1
        /\ 0 \in 0 .. ArmDelay /\ 0 \in 0 .. TickCap /\ TickCap \in 0 .. TickCap
    BY WatchdogAssumption, SlewAssumption
  <2>. QED BY <2>1, <2>2, WatchdogAssumption DEF Init, TypeOK
<1>2. TypeOK /\ [Next]_vars => TypeOK'
  <2> SUFFICES ASSUME TypeOK, [Next]_vars PROVE TypeOK'
    OBVIOUS
  <2>1. CASE Tick
    <3>1. ArmedAfter(TRUE) \in BOOLEAN
      BY DEF ArmedAfter
    <3>. QED
      BY <2>1, <3>1, WatchdogTypes, CycleTypes DEF Tick, TypeOK
  <2>2. ASSUME NEW tick \in BOOLEAN, NEW bit \in {0, 1}, Heartbeat(tick, bit)
        PROVE  TypeOK'
    <3>1. ArmedAfter(tick) \in BOOLEAN
      BY DEF ArmedAfter
    <3>. QED
      BY <2>2, <3>1, CycleTypes, WatchdogAssumption DEF Heartbeat, TypeOK
  <2>3. ASSUME NEW tick \in BOOLEAN, Arm(tick)
        PROVE  TypeOK'
    <3>1. (heartbeat_alive \/ ArmedAfter(tick)) \in BOOLEAN
      BY DEF ArmedAfter
    <3>. QED
      BY <2>3, <3>1, WatchdogTypes, CycleTypes DEF Arm, TypeOK
  <2>4. ASSUME NEW tick \in BOOLEAN, Disarm(tick)
        PROVE  TypeOK'
    BY <2>4, WatchdogTypes, CycleTypes DEF Disarm, TypeOK
  <2>5. ASSUME NEW tick \in BOOLEAN, NEW ms \in TimeoutValue, SetTimeout(tick, ms)
        PROVE  TypeOK'
    <3>1. ArmedAfter(tick) \in BOOLEAN
      BY DEF ArmedAfter
    <3>2. hb_timeout' \in 1 .. CntMod - 1
      BY <2>5, WatchdogAssumption DEF SetTimeout
    <3>. QED
      BY <2>5, <3>1, <3>2, WatchdogTypes, CycleTypes DEF SetTimeout, TypeOK
  <2>6. ASSUME NEW ch \in Channel, NEW duty \in MixerDuty, MixerWrite(ch, duty)
        PROVE  TypeOK'
    BY <2>6, SlewAssumption DEF MixerWrite, watchdog, slew, history, TypeOK
  <2>7. CASE Reset
    <3>1. [ch \in Channel |-> Neutral] \in [Channel -> 0 .. DutyMax]
      BY SlewAssumption
    <3>2. /\ CntMod \in 0 .. CntMod /\ 0 \in 0 .. CntMod - 1
          /\ 0 \in 0 .. ArmDelay /\ 0 \in 0 .. TickCap /\ TickCap \in 0 .. TickCap
      BY WatchdogAssumption, SlewAssumption
    <3>. QED BY <2>7, <3>1, <3>2, WatchdogAssumption DEF Reset, ResetState, TypeOK
  <2>8. CASE UNCHANGED vars
    BY <2>8 DEF vars, watchdog, slew, history, TypeOK
  <2>. QED
    BY <2>1, <2>2, <2>3, <2>4, <2>5, <2>6, <2>7, <2>8 DEF Next, Command
<1>. QED BY <1>1, <1>2, PTL DEF Spec

(***************************************************************************)
(* The watchdog                                                            *)
(***************************************************************************)

\* A tick that leaves the link alive counted one more silent millisecond, and
\* did so below the timeout: neither counter wraps nor saturates.
LEMMA AliveTick ==
  ASSUME TypeOK, CounterTellsSilence, NEW tick \in BOOLEAN, WatchdogTick(tick),
         heartbeat_alive'
  PROVE  /\ heartbeat_alive
         /\ quiet' = heartbeat_cnt'
         /\ tick => quiet < hb_timeout
<1>1. heartbeat_alive /\ ~Trips(tick) /\ quiet = heartbeat_cnt
  BY DEF WatchdogTick, CounterTellsSilence
<1>2. CASE ~tick
  BY <1>1, <1>2 DEF WatchdogTick
<1>3. CASE tick
  <2>1. heartbeat_cnt < hb_timeout
    BY <1>1, <1>3 DEF Trips, TypeOK
  <2>2. heartbeat_cnt + 1 \in 0 .. CntMod - 1
    BY <2>1, WatchdogAssumption DEF TypeOK
  <2>3. (heartbeat_cnt + 1) % CntMod = heartbeat_cnt + 1
    BY <2>2, WatchdogAssumption
  <2>4. Saturate(quiet + 1, CntMod) = heartbeat_cnt + 1
    BY <1>1, <2>2, WatchdogAssumption DEF Saturate
  <2>. QED BY <1>1, <1>3, <2>1, <2>3, <2>4 DEF WatchdogTick
<1>. QED BY <1>2, <1>3

\* One step of RovSafety preserves the agreement of counter and silence.
LEMMA CounterStep ==
  ASSUME TypeOK, CounterTellsSilence, [Next]_vars
  PROVE  CounterTellsSilence'
<1>1. ASSUME NEW tick \in BOOLEAN, WatchdogTick(tick)
      PROVE  CounterTellsSilence'
  BY <1>1, AliveTick DEF CounterTellsSilence
<1>2. CASE Tick
  BY <1>1, <1>2 DEF Tick
<1>3. ASSUME NEW tick \in BOOLEAN, Command(tick)
      PROVE  CounterTellsSilence'
  <2>1. ASSUME NEW bit \in {0, 1}, Heartbeat(tick, bit)
        PROVE  CounterTellsSilence'
    BY <2>1 DEF Heartbeat, CounterTellsSilence
  <2>2. ASSUME NEW ms \in TimeoutValue, SetTimeout(tick, ms)
        PROVE  CounterTellsSilence'
    BY <1>1, <2>2 DEF SetTimeout
  <2>3. CASE Arm(tick) \/ Disarm(tick)
    BY <1>1, <2>3 DEF Arm, Disarm
  <2>. QED BY <1>3, <2>1, <2>2, <2>3 DEF Command
<1>4. ASSUME NEW ch \in Channel, NEW duty \in MixerDuty, MixerWrite(ch, duty)
      PROVE  CounterTellsSilence'
  BY <1>4 DEF MixerWrite, watchdog, history, CounterTellsSilence
<1>5. CASE Reset
  BY <1>5 DEF Reset, ResetState, CounterTellsSilence
<1>6. CASE UNCHANGED vars
  BY <1>6 DEF vars, watchdog, history, CounterTellsSilence
<1>. QED BY <1>2, <1>3, <1>4, <1>5, <1>6 DEF Next

\* While the link counts as alive the 8-bit counter is the true silence.
THEOREM CounterIsSilence == Spec => []CounterTellsSilence
<1>1. Init => CounterTellsSilence
  BY DEF Init, CounterTellsSilence
<1>2. TypeOK /\ CounterTellsSilence /\ [Next]_vars => CounterTellsSilence'
  BY CounterStep
<1>. QED BY <1>1, <1>2, TypeCorrect, PTL DEF Spec

\* A trip of a link that is alive has the whole timeout of silence behind it.
LEMMA TripIsDue ==
  ASSUME TypeOK, CounterTellsSilence, NEW tick \in BOOLEAN, heartbeat_alive, Trips(tick)
  PROVE  quiet >= hb_timeout
BY DEF Trips, CounterTellsSilence, TypeOK

\* A millisecond that ends without a heartbeat leaves the PWM gate open only
\* if the silence before it was shorter than the timeout in force; and outside
\* a reset the link is dropped, and the gate shut but by a disarm command, only
\* after a silence of at least the timeout.
THEOREM DeadlineSafe == Spec => DeadlineHonoured
<1>1. TypeOK /\ CounterTellsSilence /\ [Next]_vars
        => [quiet' > quiet => (PwmArm' => quiet < hb_timeout)]_vars
  <2> SUFFICES ASSUME TypeOK, CounterTellsSilence, Next, quiet' > quiet, PwmArm'
               PROVE  quiet < hb_timeout
    OBVIOUS
  <2>0. heartbeat_alive'
    BY DEF PwmArm
  <2>1. ASSUME NEW tick \in BOOLEAN, WatchdogTick(tick)
        PROVE  quiet < hb_timeout
    <3>1. tick
      BY <2>1 DEF WatchdogTick, TypeOK
    <3>. QED BY <2>0, <2>1, <3>1, AliveTick
  <2>2. CASE Tick
    BY <2>1, <2>2 DEF Tick
  <2>3. ASSUME NEW tick \in BOOLEAN, Command(tick)
        PROVE  quiet < hb_timeout
    <3>1. ASSUME NEW bit \in {0, 1}, Heartbeat(tick, bit)
          PROVE  FALSE
      BY <3>1 DEF Heartbeat, TypeOK
    <3>2. ASSUME NEW ms \in TimeoutValue, SetTimeout(tick, ms)
          PROVE  quiet < hb_timeout
      BY <2>1, <3>2 DEF SetTimeout
    <3>3. CASE Arm(tick) \/ Disarm(tick)
      BY <2>1, <3>3 DEF Arm, Disarm
    <3>. QED BY <2>3, <3>1, <3>2, <3>3 DEF Command
  <2>4. ASSUME NEW ch \in Channel, NEW duty \in MixerDuty, MixerWrite(ch, duty)
        PROVE  FALSE
    BY <2>4 DEF MixerWrite, history, TypeOK
  <2>5. CASE Reset
    BY <2>0, <2>5 DEF Reset, ResetState
  <2>. QED BY <2>2, <2>3, <2>4, <2>5 DEF Next
<1>2. TypeOK /\ CounterTellsSilence /\ [Next]_vars
        => [/\ heartbeat_alive /\ ~heartbeat_alive' => Reset \/ quiet >= hb_timeout
            /\ PwmArm /\ ~PwmArm' =>
                 Reset \/ quiet >= hb_timeout \/ \E tick \in BOOLEAN : Disarm(tick)]_vars
  <2>. DEFINE Kept == heartbeat_alive => heartbeat_alive'
              Open == PwmArm => PwmArm'
              Due  == quiet >= hb_timeout
  <2> SUFFICES ASSUME TypeOK, CounterTellsSilence, Next, ~Reset
               PROVE  /\ Kept \/ Due
                      /\ Open \/ Due \/ \E tick \in BOOLEAN : Disarm(tick)
    OBVIOUS
  <2>. HIDE DEF Due
  <2>1. ASSUME NEW tick \in BOOLEAN, heartbeat_alive, Trips(tick)
        PROVE  Due
    BY <2>1, TripIsDue DEF Due
  <2>2. ASSUME NEW tick \in BOOLEAN, WatchdogTick(tick)
        PROVE  Kept \/ Due
    BY <2>1, <2>2 DEF WatchdogTick
  <2>3. ASSUME NEW tick \in BOOLEAN, WatchdogTick(tick), motors_armed' = ArmedAfter(tick)
        PROVE  Open \/ Due
    BY <2>1, <2>3 DEF WatchdogTick, ArmedAfter, PwmArm
  <2>4. CASE Tick
    <3>1. WatchdogTick(TRUE) /\ motors_armed' = ArmedAfter(TRUE)
      BY <2>4 DEF Tick, Cycle
    <3>. QED BY <3>1, <2>2, <2>3
  <2>5. ASSUME NEW tick \in BOOLEAN, NEW bit \in {0, 1}, Heartbeat(tick, bit)
        PROVE  Kept /\ (Open \/ Due)
    BY <2>1, <2>5 DEF Heartbeat, Cycle, ArmedAfter, PwmArm
  <2>6. ASSUME NEW tick \in BOOLEAN, Arm(tick)
        PROVE  (Kept \/ Due) /\ (Open \/ Due)
    <3>1. WatchdogTick(tick) /\ (heartbeat_alive => motors_armed')
      BY <2>6 DEF Arm, Cycle
    <3>. QED BY <3>1, <2>2 DEF PwmArm
  <2>7. ASSUME NEW tick \in BOOLEAN, Disarm(tick)
        PROVE  Kept \/ Due
    BY <2>2, <2>7 DEF Disarm
  <2>8. ASSUME NEW tick \in BOOLEAN, NEW ms \in TimeoutValue, SetTimeout(tick, ms)
        PROVE  (Kept \/ Due) /\ (Open \/ Due)
    BY <2>2, <2>3, <2>8 DEF SetTimeout, Cycle
  <2>9. ASSUME NEW ch \in Channel, NEW duty \in MixerDuty, MixerWrite(ch, duty)
        PROVE  Kept /\ Open
    BY <2>9 DEF MixerWrite, watchdog, PwmArm
  <2>. QED BY <2>4, <2>2, <2>3, <2>5, <2>6, <2>7, <2>8, <2>9 DEF Next, Command
<1>. QED BY <1>1, <1>2, TypeCorrect, CounterIsSilence, PTL DEF Spec, DeadlineHonoured

(***************************************************************************)
(* The soft start                                                          *)
(***************************************************************************)

RampInv == TimerCountsTicks /\ RampBound

\* How far from neutral a duty may be after n armed milliseconds.
Reach(n) == IF n > ArmDelay THEN SlewStep * (n - ArmDelay) ELSE 0

\* Each armed millisecond beyond the neutral window adds one slew step of
\* reach, up to the cap of the history variable, where the whole duty range
\* is in reach.
LEMMA ReachGrows ==
  ASSUME NEW n \in 0 .. TickCap, n >= ArmDelay,
         NEW d \in 0 .. DutyMax, NEW e \in 0 .. DutyMax,
         d <= Reach(n), e <= d + SlewStep
  PROVE  e <= Reach(Saturate(n + 1, TickCap))
<1>. DEFINE k == n - ArmDelay
<1>0. k \in Nat
  BY SlewAssumption
<1>1. d <= SlewStep * k
  <2>1. CASE n > ArmDelay
    BY <2>1 DEF Reach
  <2>2. CASE n = ArmDelay
    <3>1. k = 0 /\ d <= 0
      BY <2>2, SlewAssumption DEF Reach
    <3>2. SlewStep * 0 = 0
      BY SlewAssumption
    <3>. QED BY <3>1, <3>2
  <2>. QED BY <2>1, <2>2, SlewAssumption
<1>2. CASE n < TickCap
  <2>1. Saturate(n + 1, TickCap) = n + 1
    BY <1>2, SlewAssumption DEF Saturate
  <2>2. Reach(n + 1) = SlewStep * (k + 1)
    <3>1. n + 1 > ArmDelay /\ (n + 1) - ArmDelay = k + 1
      BY SlewAssumption
    <3>. QED BY <3>1 DEF Reach
  <2>3. SlewStep * (k + 1) = SlewStep * k + SlewStep
    BY <1>0, SlewAssumption
  <2>4. SlewStep * k \in Nat
    BY <1>0, SlewAssumption
  <2>. QED BY <1>1, <2>1, <2>2, <2>3, <2>4, SlewAssumption
<1>3. CASE n = TickCap
  <2>1. Saturate(n + 1, TickCap) = TickCap
    BY <1>3, SlewAssumption DEF Saturate
  <2>2. Reach(TickCap) = SlewStep * (TickCap - ArmDelay)
    BY SlewAssumption DEF Reach
  <2>3. SlewStep * (TickCap - ArmDelay) \in Nat
    BY SlewAssumption
  <2>. QED BY <2>1, <2>2, <2>3, RampAssumption, SlewAssumption
<1>. QED BY <1>2, <1>3, SlewAssumption

\* The slew process preserves the agreement of countdown and history, and the
\* reach of every duty.
LEMMA RampSlew ==
  ASSUME TypeOK, RampInv, NEW tick \in BOOLEAN, SlewTick(tick)
  PROVE  RampInv'
<1>1. CASE ~tick
  BY <1>1 DEF SlewTick, slew, RampInv, TimerCountsTicks, RampBound
<1>2. CASE tick /\ ~motors_armed
  <2>1. TimerCountsTicks'
    BY <1>2, SlewAssumption DEF SlewTick, ArmTimerNext, TimerCountsTicks
  <2>2. upTicks' = 0 /\ \A ch \in Channel : motor_out_slewed'[ch] = Neutral
    BY <1>2 DEF SlewTick
  <2>3. Distance(Neutral) = 0
    BY SlewAssumption DEF Distance
  <2>4. RampBound'
    BY <2>2, <2>3, SlewAssumption DEF RampBound, Distance
  <2>. QED BY <2>1, <2>4 DEF RampInv
<1>3. CASE tick /\ motors_armed
  <2>1. /\ arm_timer' = ArmTimerNext /\ armed_prev' = TRUE
        /\ upTicks' = Saturate(upTicks + 1, TickCap)
    BY <1>3 DEF SlewTick, TypeOK
  <2>2. TimerCountsTicks'
    BY <1>3, <2>1, SlewAssumption
    DEF ArmTimerNext, Saturate, TimerCountsTicks, RampInv, TypeOK
  <2>3. ASSUME NEW ch \in Channel
        PROVE  Distance(motor_out_slewed'[ch]) <= Reach(upTicks')
    <3>1. CASE ArmTimerNext > 0
      <4>1. motor_out_slewed'[ch] = Neutral
        BY <1>3, <3>1 DEF SlewTick
      <4>2. upTicks' \in 1 .. ArmDelay
        BY <2>1, <2>2, <3>1, SlewAssumption DEF TimerCountsTicks
      <4>3. Reach(upTicks') = 0
        <5>1. ~(upTicks' > ArmDelay)
          BY <4>2, SlewAssumption
        <5>. QED BY <5>1 DEF Reach
      <4>4. Distance(Neutral) = 0
        BY SlewAssumption DEF Distance
      <4>. QED BY <4>1, <4>3, <4>4
    <3>2. CASE ~(ArmTimerNext > 0)
      <4>. DEFINE c == motor_out_slewed[ch]
                  t == motor_out[ch]
      <4>1. c \in 0 .. DutyMax /\ t \in 0 .. DutyMax
        BY DEF TypeOK
      <4>2. motor_out_slewed'[ch] = Slewed(c, t)
        BY <1>3, <3>2 DEF SlewTick
      <4>3. upTicks >= ArmDelay /\ upTicks \in 0 .. TickCap
        BY <1>3, <3>2, SlewAssumption
        DEF ArmTimerNext, RampInv, TimerCountsTicks, TypeOK
      <4>4. Distance(c) <= Reach(upTicks)
        BY DEF RampInv, RampBound, Reach
      <4>5. /\ Slewed(c, t) \in 0 .. DutyMax
            /\ Distance(Slewed(c, t)) <= Distance(c) + SlewStep
        BY <4>1, SlewedRange
      <4>6. Distance(c) \in 0 .. DutyMax /\ Distance(Slewed(c, t)) \in 0 .. DutyMax
        BY <4>1, <4>5, SlewAssumption DEF Distance
      <4>. QED
        BY <2>1, <4>2, <4>3, <4>4, <4>5, <4>6, ReachGrows
    <3>. QED BY <3>1, <3>2
  <2>4. RampBound'
    BY <2>3 DEF RampBound, Reach, Distance
  <2>. QED BY <2>2, <2>4 DEF RampInv
<1>. QED BY <1>1, <1>2, <1>3

\* The countdown agrees with the armed milliseconds and no duty leaves
\* neutral early or runs ahead of the slew limit, for every neutral window
\* and slew step.
THEOREM SoftStart == Spec => [](TimerCountsTicks /\ RampBound)
<1>1. Init => RampInv
  BY SlewAssumption DEF Init, RampInv, TimerCountsTicks, RampBound, Distance
<1>2. TypeOK /\ RampInv /\ [Next]_vars => RampInv'
  <2> SUFFICES ASSUME TypeOK, RampInv, [Next]_vars PROVE RampInv'
    OBVIOUS
  <2>1. ASSUME NEW tick \in BOOLEAN, NEW armed \in BOOLEAN, Cycle(tick, armed)
        PROVE  RampInv'
    BY <2>1, RampSlew DEF Cycle
  <2>2. CASE Tick
    <3>1. ArmedAfter(TRUE) \in BOOLEAN
      BY DEF ArmedAfter
    <3>. QED BY <2>1, <2>2, <3>1 DEF Tick
  <2>3. ASSUME NEW tick \in BOOLEAN, Command(tick)
        PROVE  RampInv'
    <3>1. /\ ArmedAfter(tick) \in BOOLEAN
          /\ (heartbeat_alive \/ ArmedAfter(tick)) \in BOOLEAN
      BY DEF ArmedAfter
    <3>2. \E armed \in BOOLEAN : Cycle(tick, armed)
      BY <2>3, <3>1 DEF Command, Heartbeat, Arm, Disarm, SetTimeout
    <3>. QED BY <2>1, <3>2
  <2>4. ASSUME NEW ch \in Channel, NEW duty \in MixerDuty, MixerWrite(ch, duty)
        PROVE  RampInv'
    BY <2>4 DEF MixerWrite, slew, history, RampInv, TimerCountsTicks, RampBound
  <2>5. CASE Reset
    BY <2>5, SlewAssumption
    DEF Reset, ResetState, RampInv, TimerCountsTicks, RampBound, Distance
  <2>6. CASE UNCHANGED vars
    BY <2>6 DEF vars, slew, history, RampInv, TimerCountsTicks, RampBound
  <2>. QED BY <2>2, <2>3, <2>4, <2>5, <2>6 DEF Next
<1>. QED BY <1>1, <1>2, TypeCorrect, PTL DEF Spec, RampInv

(***************************************************************************)
(* The measures under SilenceDisarms and OutputConverges: each strobe      *)
(* brings the end nearer.  What follows from them under fairness is left   *)
(* to TLC.                                                                 *)
(***************************************************************************)

\* An upper bound of the strobes a drive may stay armed without a heartbeat.
Left(alive, cnt) == IF alive THEN 2 * CntMod - cnt ELSE CntMod - cnt
StrobesLeft      == Left(heartbeat_alive, heartbeat_cnt)

\* As long as the drive is left armed and no heartbeat is accepted, every
\* strobe lowers the bound and no other cycle raises it, whatever commands
\* come in between and whatever timeouts they write.
SilenceRunsOut ==
  [][motors_armed' /\ UNCHANGED hb_toggle_last =>
       /\ StrobesLeft' <= StrobesLeft
       /\ Millisecond => StrobesLeft' < StrobesLeft]_vars

\* Losing the link lowers the bound, and so does a count without a wrap.
LEMMA LeftFalls ==
  ASSUME NEW alive \in BOOLEAN, NEW alive2 \in BOOLEAN,
         NEW cnt \in 0 .. CntMod - 1, NEW cnt2 \in 0 .. CntMod - 1,
         \/ alive /\ ~alive2
         \/ alive = alive2 /\ cnt2 = cnt + 1
  PROVE  Left(alive2, cnt2) <= Left(alive, cnt) /\ Left(alive2, cnt2) < Left(alive, cnt)
<1>1. CASE alive /\ ~alive2
  BY <1>1, WatchdogAssumption DEF Left
<1>2. CASE alive = alive2 /\ cnt2 = cnt + 1
  BY <1>2, WatchdogAssumption DEF Left
<1>. QED BY <1>1, <1>2

LEMMA LeftRange ==
  ASSUME NEW alive \in BOOLEAN, NEW cnt \in 0 .. CntMod - 1
  PROVE  Left(alive, cnt) \in 1 .. 2 * CntMod /\ Left(alive, cnt) <= Left(alive, cnt)
BY WatchdogAssumption DEF Left

\* A watchdog tick lowers the bound, unless a dead link has already tripped.
LEMMA TickRunsOut ==
  ASSUME TypeOK, NEW tick \in BOOLEAN, WatchdogTick(tick),
         heartbeat_alive \/ ~Trips(tick)
  PROVE  /\ StrobesLeft' <= StrobesLeft
         /\ tick => StrobesLeft' < StrobesLeft
<1>1. CASE ~tick
  <2>1. heartbeat_cnt' = heartbeat_cnt /\ heartbeat_alive' = heartbeat_alive
    BY <1>1 DEF WatchdogTick, Trips, TypeOK
  <2>2. StrobesLeft' = StrobesLeft /\ StrobesLeft <= StrobesLeft
    BY <2>1, LeftRange DEF StrobesLeft, TypeOK
  <2>. QED BY <1>1, <2>2
<1>2. CASE tick
  <2>1. heartbeat_cnt' \in 0 .. CntMod - 1 /\ heartbeat_alive' \in BOOLEAN
    BY WatchdogTypes
  <2>2. CASE Trips(tick)
    <3>1. heartbeat_alive /\ ~heartbeat_alive'
      BY <2>2 DEF WatchdogTick
    <3>. QED BY <2>1, <3>1, LeftFalls DEF StrobesLeft, TypeOK
  <2>3. CASE ~Trips(tick)
    <3>1. heartbeat_cnt + 1 \in 0 .. CntMod - 1
      BY <1>2, <2>3, WatchdogAssumption DEF Trips, TypeOK
    <3>2. (heartbeat_cnt + 1) % CntMod = heartbeat_cnt + 1
      BY <3>1, WatchdogAssumption
    <3>3. heartbeat_cnt' = heartbeat_cnt + 1 /\ heartbeat_alive' = heartbeat_alive
      BY <1>2, <2>3, <3>2 DEF WatchdogTick, TypeOK
    <3>. QED BY <2>1, <3>3, LeftFalls DEF StrobesLeft, TypeOK
  <2>. QED BY <2>2, <2>3
<1>. QED BY <1>1, <1>2

\* Under silence the bound falls with every strobe.  It is a positive number
\* of at most 2 * CntMod, so that an armed drive falls within as many strobes.
THEOREM SilenceBounded ==
  Spec => SilenceRunsOut /\ [](StrobesLeft \in 1 .. 2 * CntMod)
<1>1. TypeOK => StrobesLeft \in 1 .. 2 * CntMod
  BY LeftRange DEF StrobesLeft, TypeOK
<1>2. TypeOK /\ [Next]_vars
        => [motors_armed' /\ UNCHANGED hb_toggle_last =>
              /\ StrobesLeft' <= StrobesLeft
              /\ Millisecond => StrobesLeft' < StrobesLeft]_vars
  <2> SUFFICES ASSUME TypeOK, Next, motors_armed', UNCHANGED hb_toggle_last
               PROVE  /\ StrobesLeft' <= StrobesLeft
                      /\ Millisecond => StrobesLeft' < StrobesLeft
    OBVIOUS
  <2>1. CASE Tick
    <3>1. WatchdogTick(TRUE) /\ ~Trips(TRUE)
      BY <2>1 DEF Tick, Cycle, ArmedAfter
    <3>. QED BY <3>1, TickRunsOut
  <2>2. ASSUME NEW tick \in BOOLEAN, Command(tick)
        PROVE  /\ StrobesLeft' <= StrobesLeft
               /\ tick => StrobesLeft' < StrobesLeft
    <3>1. ASSUME NEW bit \in {0, 1}, Heartbeat(tick, bit)
          PROVE  FALSE
      BY <3>1 DEF Heartbeat
    <3>2. CASE Arm(tick)
      <4>1. WatchdogTick(tick) /\ (heartbeat_alive \/ ~Trips(tick))
        BY <3>2 DEF Arm, Cycle, ArmedAfter
      <4>. QED BY <4>1, TickRunsOut
    <3>3. CASE Disarm(tick)
      BY <3>3 DEF Disarm, Cycle
    <3>4. ASSUME NEW ms \in TimeoutValue, SetTimeout(tick, ms)
          PROVE  /\ StrobesLeft' <= StrobesLeft
                 /\ tick => StrobesLeft' < StrobesLeft
      <4>1. WatchdogTick(tick) /\ ~Trips(tick)
        BY <3>4 DEF SetTimeout, Cycle, ArmedAfter
      <4>. QED BY <4>1, TickRunsOut
    <3>. QED BY <2>2, <3>1, <3>2, <3>3, <3>4 DEF Command
  <2>3. Millisecond => StrobesLeft' < StrobesLeft
    BY <2>1, <2>2 DEF Millisecond
  <2>4. ASSUME NEW ch \in Channel, NEW duty \in MixerDuty, MixerWrite(ch, duty)
        PROVE  StrobesLeft' <= StrobesLeft
    BY <2>4, LeftRange DEF MixerWrite, watchdog, StrobesLeft, TypeOK
  <2>5. CASE Reset
    BY <2>5 DEF Reset, ResetState
  <2>. QED BY <2>1, <2>2, <2>3, <2>4, <2>5 DEF Next
<1>. QED BY <1>1, <1>2, TypeCorrect, PTL DEF Spec, SilenceRunsOut

Gap(duty, target) == IF duty < target THEN target - duty ELSE duty - target

\* How far an output is from its target: first the strobes of neutral still to
\* come, then the duty still to go.
WindowLeft == IF armed_prev THEN arm_timer ELSE ArmDelay + 1
Weight(window, gap) == window * (DutyMax + 1) + gap
Lag(ch) == Weight(WindowLeft, Gap(motor_out_slewed[ch], motor_out[ch]))

\* Every strobe of an armed drive brings each output nearer to what the mixer
\* asked for, or finds it there; no other cycle takes one further away while
\* the drive stays armed and the mixer does not ask for something else.
OutputCloses ==
  [][\A ch \in Channel :
       /\ motors_armed /\ Millisecond => Lag(ch)' < Lag(ch) \/ Lag(ch)' = 0
       /\ motors_armed /\ motors_armed' /\ UNCHANGED motor_out
            => Lag(ch)' <= Lag(ch)]_vars

\* One slew step ends on the target or nearer to it.
LEMMA SlewedCloses ==
  ASSUME NEW c \in 0 .. DutyMax, NEW t \in 0 .. DutyMax
  PROVE  /\ Gap(c, t) \in 0 .. DutyMax
         /\ Slewed(c, t) \in 0 .. DutyMax
         /\ Slewed(c, t) = t \/ Gap(Slewed(c, t), t) < Gap(c, t)
BY SlewAssumption DEF Slewed, Gap

\* The window outweighs every gap.
LEMMA WeightFalls ==
  ASSUME NEW w \in Nat, NEW g \in 0 .. DutyMax, NEW h \in 0 .. DutyMax
  PROVE  /\ w > 0 => Weight(w - 1, h) < Weight(w, g) /\ Weight(w - 1, h) <= Weight(w, g)
         /\ h < g => Weight(0, h) < Weight(0, g) /\ Weight(0, h) <= Weight(0, g)
         /\ Weight(0, 0) = 0 /\ 0 <= Weight(w, g)
         /\ Weight(w, g) \in Nat
<1>1. DutyMax + 1 \in Nat
  BY SlewAssumption
<1>2. 0 * (DutyMax + 1) = 0 /\ w * (DutyMax + 1) \in Nat
  BY <1>1
<1>3. ASSUME w > 0
      PROVE  Weight(w - 1, h) < Weight(w, g) /\ Weight(w - 1, h) <= Weight(w, g)
  <2>. DEFINE v == w - 1
  <2>1. v \in Nat /\ w = v + 1
    BY <1>3
  <2>2. v * (DutyMax + 1) \in Nat
    BY <1>1, <2>1
  <2>3. (v + 1) * (DutyMax + 1) = v * (DutyMax + 1) + (DutyMax + 1)
    BY <1>1, <2>1
  <2>4. v * (DutyMax + 1) + h < v * (DutyMax + 1) + (DutyMax + 1) + g
    BY <2>2, SlewAssumption
  <2>. QED BY <2>1, <2>2, <2>3, <2>4, SlewAssumption DEF Weight
<1>. QED BY <1>2, <1>3, SlewAssumption DEF Weight

\* The slew process, at a strobe that samples an armed drive.
LEMMA StrobeCloses ==
  ASSUME TypeOK, NEW ch \in Channel, motors_armed, SlewTick(TRUE), UNCHANGED motor_out
  PROVE  Lag(ch)' <= Lag(ch) /\ (Lag(ch)' < Lag(ch) \/ Lag(ch)' = 0)
<1>. DEFINE c == motor_out_slewed[ch]
            t == motor_out[ch]
            d == motor_out_slewed'[ch]
<1>1. c \in 0 .. DutyMax /\ t \in 0 .. DutyMax /\ motor_out'[ch] = t
  BY DEF TypeOK
<1>2. d \in 0 .. DutyMax
  <2>1. motor_out_slewed' \in [Channel -> 0 .. DutyMax]
    BY SlewTypes
  <2>. QED BY <2>1
<1>3. armed_prev' /\ WindowLeft' = ArmTimerNext
  BY DEF SlewTick, WindowLeft
<1>4. WindowLeft \in Nat
  BY SlewAssumption DEF WindowLeft, TypeOK
<1>5. Lag(ch) = Weight(WindowLeft, Gap(c, t)) /\ Lag(ch)' = Weight(ArmTimerNext, Gap(d, t))
  BY <1>1, <1>3 DEF Lag
<1>6. Gap(c, t) \in 0 .. DutyMax /\ Gap(d, t) \in 0 .. DutyMax
  BY <1>1, <1>2, SlewedCloses
<1>7. CASE WindowLeft > 0
  <2>1. ArmTimerNext = WindowLeft - 1
    BY <1>7, SlewAssumption DEF ArmTimerNext, WindowLeft, TypeOK
  <2>. QED BY <1>4, <1>5, <1>6, <1>7, <2>1, WeightFalls
<1>8. CASE WindowLeft = 0
  <2>1. ArmTimerNext = 0
    BY <1>8, SlewAssumption DEF ArmTimerNext, WindowLeft, TypeOK
  <2>2. d = Slewed(c, t)
    BY <2>1 DEF SlewTick
  <2>3. CASE d = t
    <3>1. Gap(t, t) = 0
      BY <1>1, SlewAssumption DEF Gap
    <3>2. Weight(0, 0) = 0 /\ 0 <= Weight(WindowLeft, Gap(c, t))
      BY <1>4, <1>6, WeightFalls
    <3>. QED BY <1>5, <2>1, <2>3, <3>1, <3>2
  <2>4. CASE Gap(d, t) < Gap(c, t)
    BY <1>5, <1>6, <1>8, <2>1, <2>4, WeightFalls
  <2>. QED BY <1>1, <2>2, <2>3, <2>4, SlewedCloses
<1>. QED BY <1>4, <1>7, <1>8

\* The lag is a natural number, so that an armed drive has its outputs where
\* the mixer wants them after finitely many strobes.
THEOREM OutputSettles ==
  Spec => OutputCloses /\ [](\A ch \in Channel : Lag(ch) \in Nat)
<1>1. ASSUME TypeOK, NEW ch \in Channel
      PROVE  Lag(ch) \in Nat
  <2>1. Gap(motor_out_slewed[ch], motor_out[ch]) \in 0 .. DutyMax
    BY <1>1, SlewedCloses DEF TypeOK
  <2>2. WindowLeft \in Nat
    BY <1>1, SlewAssumption DEF WindowLeft, TypeOK
  <2>. QED BY <2>1, <2>2, WeightFalls DEF Lag
<1>2. ASSUME TypeOK, Next, NEW ch \in Channel
      PROVE  /\ motors_armed /\ Millisecond => Lag(ch)' < Lag(ch) \/ Lag(ch)' = 0
             /\ motors_armed /\ motors_armed' /\ UNCHANGED motor_out
                  => Lag(ch)' <= Lag(ch)
  <2>1. Millisecond => SlewTick(TRUE) /\ UNCHANGED motor_out
    BY DEF Millisecond, Command, Tick, Heartbeat, Arm, Disarm, SetTimeout, Cycle
  <2>2. motors_armed /\ Millisecond => Lag(ch)' < Lag(ch) \/ Lag(ch)' = 0
    BY <1>2, <2>1, StrobeCloses
  <2>3. ASSUME motors_armed, motors_armed', UNCHANGED motor_out
        PROVE  Lag(ch)' <= Lag(ch)
    <3>1. CASE UNCHANGED slew
      <4>1. Lag(ch)' = Lag(ch) /\ Lag(ch) <= Lag(ch)
        BY <1>1, <1>2, <2>3, <3>1 DEF Lag, WindowLeft, slew
      <4>. QED BY <4>1
    <3>2. CASE Millisecond
      BY <1>2, <2>1, <2>3, <3>2, StrobeCloses
    <3>3. UNCHANGED slew \/ Millisecond
      <4>1. Command(FALSE) => UNCHANGED slew
        BY DEF Command, Heartbeat, Arm, Disarm, SetTimeout, Cycle, SlewTick
      <4>2. Reset => FALSE
        BY <2>3 DEF Reset, ResetState
      <4>. QED BY <1>2, <4>1, <4>2 DEF Next, Millisecond, MixerWrite
    <3>. QED BY <3>1, <3>2, <3>3
  <2>. QED BY <2>2, <2>3
<1>3. TypeOK /\ [Next]_vars
        => [\A ch \in Channel :
              /\ motors_armed /\ Millisecond => Lag(ch)' < Lag(ch) \/ Lag(ch)' = 0
              /\ motors_armed /\ motors_armed' /\ UNCHANGED motor_out
                   => Lag(ch)' <= Lag(ch)]_vars
  BY <1>2
<1>4. TypeOK => \A ch \in Channel : Lag(ch) \in Nat
  BY <1>1
<1>. QED BY <1>3, <1>4, TypeCorrect, PTL DEF Spec, OutputCloses
============================================================================
