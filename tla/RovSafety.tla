----------------------------- MODULE RovSafety -----------------------------
(***************************************************************************)
(* The safety core of neorv32_rov_motors.vhd: the heartbeat watchdog and   *)
(* arming register of the status process, and the post-arm neutral window  *)
(* and slew limiter that drive the eight motor duties.                     *)
(*                                                                         *)
(* A step is one 100 MHz clock cycle in which something happens: the 1 kHz *)
(* strobe hb_ms_tick, a command, both, a mixer result, or a reset.  Cycles *)
(* in which nothing happens are stuttering steps.  Both processes read the *)
(* registered values of the previous cycle, and inside the status process  *)
(* the command is assigned after the tick, so the command's value wins.    *)
(* The parameter tick of an action says whether the strobe is high.        *)
(***************************************************************************)
EXTENDS Integers

CONSTANTS
  Channel,         \* the motor channels
  CntMod,          \* heartbeat_cnt counts modulo CntMod (2^8)
  DefaultTimeout,  \* ms, after reset and when 0 is written
  TimeoutValue,    \* the values command 0xC may carry
  ArmDelay,        \* ms of forced neutral after arming
  DutyMax,         \* largest duty word
  Neutral,         \* duty word of the neutral pulse
  SlewStep,        \* largest change of a duty per ms
  MixerDuty,       \* the duty words the mixer may produce
  TickCap          \* bound of the history variable upTicks

ASSUME WatchdogAssumption ==
  /\ CntMod \in Nat /\ CntMod > 1
  /\ DefaultTimeout \in 1 .. CntMod - 1
  /\ TimeoutValue \subseteq 0 .. CntMod - 1

ASSUME SlewAssumption ==
  /\ ArmDelay \in Nat \ {0} /\ SlewStep \in Nat \ {0} /\ TickCap \in Nat
  /\ DutyMax \in Nat /\ Neutral \in 0 .. DutyMax
  /\ MixerDuty \subseteq 0 .. DutyMax
  /\ TickCap > ArmDelay

\* The bound of upTicks lies beyond the longest ramp.
ASSUME RampAssumption == SlewStep * (TickCap - ArmDelay) >= DutyMax

VARIABLES
  motors_armed, heartbeat_alive,
  heartbeat_cnt,     \* ms counter of the watchdog, 8 bits in the code
  hb_toggle_last,    \* toggle bit of the last accepted heartbeat
  hb_timeout,
  motor_out,         \* mixer result per channel
  arm_timer, armed_prev,
  motor_out_slewed,  \* duty per channel, the component's output
  quiet,             \* history: ms since the last accepted heartbeat
  upTicks,           \* history: consecutive ms that sampled motors_armed
  sinceArm           \* history: ms since motors_armed last rose

watchdog == <<motors_armed, heartbeat_alive, heartbeat_cnt, hb_toggle_last, hb_timeout>>
slew     == <<arm_timer, armed_prev, motor_out_slewed>>
history  == <<quiet, upTicks, sinceArm>>
vars     == <<watchdog, motor_out, slew, history>>

\* pwm_arm_o, the signal that gates the PWM pins.
PwmArm == motors_armed /\ heartbeat_alive

Saturate(n, cap) == IF n < cap THEN n ELSE cap

----------------------------------------------------------------------------
(* The 1 ms strobe. *)

\* Mutant: a strict comparison, which a timeout of 255 would never meet.
Trips_Strict(tick) == tick /\ heartbeat_cnt > hb_timeout

Trips(tick) == tick /\ heartbeat_cnt >= hb_timeout

\* What the tick alone leaves in motors_armed.
ArmedAfter(tick) == motors_armed /\ ~Trips(tick)

WatchdogTick(tick) ==
  /\ heartbeat_cnt' = IF tick THEN (heartbeat_cnt + 1) % CntMod ELSE heartbeat_cnt
  /\ heartbeat_alive' = (heartbeat_alive /\ ~Trips(tick))
  /\ quiet' = IF tick THEN Saturate(quiet + 1, CntMod) ELSE quiet

\* Mutant: always a whole step, without the last partial one.
Slewed_WholeSteps(current, target) ==
  CASE target > current -> current + SlewStep
    [] target < current -> current - SlewStep
    [] OTHER -> target

Slewed(current, target) ==
  CASE target > current + SlewStep -> current + SlewStep
    [] target < current - SlewStep -> current - SlewStep
    [] OTHER -> target

\* Mutant: the countdown starts in the millisecond that loads it.
ArmTimerNext_Early ==
  IF ~motors_armed THEN 0
  ELSE IF ~armed_prev THEN ArmDelay - 1
  ELSE IF arm_timer > 0 THEN arm_timer - 1 ELSE 0

ArmTimerNext ==
  IF ~motors_armed THEN 0
  ELSE IF ~armed_prev THEN ArmDelay
  ELSE IF arm_timer > 0 THEN arm_timer - 1 ELSE 0

SlewTick(tick) ==
  \/ ~tick /\ UNCHANGED <<slew, upTicks>>
  \/ /\ tick
     /\ arm_timer' = ArmTimerNext
     /\ armed_prev' = motors_armed
     /\ motor_out_slewed' = [ch \in Channel |->
          IF ~motors_armed \/ ArmTimerNext > 0 THEN Neutral
          ELSE Slewed(motor_out_slewed[ch], motor_out[ch])]
     /\ upTicks' = IF motors_armed THEN Saturate(upTicks + 1, TickCap) ELSE 0

\* Both processes in a cycle whose command leaves armed in motors_armed.
Cycle(tick, armed) ==
  /\ motors_armed' = armed
  /\ sinceArm' = IF armed /\ ~motors_armed THEN 0
                 ELSE IF tick THEN Saturate(sinceArm + 1, TickCap) ELSE sinceArm
  /\ SlewTick(tick)
  /\ UNCHANGED motor_out

----------------------------------------------------------------------------
(* The commands. *)

Tick == \* a strobe with no command, or with one that leaves this state alone
  /\ Cycle(TRUE, ArmedAfter(TRUE))
  /\ WatchdogTick(TRUE)
  /\ UNCHANGED <<hb_toggle_last, hb_timeout>>

Heartbeat(tick, bit) == \* 0x1: accepted only if the toggle bit changed
  /\ bit # hb_toggle_last
  /\ heartbeat_cnt' = 0
  /\ heartbeat_alive' = TRUE
  /\ hb_toggle_last' = bit
  /\ quiet' = 0
  /\ Cycle(tick, ArmedAfter(tick))
  /\ UNCHANGED hb_timeout

\* Mutant: arming without the test of heartbeat_alive.
Arm_Unchecked(tick) ==
  /\ Cycle(tick, TRUE)
  /\ WatchdogTick(tick)
  /\ UNCHANGED <<hb_toggle_last, hb_timeout>>

Arm(tick) == \* 0x2: reads the registered heartbeat_alive
  /\ Cycle(tick, heartbeat_alive \/ ArmedAfter(tick))
  /\ WatchdogTick(tick)
  /\ UNCHANGED <<hb_toggle_last, hb_timeout>>

Disarm(tick) == \* 0x3
  /\ Cycle(tick, FALSE)
  /\ WatchdogTick(tick)
  /\ UNCHANGED <<hb_toggle_last, hb_timeout>>

\* Mutant: a timeout of 0 is stored as it is.
SetTimeout_Raw(tick, ms) ==
  /\ hb_timeout' = ms
  /\ Cycle(tick, ArmedAfter(tick))
  /\ WatchdogTick(tick)
  /\ UNCHANGED hb_toggle_last

SetTimeout(tick, ms) == \* 0xC: compared from the next strobe on
  /\ hb_timeout' = IF ms = 0 THEN DefaultTimeout ELSE ms
  /\ Cycle(tick, ArmedAfter(tick))
  /\ WatchdogTick(tick)
  /\ UNCHANGED hb_toggle_last

MixerWrite(ch, duty) == \* the mixer reaches DONE for channel ch
  /\ motor_out' = [motor_out EXCEPT ![ch] = duty]
  /\ UNCHANGED <<watchdog, slew, history>>

\* rstn_i low: everything but hb_toggle_last returns to its reset value.
ResetState ==
  /\ motors_armed' = FALSE /\ heartbeat_alive' = FALSE /\ heartbeat_cnt' = 0
  /\ hb_timeout' = DefaultTimeout
  /\ motor_out' = [ch \in Channel |-> Neutral]
  /\ arm_timer' = 0 /\ armed_prev' = FALSE
  /\ motor_out_slewed' = [ch \in Channel |-> Neutral]
  /\ quiet' = CntMod /\ upTicks' = 0 /\ sinceArm' = TickCap

Reset == ResetState /\ UNCHANGED hb_toggle_last

----------------------------------------------------------------------------
Init ==
  /\ motors_armed = FALSE /\ heartbeat_alive = FALSE /\ heartbeat_cnt = 0
  /\ hb_toggle_last = 0 /\ hb_timeout = DefaultTimeout
  /\ motor_out = [ch \in Channel |-> Neutral]
  /\ arm_timer = 0 /\ armed_prev = FALSE
  /\ motor_out_slewed = [ch \in Channel |-> Neutral]
  /\ quiet = CntMod /\ upTicks = 0 /\ sinceArm = TickCap

Command(tick) ==
  \/ \E bit \in {0, 1} : Heartbeat(tick, bit)
  \/ Arm(tick)
  \/ Disarm(tick)
  \/ \E ms \in TimeoutValue : SetTimeout(tick, ms)

Next ==
  \/ Tick
  \/ \E tick \in BOOLEAN : Command(tick)
  \/ \E ch \in Channel, duty \in MixerDuty : MixerWrite(ch, duty)
  \/ Reset

Spec == Init /\ [][Next]_vars

\* The strobe divider is free-running: a millisecond always ends, whether
\* or not a command falls into its last cycle.
Millisecond == Tick \/ Command(TRUE)

FairSpec == Spec /\ WF_vars(Millisecond)

----------------------------------------------------------------------------
(* Properties. *)

\* Every register stays in the range its declaration gives it.
TypeOK ==
  /\ motors_armed \in BOOLEAN /\ heartbeat_alive \in BOOLEAN /\ armed_prev \in BOOLEAN
  /\ heartbeat_cnt \in 0 .. CntMod - 1
  /\ hb_toggle_last \in {0, 1}
  /\ hb_timeout \in 1 .. CntMod - 1
  /\ motor_out \in [Channel -> 0 .. DutyMax]
  /\ arm_timer \in 0 .. ArmDelay
  /\ motor_out_slewed \in [Channel -> 0 .. DutyMax]
  /\ quiet \in 0 .. CntMod /\ upTicks \in 0 .. TickCap /\ sinceArm \in 0 .. TickCap

\* While the watchdog believes the link alive, its counter is exactly the
\* number of milliseconds since the last accepted heartbeat: it never wraps,
\* whatever timeouts are written in between.
CounterTellsSilence == heartbeat_alive => quiet = heartbeat_cnt

\* The watchdog acts neither late nor early: a millisecond without a heartbeat
\* leaves the PWM gate open only if the silence before it was shorter than the
\* timeout in force; and but for a reset only a silence that long takes the
\* link down, and only that or a disarm command shuts an open gate.
DeadlineHonoured ==
  [][/\ quiet' > quiet => (PwmArm' => quiet < hb_timeout)
     /\ heartbeat_alive /\ ~heartbeat_alive' => Reset \/ quiet >= hb_timeout
     /\ PwmArm /\ ~PwmArm' =>
          Reset \/ quiet >= hb_timeout \/ \E tick \in BOOLEAN : Disarm(tick)]_vars

\* The countdown that forces neutral and the armed samples seen so far always
\* add up: the timer is live exactly during the first ArmDelay armed samples.
TimerCountsTicks ==
  /\ armed_prev <=> upTicks > 0
  /\ arm_timer = IF upTicks \in 1 .. ArmDelay THEN ArmDelay + 1 - upTicks ELSE 0

Distance(duty) == IF duty > Neutral THEN duty - Neutral ELSE Neutral - duty

\* Soft start: a duty is neutral until the drive has been armed for more than
\* ArmDelay sampled milliseconds, and from then on is at most one slew step
\* per millisecond away from neutral.
RampBound ==
  \A ch \in Channel :
    Distance(motor_out_slewed[ch]) <=
      IF upTicks > ArmDelay THEN SlewStep * (upTicks - ArmDelay) ELSE 0

\* If heartbeats stop, the drive is disarmed for good.
SilenceDisarms ==
  \/ []<><<\E tick \in BOOLEAN, bit \in {0, 1} : Heartbeat(tick, bit)>>_vars
  \/ <>[]~motors_armed

\* A drive that stays armed reaches the duty the mixer settles on.
OutputConverges ==
  \A ch \in Channel, duty \in MixerDuty :
    <>[](motors_armed /\ motor_out[ch] = duty) => <>[](motor_out_slewed[ch] = duty)

----------------------------------------------------------------------------
(* What the documents say and the code does not do: TLC refutes these.     *)

\* What cfs_test (T10) and tb_rov.vhd state: the failsafe disarms the motors.
\* An arm command in the cycle of the trip survives it.
FailsafeDisarms ==
  [][heartbeat_alive /\ ~heartbeat_alive' => ~motors_armed']_vars

\* What the comment above the slew process states: neutral is forced for
\* ArmDelay ms after arming.  A disarm and an arm between two strobes skip it.
NeutralAfterArm ==
  motors_armed /\ sinceArm \in 1 .. ArmDelay =>
    \A ch \in Channel : motor_out_slewed[ch] = Neutral
============================================================================
