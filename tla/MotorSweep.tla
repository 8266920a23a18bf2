----------------------------- MODULE MotorSweep -----------------------------
(***************************************************************************)
(* The motor test of rov_main (console command w): a triangular sweep of   *)
(* the surge setpoint with all eight surge coefficients at full scale,     *)
(* stepped by motor_test_tick from the main loop, with the commands that   *)
(* can interfere (w, re-init, a manual setpoint) and the arithmetic that   *)
(* turns a setpoint into a pulse width.                                    *)
(*                                                                         *)
(* Time is counted in units of 5 ms; lag is now - g_mt_next.  PassTime are *)
(* the times one pass of the main loop may take: next to none, a fraction  *)
(* of a step, or as long as what a command or a print blocks it for.       *)
(***************************************************************************)
EXTENDS Integers

CONSTANTS
  LastStep,      \* steps of a ramp (25)
  SlowSteps,     \* steps in the ESC's dead band (10)
  SlowDelta, FastDelta,   \* setpoint change of a step (280, 845)
  SlowTime, FastTime,     \* duration of a step (40 ms, 25 ms)
  PauseTime,     \* pause in neutral before each cycle (1 s)
  PassTime,      \* durations of one pass of the main loop
  MaxLag,        \* bound of the backlog that blocked passes pile up
  Manual         \* surge setpoints other commands may write

Half == 32768
Int16 == -Half .. Half - 1

ASSUME SweepAssumption ==
  /\ SlowSteps \in Nat \ {0} /\ LastStep \in Nat /\ SlowSteps < LastStep
  /\ {SlowDelta, FastDelta, SlowTime, FastTime, PauseTime} \subseteq Nat \ {0}
  /\ PassTime \subseteq Nat /\ MaxLag \in Nat
  /\ \A d \in PassTime : PauseTime + d <= MaxLag
  /\ SlowSteps * SlowDelta + (LastStep - SlowSteps) * FastDelta < Half
  /\ Manual \subseteq Int16

VARIABLES
  g_motor_test, g_mt_dir, g_mt_step, g_mt_pause, g_mt_sp,
  lag,           \* now - g_mt_next
  control_sp,    \* surge setpoint in the CFS
  full           \* all surge coefficients are 0x7FFF

sweep == <<g_mt_dir, g_mt_step, g_mt_pause, g_mt_sp>>
sweepVars == <<g_motor_test, sweep, lag, control_sp, full>>

----------------------------------------------------------------------------
(* From a setpoint to a pulse, for a surge coefficient and all other axes  *)
(* at rest: s1.14 product, saturation, offset binary duty, microseconds.   *)

Wrap16(n) == ((n + Half) % (2 * Half)) - Half

Clamp16(n) == IF n > Half - 1 THEN Half - 1 ELSE IF n < -Half THEN -Half ELSE n

MixerDuty(coeff, sp) == (Half + Clamp16(Wrap16((coeff * sp) \div 16384))) % (2 * Half)

PulseUs(duty) == 1100 + (duty * 800) \div 65536

SweepPulse == PulseUs(MixerDuty(32767, control_sp))

----------------------------------------------------------------------------
(* cmd_motor_test. *)

StartSweep == \* w 1
  /\ ~g_motor_test
  /\ g_motor_test' = TRUE
  /\ g_mt_dir' = 0 /\ g_mt_step' = 0 /\ g_mt_pause' = FALSE /\ g_mt_sp' = 0
  /\ lag' = 0 /\ full' = TRUE
  /\ UNCHANGED control_sp

StopSweep == \* w 0
  /\ g_motor_test
  /\ g_motor_test' = FALSE
  /\ control_sp' = 0 /\ full' = FALSE
  /\ UNCHANGED <<sweep, lag>>

Reinit == \* r: setpoints to 0, the OCTO mixer is restored, the test goes on
  /\ control_sp' = 0 /\ full' = FALSE
  /\ UNCHANGED <<g_motor_test, sweep, lag>>

ManualSetpoint == \* t 0, MANUAL_CONTROL, RC_CHANNELS_OVERRIDE
  /\ control_sp' \in Manual
  /\ UNCHANGED <<g_motor_test, sweep, lag, full>>

----------------------------------------------------------------------------
(* motor_test_tick. *)

StepTime == IF g_mt_step < SlowSteps THEN SlowTime ELSE FastTime
Delta    == IF g_mt_step < SlowSteps THEN SlowDelta ELSE FastDelta

Pass(d) == \* a pass that finds nothing to do, d units after the last one
  /\ g_motor_test
  /\ lag + d < IF g_mt_pause THEN PauseTime ELSE StepTime
  /\ lag' = lag + d
  /\ UNCHANGED <<g_motor_test, sweep, control_sp, full>>

\* Mutant: the pause restarts instead of ending.
PauseOver_Restarts(d) ==
  /\ g_motor_test /\ g_mt_pause /\ lag + d >= PauseTime
  /\ lag' = 0
  /\ UNCHANGED <<g_motor_test, sweep, control_sp, full>>

PauseOver(d) ==
  /\ g_motor_test /\ g_mt_pause /\ lag + d >= PauseTime
  /\ g_mt_pause' = FALSE
  /\ lag' = 0
  /\ UNCHANGED <<g_motor_test, g_mt_dir, g_mt_step, g_mt_sp, control_sp, full>>

StepDue(d) == g_motor_test /\ ~g_mt_pause /\ lag + d >= StepTime

\* Mutant: the next step is scheduled a slow step later, whatever the step.
StepUp_SlowOnly(d) ==
  /\ StepDue(d) /\ g_mt_dir = 0
  /\ lag' = lag + d - SlowTime
  /\ g_mt_sp' = Wrap16(g_mt_sp + Delta)
  /\ g_mt_step' = g_mt_step + 1
  /\ g_mt_dir' = IF g_mt_step' >= LastStep THEN 1 ELSE 0
  /\ control_sp' = g_mt_sp'
  /\ UNCHANGED <<g_motor_test, g_mt_pause, full>>

StepUp(d) ==
  /\ StepDue(d) /\ g_mt_dir = 0
  /\ lag' = lag + d - StepTime
  /\ g_mt_sp' = Wrap16(g_mt_sp + Delta)
  /\ g_mt_step' = g_mt_step + 1
  /\ g_mt_dir' = IF g_mt_step' >= LastStep THEN 1 ELSE 0
  /\ control_sp' = g_mt_sp'
  /\ UNCHANGED <<g_motor_test, g_mt_pause, full>>

\* Mutant: the accumulator is not cleared at the end of a cycle.
StepDown_Drifts(d) ==
  /\ StepDue(d) /\ g_mt_dir = 1
  /\ g_mt_step' = g_mt_step - 1
  /\ g_mt_sp' = Wrap16(g_mt_sp - Delta)
  /\ \/ /\ g_mt_step > 1 /\ lag' = lag + d - StepTime
        /\ UNCHANGED <<g_mt_dir, g_mt_pause>>
     \/ /\ g_mt_step <= 1 /\ lag' = 0
        /\ g_mt_dir' = 0 /\ g_mt_pause' = TRUE
  /\ control_sp' = g_mt_sp'
  /\ UNCHANGED <<g_motor_test, full>>

StepDown(d) ==
  /\ StepDue(d) /\ g_mt_dir = 1
  /\ g_mt_step' = g_mt_step - 1
  /\ \/ /\ g_mt_step > 1
        /\ lag' = lag + d - StepTime
        /\ g_mt_sp' = Wrap16(g_mt_sp - Delta)
        /\ UNCHANGED <<g_mt_dir, g_mt_pause>>
     \/ /\ g_mt_step <= 1
        /\ lag' = 0 /\ g_mt_sp' = 0
        /\ g_mt_dir' = 0 /\ g_mt_pause' = TRUE
  /\ control_sp' = g_mt_sp'
  /\ UNCHANGED <<g_motor_test, full>>

----------------------------------------------------------------------------
SweepInit ==
  /\ g_motor_test = FALSE /\ g_mt_dir = 0 /\ g_mt_step = 0 /\ g_mt_pause = FALSE
  /\ g_mt_sp = 0 /\ lag = 0 /\ control_sp = 0 /\ full = FALSE

\* A pass of the main loop, within the bound MaxLag on the backlog.
Loop == \E d \in PassTime :
  /\ lag + d <= MaxLag
  /\ Pass(d) \/ PauseOver(d) \/ StepUp(d) \/ StepDown(d)

SweepNext == StartSweep \/ StopSweep \/ Reinit \/ ManualSetpoint \/ Loop

SweepSpec == SweepInit /\ [][SweepNext]_sweepVars

\* The main loop keeps running, and time passes in it.
FairSweepSpec == SweepSpec /\ WF_sweepVars(Loop)

----------------------------------------------------------------------------
(* Properties. *)

\* The sweep's variables keep their ranges; the unsigned difference
\* now - g_mt_next never wraps below zero.
SweepTypeOK ==
  /\ g_motor_test \in BOOLEAN /\ g_mt_pause \in BOOLEAN /\ full \in BOOLEAN
  /\ g_mt_dir \in {0, 1} /\ g_mt_step \in 0 .. LastStep
  /\ g_mt_sp \in Int16 /\ control_sp \in Int16
  /\ lag \in 0 .. MaxLag

Ramp(steps) == \* setpoint after the given number of upward steps
  IF steps <= SlowSteps THEN steps * SlowDelta
  ELSE SlowSteps * SlowDelta + (steps - SlowSteps) * FastDelta

\* Stops, restarts, blocked passes and foreign setpoints leave no trace in the
\* accumulator: in every cycle it is the same function of step and direction.
\* (Going down, the steps below SlowSteps lie lower than going up: one more of
\* the steps taken before them was a fast one.)
NoDrift ==
  g_mt_sp = Ramp(g_mt_step) -
    IF g_mt_dir = 1 /\ g_mt_step < SlowSteps THEN FastDelta - SlowDelta ELSE 0

\* A test that is not stopped goes on for ever between the top of the ramp and
\* its pause in neutral, whatever blocks the loop or writes setpoints.
SweepRecurs ==
  <>[]g_motor_test => []<>(g_mt_step = LastStep) /\ []<>(g_mt_pause /\ g_mt_sp = 0)

----------------------------------------------------------------------------
(* What the documents say and the code does not do: TLC refutes these.     *)

\* The console and the session notes describe the sweep as forward only.  On
\* the way down it passes below zero.
ForwardOnly == g_motor_test => g_mt_sp >= 0

\* They also give its range: 1500 to 1860 us.  The top is 1877 us.
PulseInRange == g_motor_test /\ full /\ control_sp = g_mt_sp => SweepPulse <= 1860
=============================================================================
