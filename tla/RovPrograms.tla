---------------------------- MODULE RovPrograms ----------------------------
(***************************************************************************)
(* The four programs of the repository that drive the thrusters, each      *)
(* started by a reset of the board: rov_main (RovFirmware), its C++        *)
(* variant app, the bench program pwm_sweep and the self-test cfs_test.    *)
(* A reset may find the board in the middle of any of them, since a new    *)
(* program is uploaded through the bootloader that the reset enters.       *)
(*                                                                         *)
(* Every program counts its heartbeat bit from 0, none of them knows the   *)
(* bit the core saw last; whether they agree is kept in cold.              *)
(* Commands to the other blocks of the core are time spent here.           *)
(***************************************************************************)
EXTENDS RovFirmware, Sequences

CONSTANTS
  ShortHold, LongHold,  \* hold_with_heartbeat in pwm_sweep, 25 and 500 ms
  Steps,                \* steps of one of its ramps
  TestTimeout           \* the timeout of cfs_test's T10, 20 ms

ASSUME ProgramAssumption ==
  /\ {ShortHold, LongHold, Steps} \subseteq Nat
  /\ TestTimeout \in 1 .. CntMod - 1

\* Each hold has time for a call, and a heartbeat period leaves the watchdog
\* room for what the calls and the text between them cost: 50 ms against 200.
ASSUME SweepAssumption ==
  ShortHold > 0 /\ LongHold > 0 /\ 3 * HbPeriod + 2 < DriverTimeout

\* The self-test's checks of the link fit its timeouts, and the wait of T10 is
\* longer than the timeout it tests.
ASSUME TestAssumption == DefaultTimeout >= 7 /\ DriverTimeout >= 8 /\ TestTimeout < 40

VARIABLES
  prog,      \* the program that runs
  cold,      \* history: it found hb_toggle_last = 0
  step,      \* position in a ramp of pwm_sweep or in cfs_test's script
  ticks,     \* pwm_sweep's static ms counter, modulo HbPeriod
  failures   \* cfs_test's failed checks

own     == <<prog, cold, step, ticks, failures>>
allVars == <<vars, own>>

Program == {"rov_main", "app", "pwm_sweep", "cfs_test"}

----------------------------------------------------------------------------
(* app: the loop, the heartbeat service and the commands of rov_main,      *)
(* without MAVLink, sensors, holds and motor test.                         *)

app_service_heartbeat(tick) == service_heartbeat(tick)

\* The banner, rov_init and the mixer's coefficients.
app_boot(tick) == InitTimeout(tick) \/ InitBeat(tick) \/ InitArm(tick)

app_cmd_arm(tick) ==
  \/ ConsoleArm \/ ArmBeat(tick) \/ ArmNow(tick)
  \/ ConsoleDisarm(tick) /\ pc' = "report"

\* Disarm, 100 ms, then rov_init as at boot.
app_cmd_reinit(tick) == ConsoleDisarm(tick) /\ pc' = "init"

app_cmd_status == Report

\* Commands that print or write registers of the other blocks.
app_prints == Other

\* A dump of the telemetry, in any pass.
app_telemetry == Other

app_process_command(tick) ==
  app_cmd_arm(tick) \/ app_cmd_reinit(tick) \/ app_cmd_status \/ app_prints

app_loop(tick) ==
  Wait \/ Slip \/ app_process_command(tick) \/ app_service_heartbeat(tick) \/ app_telemetry

App ==
  /\ prog = "app"
  /\ \E tick \in BOOLEAN : app_boot(tick) \/ app_loop(tick)
  /\ UNCHANGED own

----------------------------------------------------------------------------
(* pwm_sweep: timeout, heartbeat and arm once, then ramps for ever.        *)

pwm_boot(tick) ==
  \/ InitTimeout(tick) \/ InitBeat(tick)
  \/ /\ pc = "init_arm" /\ Running
     /\ Safety!Arm(tick)
     /\ Burst(tick) /\ pc' = "sweep" /\ busy' \in 0 .. 1
     /\ UNCHANGED <<count, hb_bit, delay, poll>>

\* One turn of either ramp: setpoint, a line of text, and the hold, which is
\* long at the lowest point.
pwm_turn ==
  /\ pc = "sweep" /\ Running
  /\ step' = (step + 1) % (2 * Steps + 2)
  /\ busy' \in 0 .. 1
  /\ delay' = IF step \in {0, 2 * Steps + 1} THEN LongHold ELSE ShortHold
  /\ UNCHANGED <<safety, hb_bit, program, since_hb, spare, poll, prog, cold, ticks, failures>>

\* Mutant: the counter starts afresh with every hold.
hold_with_heartbeat_Restarts(tick) ==
  /\ poll /\ busy = 0 /\ poll' = FALSE
  /\ ticks' = IF delay = 0 THEN 0 ELSE (ticks + 1) % HbPeriod
  /\ IF ticks' = 0 /\ delay > 0 THEN rov_heartbeat(tick) ELSE NoEffect(tick) /\ UNCHANGED hb_bit
  /\ Burst(tick)
  /\ UNCHANGED <<program, busy, delay, prog, cold, step, failures>>

\* The counter runs on from one hold to the next.
hold_with_heartbeat(tick) ==
  /\ poll /\ busy = 0 /\ poll' = FALSE
  /\ ticks' = (ticks + 1) % HbPeriod
  /\ IF ticks' = 0 THEN rov_heartbeat(tick) ELSE NoEffect(tick) /\ UNCHANGED hb_bit
  /\ Burst(tick)
  /\ UNCHANGED <<program, busy, delay, prog, cold, step, failures>>

PwmSweep ==
  /\ prog = "pwm_sweep"
  /\ \/ (Wait \/ Slip \/ \E tick \in BOOLEAN : pwm_boot(tick)) /\ UNCHANGED own
     \/ pwm_turn
     \/ \E tick \in BOOLEAN : hold_with_heartbeat(tick)

----------------------------------------------------------------------------
(* cfs_test: a command, a bare delay, a look at the status, some text.     *)

Entry(do, wait, sees, print) ==
  [do |-> do, wait |-> wait, sees |-> sees, print |-> print]

Script == <<
  Entry("none",         0, "idle",  3),   \* T1
  Entry("heartbeat",    1, "alive", 2),   \* T2
  Entry("arm",          1, "armed", 2),   \* T3
  Entry("none",         0, "any",   5),   \* T4 encoders
  Entry("none",         1, "any",   2),   \* T5 calibration
  Entry("none",         4, "any",   2),   \* T6 setpoint
  Entry("none",         6, "any",   2),   \* T7 PID
  Entry("none",         1, "any",   2),   \* T8 IMU
  Entry("none",         3, "any",   3),   \* T9 depth
  Entry("test_timeout", 40, "idle", 2),   \* T10
  Entry("timeout",      0, "any",   0),   \* T11
  Entry("heartbeat",    0, "any",   0),
  Entry("arm",          1, "armed", 4) >>

\* A command of the script; the others leave the safety core alone.
Do(command, tick) ==
  \/ command = "heartbeat" /\ rov_heartbeat(tick)
  \/ command = "arm" /\ Safety!Arm(tick) /\ UNCHANGED hb_bit
  \/ command = "timeout" /\ Safety!SetTimeout(tick, DriverTimeout) /\ UNCHANGED hb_bit
  \/ command = "test_timeout" /\ Safety!SetTimeout(tick, TestTimeout) /\ UNCHANGED hb_bit
  \/ command = "none" /\ NoEffect(tick) /\ UNCHANGED hb_bit

\* The status bits a check asks for.
Sees(expected) ==
  \/ expected = "any"
  \/ expected = "idle" /\ ~motors_armed /\ ~heartbeat_alive
  \/ expected = "alive" /\ heartbeat_alive
  \/ expected = "armed" /\ motors_armed /\ heartbeat_alive

cfs_command(tick) ==
  /\ pc \in {"init", "act"} /\ Running
  /\ Do(Script[step + 1].do, tick)
  /\ Burst(tick)
  /\ pc' = "look" /\ busy' = Script[step + 1].wait
  /\ UNCHANGED <<count, delay, poll, own>>

report ==
  /\ pc = "look" /\ Running
  /\ failures' = IF Sees(Script[step + 1].sees) THEN failures ELSE failures + 1
  /\ step' = step + 1 /\ pc' = IF step' = Len(Script) THEN "leds" ELSE "act"
  /\ busy' \in 0 .. Script[step + 1].print
  /\ UNCHANGED <<safety, hb_bit, count, since_hb, delay, poll, spare, prog, cold, ticks>>

\* The final loop: a heartbeat, 50 ms, the switches, every 40th time a line.
leds(tick) ==
  /\ pc = "leds" /\ Running
  /\ rov_heartbeat(tick)
  /\ Burst(tick)
  /\ busy' \in HbPeriod .. HbPeriod + 1
  /\ UNCHANGED <<program, delay, poll, own>>

CfsTest ==
  /\ prog = "cfs_test"
  /\ \/ (Wait \/ Slip) /\ UNCHANGED own
     \/ \E tick \in BOOLEAN : cfs_command(tick) \/ leds(tick)
     \/ report

----------------------------------------------------------------------------
RovMain ==
  /\ prog = "rov_main"
  /\ \/ Wait \/ Slip
     \/ \E tick \in BOOLEAN : Instruction(tick)
     \/ ConsoleArm \/ Report \/ Other
  /\ UNCHANGED own

\* The reset enters the bootloader, which starts any of the programs.
Start ==
  /\ Reset
  /\ prog' \in Program
  /\ cold' = (hb_toggle_last = 0)
  /\ step' = 0 /\ ticks' = 0 /\ failures' = 0

ProgramsInit ==
  /\ Init
  /\ prog \in Program
  /\ cold = TRUE
  /\ step = 0 /\ ticks = 0 /\ failures = 0

ProgramsNext == RovMain \/ App \/ PwmSweep \/ CfsTest \/ Start

ProgramsSpec == ProgramsInit /\ [][ProgramsNext]_allVars

----------------------------------------------------------------------------
(* Properties. *)

\* Every program keeps its counters and points of control in range, the two
\* main loops those of RovFirmware.
Ranges ==
  /\ prog \in {"rov_main", "app"} => TypeOK
  /\ prog = "pwm_sweep" =>
       /\ pc \in {"init", "init_beat", "init_arm", "sweep"}
       /\ step \in 0 .. 2 * Steps + 1 /\ ticks \in 0 .. HbPeriod - 1
  /\ prog = "cfs_test" =>
       /\ pc \in {"init", "look", "act", "leds"}
       /\ step \in 0 .. Len(Script) /\ failures \in 0 .. step

\* In every program the heartbeat bits of driver and core disagree only until
\* its first heartbeat: a reset, and a change of program, loses at most one.
BitsAgree ==
  IF prog = "cfs_test" THEN hb_bit # hb_toggle_last => step \in {0, 1} /\ pc # "leds"
  ELSE ToggleInSync

\* No program that means to keep the link alive ever lets the watchdog trip:
\* the main loops, the sweep with its two uneven holds, the self-test's end.
LinkStays == prog # "cfs_test" \/ pc = "leds" => LinkKept

\* A program that arms once stands or falls with the bit the core remembers
\* from before the reset: on a cold start the sweep is armed for good and the
\* self-test's checks of the safety core all pass, on a warm one the sweep never
\* arms and T2 and T3, and no others, fail.
StartDecides ==
  /\ prog = "pwm_sweep" /\ pc = "sweep" => (motors_armed <=> cold)
  /\ prog = "cfs_test" /\ pc = "leds" => failures = IF cold THEN 0 ELSE 2

----------------------------------------------------------------------------
(* What the documents say and the code does not do: TLC refutes these.     *)

\* What cfs_test says of T10 ("stop heartbeating, wait > timeout"): the
\* failsafe that is tested is the one of 20 ms.  The drive is disarmed by the
\* default timeout long before, during T7.
FailsafeTested ==
  prog = "cfs_test" /\ cold /\ pc = "act" /\ Script[step + 1].do = "test_timeout"
    => motors_armed
=============================================================================
