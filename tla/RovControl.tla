----------------------------- MODULE RovControl -----------------------------
(***************************************************************************)
(* The closed-loop control of rov_main: depth-hold and yaw-hold of the     *)
(* console, free mode, MAVLink's manual control, and control_tick, which   *)
(* serves the holds at 20 Hz through the PID registers of the CFS.         *)
(*                                                                         *)
(* Commands and control_tick run one after the other in the main loop.     *)
(* Only the safety core moves on its own: it may disarm between any two    *)
(* steps, also between the moment control_tick reads the status and the    *)
(* moment it uses it, 26 ms of sensor conversion later.                    *)
(***************************************************************************)
EXTENDS Integers

CONSTANTS
  Depth,      \* cm: sensor readings and targets
  Heading,    \* s1.14: IMU yaw readings and targets
  Raw         \* s1.14: values the console may write to a register

Half == 32768
Int16 == -Half .. Half - 1

ASSUME DataAssumption ==
  /\ Depth \subseteq Nat /\ Depth # {}
  /\ Heading \subseteq Int16 /\ Heading # {}
  /\ Raw \subseteq Int16

Held == {"heave", "yaw"}   \* the two axes holds control

VARIABLES
  g_depth_hold_on, g_depth_target_cm, g_yaw_hold_on, g_yaw_target_s114,
  pid_enable, control_sp, pid_current,   \* CFS registers of the held axes
  motors_armed,
  depth_cm, imu_yaw,                     \* what the CFS reads back
  pc, st,                                \* control_tick: next step, sampled STATUS_ARMED
  freed,                                 \* history: no command has used the PID since
                                         \* the last return to free mode
  late                                   \* history: how often control_tick has served a
                                         \* hold since the drive was disarmed

holds == <<g_depth_hold_on, g_depth_target_cm, g_yaw_hold_on, g_yaw_target_s114>>
cfs   == <<pid_enable, control_sp, pid_current>>
history == <<freed, late>>
vars  == <<holds, cfs, motors_armed, depth_cm, imu_yaw, pc, st, history>>

DEPTH_SCALE == 164

Wrap16(n) == ((n + Half) % (2 * Half)) - Half

\* Mutant: the conversion stops at the largest value.
S114_Saturates(cm) == IF cm * DEPTH_SCALE >= Half THEN Half - 1 ELSE cm * DEPTH_SCALE

\* (int16_t)((uint32_t)cm * DEPTH_SCALE)
S114(cm) == Wrap16(cm * DEPTH_SCALE)

Holding == g_depth_hold_on \/ g_yaw_hold_on

Serve(axis, current, target) ==
  /\ pid_current' = [pid_current EXCEPT ![axis] = current]
  /\ control_sp' = [control_sp EXCEPT ![axis] = target]
  /\ pid_enable' = {axis}

----------------------------------------------------------------------------
(* Console and MAVLink, between two turns of control_tick. *)

Command == pc = "loop" /\ UNCHANGED <<pc, st, depth_cm, imu_yaw>>

cmd_depth_hold(cm) ==
  /\ Command
  /\ g_depth_target_cm' = cm /\ g_depth_hold_on' = TRUE
  /\ Serve("heave", S114(depth_cm), S114(cm))
  /\ freed' = FALSE
  /\ UNCHANGED <<g_yaw_hold_on, g_yaw_target_s114, motors_armed, late>>

cmd_yaw_hold(target) ==
  /\ Command
  /\ g_yaw_target_s114' = target /\ g_yaw_hold_on' = TRUE
  /\ Serve("yaw", imu_yaw, target)
  /\ freed' = FALSE
  /\ UNCHANGED <<g_depth_hold_on, g_depth_target_cm, motors_armed, late>>

free_mode ==
  /\ g_depth_hold_on' = FALSE /\ g_yaw_hold_on' = FALSE
  /\ pid_enable' = {}
  /\ freed' = TRUE
  /\ UNCHANGED <<g_depth_target_cm, g_yaw_target_s114, pid_current>>

cmd_free_mode ==
  /\ Command /\ free_mode
  /\ UNCHANGED <<control_sp, motors_armed, late>>

handle_manual_control(raw) == \* also RC_CHANNELS_OVERRIDE
  /\ Command /\ free_mode
  /\ control_sp' = raw
  /\ UNCHANGED <<motors_armed, late>>

cmd_pid_enable(mask) == \* g
  /\ Command
  /\ pid_enable' = mask
  /\ freed' = FALSE
  /\ UNCHANGED <<holds, control_sp, pid_current, motors_armed, late>>

cmd_setpoint(axis, raw) == \* t
  /\ Command
  /\ control_sp' = [control_sp EXCEPT ![axis] = raw]
  /\ UNCHANGED <<holds, pid_enable, pid_current, motors_armed, history>>

cmd_pid_current(axis, raw) == \* n
  /\ Command
  /\ pid_current' = [pid_current EXCEPT ![axis] = raw]
  /\ UNCHANGED <<holds, pid_enable, control_sp, motors_armed, history>>

Arm == \* a 1, COMMAND_LONG 400
  /\ Command
  /\ motors_armed' = TRUE /\ late' = 0
  /\ UNCHANGED <<holds, cfs, freed>>

ConsoleDisarm == \* a 0
  /\ Command
  /\ motors_armed' = FALSE
  /\ g_depth_hold_on' = FALSE /\ g_yaw_hold_on' = FALSE
  /\ UNCHANGED <<g_depth_target_cm, g_yaw_target_s114, cfs, history>>

MavlinkDisarm == \* COMMAND_LONG 400 with parameter 0
  /\ Command
  /\ motors_armed' = FALSE
  /\ UNCHANGED <<holds, cfs, history>>

cmd_reinit == \* disarm, rov_init, holds off
  /\ Command
  /\ motors_armed' = TRUE /\ late' = 0
  /\ control_sp' = [axis \in Held |-> 0]
  /\ g_depth_hold_on' = FALSE /\ g_yaw_hold_on' = FALSE
  /\ UNCHANGED <<g_depth_target_cm, g_yaw_target_s114, pid_enable, pid_current, freed>>

----------------------------------------------------------------------------
(* control_tick. *)

\* Mutant: the sample is set by an armed drive and never cleared.
ReadStatus_Sticky ==
  /\ pc = "loop" /\ pc' = "poll"
  /\ st' = (st \/ motors_armed)
  /\ UNCHANGED <<holds, cfs, motors_armed, depth_cm, imu_yaw, history>>

ReadStatus ==
  /\ pc = "loop" /\ pc' = "poll"
  /\ st' = motors_armed
  /\ UNCHANGED <<holds, cfs, motors_armed, depth_cm, imu_yaw, history>>

SensorsPoll ==
  /\ pc = "poll" /\ pc' = "apply"
  /\ depth_cm' \in Depth /\ imu_yaw' \in Heading
  /\ UNCHANGED <<holds, cfs, motors_armed, st, history>>

\* Mutant: a disarmed drive skips the tick without dropping its holds.
Disarmed_KeepsHolds ==
  /\ pc = "apply" /\ pc' = "loop" /\ ~st
  /\ UNCHANGED <<holds, cfs, motors_armed, depth_cm, imu_yaw, st, history>>

Disarmed ==
  /\ pc = "apply" /\ pc' = "loop" /\ ~st
  /\ g_depth_hold_on' = FALSE /\ g_yaw_hold_on' = FALSE
  /\ UNCHANGED <<g_depth_target_cm, g_yaw_target_s114, cfs, motors_armed, depth_cm,
                 imu_yaw, st, history>>

\* Mutant: the setpoint is written when the hold starts and never again.
ServeHolds_CurrentOnly ==
  /\ pc = "apply" /\ pc' = "loop" /\ st
  /\ \/ g_depth_hold_on /\ pid_current' = [pid_current EXCEPT !["heave"] = S114(depth_cm)]
     \/ ~g_depth_hold_on /\ UNCHANGED pid_current
  /\ UNCHANGED <<control_sp, pid_enable>>
  /\ late' = IF Holding /\ ~motors_armed THEN late + 1 ELSE late
  /\ UNCHANGED <<holds, motors_armed, depth_cm, imu_yaw, st, freed>>

ServeHolds ==
  /\ pc = "apply" /\ pc' = "loop" /\ st
  /\ pid_current' = [pid_current EXCEPT
       !["heave"] = IF g_depth_hold_on THEN S114(depth_cm) ELSE @,
       !["yaw"]   = IF g_yaw_hold_on THEN imu_yaw ELSE @]
  /\ control_sp' = [control_sp EXCEPT
       !["heave"] = IF g_depth_hold_on THEN S114(g_depth_target_cm) ELSE @,
       !["yaw"]   = IF g_yaw_hold_on THEN g_yaw_target_s114 ELSE @]
  /\ pid_enable' = \* each hold writes the whole mask, yaw last
       IF g_yaw_hold_on THEN {"yaw"}
       ELSE IF g_depth_hold_on THEN {"heave"} ELSE pid_enable
  /\ late' = IF Holding /\ ~motors_armed THEN late + 1 ELSE late
  /\ UNCHANGED <<holds, motors_armed, depth_cm, imu_yaw, st, freed>>

----------------------------------------------------------------------------
Failsafe == \* the watchdog of RovSafety
  /\ motors_armed /\ motors_armed' = FALSE
  /\ UNCHANGED <<holds, cfs, depth_cm, imu_yaw, pc, st, history>>

Reset == \* the board's reset: main starts over, pid_current keeps its value
  /\ g_depth_hold_on' = FALSE /\ g_yaw_hold_on' = FALSE
  /\ g_depth_target_cm' = 0 /\ g_yaw_target_s114' = 0
  /\ pid_enable' = {} /\ control_sp' = [axis \in Held |-> 0] /\ UNCHANGED pid_current
  /\ motors_armed' \in BOOLEAN
  /\ depth_cm' = 0 /\ imu_yaw' = 0 /\ pc' = "loop" /\ st' = FALSE /\ freed' = TRUE /\ late' = 0

Init ==
  /\ g_depth_hold_on = FALSE /\ g_yaw_hold_on = FALSE
  /\ g_depth_target_cm = 0 /\ g_yaw_target_s114 = 0
  /\ pid_enable = {} /\ control_sp = [axis \in Held |-> 0]
  /\ pid_current = [axis \in Held |-> 0]
  /\ motors_armed \in BOOLEAN   \* rov_init's arm command may be refused
  /\ depth_cm = 0 /\ imu_yaw = 0 /\ pc = "loop" /\ st = FALSE /\ freed = TRUE /\ late = 0

Commands ==
  \/ \E cm \in Depth : cmd_depth_hold(cm)
  \/ \E target \in Heading : cmd_yaw_hold(target)
  \/ cmd_free_mode
  \/ \E raw \in [Held -> Raw] : handle_manual_control(raw)
  \/ \E mask \in SUBSET Held : cmd_pid_enable(mask)
  \/ \E axis \in Held, raw \in Raw : cmd_setpoint(axis, raw) \/ cmd_pid_current(axis, raw)
  \/ Arm \/ ConsoleDisarm \/ MavlinkDisarm \/ cmd_reinit

control_tick == ReadStatus \/ SensorsPoll \/ Disarmed \/ ServeHolds

Next == Commands \/ control_tick \/ Failsafe \/ Reset

Spec == Init /\ [][Next]_vars

\* The main loop comes back to control_tick every 50 ms, commands or not, and
\* nothing stops it half way.
FairSpec == Spec /\ SF_vars(ReadStatus) /\ WF_vars(SensorsPoll \/ Disarmed \/ ServeHolds)

----------------------------------------------------------------------------
(* Properties. *)

\* Flags, targets, registers and control_tick's position keep their ranges.
TypeOK ==
  /\ g_depth_hold_on \in BOOLEAN /\ g_yaw_hold_on \in BOOLEAN
  /\ g_depth_target_cm \in Depth \cup {0} /\ g_yaw_target_s114 \in Heading \cup {0}
  /\ pid_enable \in SUBSET Held
  /\ control_sp \in [Held -> Int16] /\ pid_current \in [Held -> Int16]
  /\ motors_armed \in BOOLEAN /\ st \in BOOLEAN /\ freed \in BOOLEAN /\ late \in Nat
  /\ depth_cm \in Depth \cup {0} /\ imu_yaw \in Heading \cup {0}
  /\ pc \in {"loop", "poll", "apply"}

\* A status that control_tick sampled before a failsafe lets it serve its holds
\* at most once more: however long the drive then stays disarmed, and whatever
\* holds are commanded meanwhile, no second turn acts on what the first one saw.
StaleOnce == late <= 1

\* After free mode or a manual control message nothing but a new hold or PID
\* command gives an axis back to the PID; arming, re-init and the turns of
\* control_tick do not.
FreeStaysFree == freed => pid_enable = {} /\ ~g_depth_hold_on /\ ~g_yaw_hold_on

\* Whatever the console writes to the registers in between, a depth-hold that
\* stays on, alone and armed, gets its PID and its target back again and again.
HoldReasserted ==
  \A cm \in Depth :
    <>[](motors_armed /\ g_depth_hold_on /\ ~g_yaw_hold_on /\ g_depth_target_cm = cm) =>
      []<>(pid_enable = {"heave"} /\ control_sp["heave"] = S114(cm))

\* A drive that stays disarmed is sooner or later without holds, though it may
\* have been disarmed behind control_tick's back.
HoldsReleased ==
  (~motors_armed /\ Holding) ~> (motors_armed \/ ~Holding)

\* The error as stage S1 of the PID controller takes it from its registers.
DepthError == Wrap16(control_sp["heave"] - pid_current["heave"])

\* From 200 cm on target and reading wrap in the conversion to s1.14, but the
\* controller's 16-bit difference wraps back: however deep the vehicle is, the
\* error a hold leaves is exact while the two are less than 200 cm apart.
DepthErrorFits ==
  [][ServeHolds /\ g_depth_hold_on
       /\ g_depth_target_cm - depth_cm < 200 /\ depth_cm - g_depth_target_cm < 200 =>
       DepthError' = (g_depth_target_cm - depth_cm) * DEPTH_SCALE]_vars

----------------------------------------------------------------------------
(* What the documents say and the code does not do: TLC refutes these.     *)

\* The head of main.c: depth-hold runs the heave PID (also beside a yaw-hold).
\* The yaw-hold's PID mask replaces the depth-hold's.
DepthHoldRunsHeave ==
  [][ServeHolds /\ g_depth_hold_on => "heave" \in pid_enable']_vars

\* The head of main.c: the heave PID has the target depth as its setpoint and
\* the depth sensor as its current value, so its error has the sign of theirs.
\* From 200 cm between them on it has the other sign.
DepthErrorSign ==
  [][ServeHolds /\ g_depth_hold_on =>
       /\ g_depth_target_cm > depth_cm => DepthError' > 0
       /\ g_depth_target_cm < depth_cm => DepthError' < 0]_vars
=============================================================================
