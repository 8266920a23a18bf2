-------------------------- MODULE RovControlProofs --------------------------
(***************************************************************************)
(* Proofs about RovControl, for all sets of depths, headings and register  *)
(* values.                                                                 *)
(***************************************************************************)
EXTENDS RovControl, TLAPS

(***************************************************************************)
(* Types                                                                   *)
(***************************************************************************)

LEMMA HalfIsNat == Half \in Nat \ {0}
BY DEF Half

\* The conversion of a depth fits a register, however deep (main.c:140).
LEMMA DepthConverted ==
  ASSUME NEW cm \in Nat
  PROVE  S114(cm) \in Int16
BY HalfIsNat DEF S114, Wrap16, DEPTH_SCALE, Int16

\* The values sensors and registers hold before anything was written.
LEMMA AtRest ==
  /\ 0 \in Nat /\ 0 \in Int16 /\ [axis \in Held |-> 0] \in [Held -> Int16]
  /\ Heading \subseteq Int16 /\ Raw \subseteq Int16 /\ Depth \subseteq Nat
BY DataAssumption, HalfIsNat DEF Int16

\* A hold writes an axis of the held ones.
LEMMA ServeTypes ==
  ASSUME TypeOK, NEW axis \in Held, NEW c \in Int16, NEW t \in Int16,
         Serve(axis, c, t)
  PROVE  /\ control_sp' \in [Held -> Int16] /\ pid_current' \in [Held -> Int16]
         /\ pid_enable' \in SUBSET Held
BY DEF Serve, TypeOK

LEMMA CommandTypes == ASSUME TypeOK, Commands PROVE TypeOK'
<1>. USE DEF Command, TypeOK
<1>1. ASSUME NEW cm \in Depth, cmd_depth_hold(cm) PROVE TypeOK'
  <2>1. S114(depth_cm) \in Int16 /\ S114(cm) \in Int16
    BY DepthConverted, AtRest
  <2>. QED BY <1>1, <2>1, ServeTypes DEF cmd_depth_hold, Held
<1>2. ASSUME NEW target \in Heading, cmd_yaw_hold(target) PROVE TypeOK'
  <2>1. imu_yaw \in Int16 /\ target \in Int16
    BY AtRest
  <2>. QED BY <1>2, <2>1, ServeTypes DEF cmd_yaw_hold, Held
<1>3. CASE cmd_free_mode
  BY <1>3 DEF cmd_free_mode, free_mode
<1>4. ASSUME NEW raw \in [Held -> Raw], handle_manual_control(raw) PROVE TypeOK'
  <2>1. raw \in [Held -> Int16]
    BY AtRest
  <2>. QED BY <1>4, <2>1 DEF handle_manual_control, free_mode
<1>5. ASSUME NEW mask \in SUBSET Held, cmd_pid_enable(mask) PROVE TypeOK'
  BY <1>5 DEF cmd_pid_enable, holds
<1>6. ASSUME NEW axis \in Held, NEW raw \in Raw, cmd_setpoint(axis, raw) PROVE TypeOK'
  BY <1>6, AtRest DEF cmd_setpoint, holds, history
<1>7. ASSUME NEW axis \in Held, NEW raw \in Raw, cmd_pid_current(axis, raw) PROVE TypeOK'
  BY <1>7, AtRest DEF cmd_pid_current, holds, history
<1>8. CASE Arm \/ ConsoleDisarm \/ MavlinkDisarm
  BY <1>8, AtRest DEF Arm, ConsoleDisarm, MavlinkDisarm, holds, cfs, history
<1>9. CASE cmd_reinit
  BY <1>9, AtRest DEF cmd_reinit
<1>. QED BY <1>1, <1>2, <1>3, <1>4, <1>5, <1>6, <1>7, <1>8, <1>9 DEF Commands

LEMMA TickTypes == ASSUME TypeOK, control_tick PROVE TypeOK'
<1>. USE DEF TypeOK
<1>1. CASE ReadStatus
  BY <1>1 DEF ReadStatus, holds, cfs, history
<1>2. CASE SensorsPoll
  BY <1>2 DEF SensorsPoll, holds, cfs, history
<1>3. CASE Disarmed
  BY <1>3 DEF Disarmed, cfs, history
<1>4. CASE ServeHolds
  <2>1. S114(depth_cm) \in Int16 /\ S114(g_depth_target_cm) \in Int16
    BY DepthConverted, AtRest
  <2>2. imu_yaw \in Int16 /\ g_yaw_target_s114 \in Int16
    BY AtRest
  <2>3. control_sp' \in [Held -> Int16]
    BY <1>4, <2>1, <2>2 DEF ServeHolds
  <2>4. pid_current' \in [Held -> Int16]
    BY <1>4, <2>1, <2>2 DEF ServeHolds
  <2>5. pid_enable' \in SUBSET Held
    BY <1>4 DEF ServeHolds, Held
  <2>. QED BY <1>4, <2>3, <2>4, <2>5 DEF ServeHolds, holds
<1>. QED BY <1>1, <1>2, <1>3, <1>4 DEF control_tick

\* Flags, targets and registers keep their ranges, depths beyond the range of
\* the fixed-point format included.
THEOREM TypeCorrect == Spec => []TypeOK
<1>1. Init => TypeOK
  BY AtRest DEF Init, TypeOK
<1>2. TypeOK /\ [Next]_vars => TypeOK'
  <2> SUFFICES ASSUME TypeOK, [Next]_vars PROVE TypeOK'
    OBVIOUS
  <2>1. CASE Commands
    BY <2>1, CommandTypes
  <2>2. CASE control_tick
    BY <2>2, TickTypes
  <2>3. CASE Failsafe
    BY <2>3 DEF Failsafe, holds, cfs, history, TypeOK
  <2>4. CASE Reset
    BY <2>4, AtRest DEF Reset, TypeOK
  <2>5. CASE UNCHANGED vars
    BY <2>5 DEF vars, holds, cfs, history, TypeOK
  <2>. QED BY <2>1, <2>2, <2>3, <2>4, <2>5 DEF Next
<1>. QED BY <1>1, <1>2, PTL DEF Spec

(***************************************************************************)
(* Free mode                                                               *)
(***************************************************************************)

\* FreeStaysFree is inductive by itself: the commands that give an axis to the
\* PID end free mode, and a turn of control_tick writes a mask only for a hold.
THEOREM FreeModeHolds == Spec => []FreeStaysFree
<1>1. Init => FreeStaysFree
  BY DEF Init, FreeStaysFree
<1>2. FreeStaysFree /\ [Next]_vars => FreeStaysFree'
  <2> SUFFICES ASSUME FreeStaysFree, [Next]_vars PROVE FreeStaysFree'
    OBVIOUS
  <2>. USE DEF FreeStaysFree
  <2>1. ASSUME NEW cm \in Depth, cmd_depth_hold(cm) PROVE FreeStaysFree'
    BY <2>1 DEF cmd_depth_hold
  <2>2. ASSUME NEW target \in Heading, cmd_yaw_hold(target) PROVE FreeStaysFree'
    BY <2>2 DEF cmd_yaw_hold
  <2>3. CASE cmd_free_mode
    BY <2>3 DEF cmd_free_mode, free_mode
  <2>4. ASSUME NEW raw \in [Held -> Raw], handle_manual_control(raw) PROVE FreeStaysFree'
    BY <2>4 DEF handle_manual_control, free_mode
  <2>5. ASSUME NEW mask \in SUBSET Held, cmd_pid_enable(mask) PROVE FreeStaysFree'
    BY <2>5 DEF cmd_pid_enable
  <2>6. ASSUME NEW axis \in Held, NEW raw \in Raw,
               cmd_setpoint(axis, raw) \/ cmd_pid_current(axis, raw)
        PROVE  FreeStaysFree'
    BY <2>6 DEF cmd_setpoint, cmd_pid_current, holds, history
  <2>7. CASE Arm \/ ConsoleDisarm \/ MavlinkDisarm \/ cmd_reinit
    BY <2>7 DEF Arm, ConsoleDisarm, MavlinkDisarm, cmd_reinit, holds, cfs, history
  <2>8. CASE ReadStatus \/ SensorsPoll \/ Disarmed
    BY <2>8 DEF ReadStatus, SensorsPoll, Disarmed, holds, cfs, history
  <2>9. CASE ServeHolds
    BY <2>9 DEF ServeHolds, holds
  <2>10. CASE Failsafe \/ Reset
    BY <2>10 DEF Failsafe, Reset, holds, cfs, history
  <2>11. CASE UNCHANGED vars
    BY <2>11 DEF vars, holds, cfs, history
  <2>. QED
    BY <2>1, <2>2, <2>3, <2>4, <2>5, <2>6, <2>7, <2>8, <2>9, <2>10, <2>11
    DEF Next, Commands, control_tick
<1>. QED BY <1>1, <1>2, PTL DEF Spec

(***************************************************************************)
(* The stale sample                                                        *)
(***************************************************************************)

\* StaleOnce is not inductive: what bounds the count is that an armed drive
\* has not begun it, and that control_tick, once back in the loop, samples an
\* armed status only from an armed drive.
StaleInv ==
  /\ late \in {0, 1}
  /\ motors_armed => late = 0
  /\ pc # "loop" /\ st => late = 0

\* Outside control_tick the count stands still or starts anew.
LEMMA StaleKept ==
  ASSUME StaleInv, Commands \/ Failsafe \/ Reset
  PROVE  StaleInv'
<1>1. CASE Commands
  <2>1. pc' = "loop"
    BY <1>1 DEF Commands, Command, cmd_depth_hold, cmd_yaw_hold, cmd_free_mode,
       handle_manual_control, cmd_pid_enable, cmd_setpoint, cmd_pid_current,
       Arm, ConsoleDisarm, MavlinkDisarm, cmd_reinit
  <2>2. late' = 0 \/ (late' = late /\ (motors_armed' => motors_armed))
    BY <1>1 DEF Commands, cmd_depth_hold, cmd_yaw_hold, cmd_free_mode,
       handle_manual_control, cmd_pid_enable, cmd_setpoint, cmd_pid_current,
       Arm, ConsoleDisarm, MavlinkDisarm, cmd_reinit, history
  <2>. QED BY <2>1, <2>2 DEF StaleInv
<1>2. CASE Failsafe
  BY <1>2 DEF Failsafe, history, StaleInv
<1>3. CASE Reset
  BY <1>3 DEF Reset, StaleInv
<1>. QED BY <1>1, <1>2, <1>3

\* A status sampled before a failsafe serves the holds at most once more.
THEOREM StaleSampleOnce == Spec => []StaleOnce
<1>1. Init => StaleInv
  BY DEF Init, StaleInv
<1>2. StaleInv /\ [Next]_vars => StaleInv'
  <2> SUFFICES ASSUME StaleInv, [Next]_vars PROVE StaleInv'
    OBVIOUS
  <2>1. CASE Commands \/ Failsafe \/ Reset
    BY <2>1, StaleKept
  <2>2. CASE ReadStatus
    BY <2>2 DEF ReadStatus, history, StaleInv
  <2>3. CASE SensorsPoll
    BY <2>3 DEF SensorsPoll, history, StaleInv
  <2>4. CASE Disarmed
    BY <2>4 DEF Disarmed, history, StaleInv
  <2>5. CASE ServeHolds
    <3>1. late = 0 /\ pc' = "loop" /\ motors_armed' = motors_armed
      BY <2>5 DEF ServeHolds, StaleInv
    <3>2. late' = IF Holding /\ ~motors_armed THEN late + 1 ELSE late
      BY <2>5 DEF ServeHolds
    <3>. QED BY <3>1, <3>2 DEF StaleInv
  <2>6. CASE UNCHANGED vars
    BY <2>6 DEF vars, history, StaleInv
  <2>. QED BY <2>1, <2>2, <2>3, <2>4, <2>5, <2>6 DEF Next, control_tick
<1>3. StaleInv => StaleOnce
  BY DEF StaleInv, StaleOnce
<1>. QED BY <1>1, <1>2, <1>3, PTL DEF Spec

(***************************************************************************)
(* The error of a depth-hold                                               *)
(***************************************************************************)

\* Two conversions that may both have wrapped differ, modulo 2^16, by the
\* difference of the depths, which fits while that is below 200 cm.
LEMMA WrapsCancel ==
  ASSUME NEW a \in Nat, NEW b \in Nat, a - b < 200, b - a < 200
  PROVE  Wrap16(S114(a) - S114(b)) = (a - b) * DEPTH_SCALE
BY DEF S114, Wrap16, DEPTH_SCALE, Half

\* DepthErrorFits for every set of depths.
THEOREM DepthErrorExact == Spec => DepthErrorFits
<1>1. TypeOK => [ServeHolds /\ g_depth_hold_on
         /\ g_depth_target_cm - depth_cm < 200 /\ depth_cm - g_depth_target_cm < 200 =>
         DepthError' = (g_depth_target_cm - depth_cm) * DEPTH_SCALE]_vars
  <2> SUFFICES ASSUME TypeOK, ServeHolds, g_depth_hold_on,
                      g_depth_target_cm - depth_cm < 200, depth_cm - g_depth_target_cm < 200
               PROVE  DepthError' = (g_depth_target_cm - depth_cm) * DEPTH_SCALE
    OBVIOUS
  <2>1. g_depth_target_cm \in Nat /\ depth_cm \in Nat
    BY AtRest DEF TypeOK
  <2>2. "heave" \in Held
    BY DEF Held
  <2>3. /\ control_sp'["heave"] = S114(g_depth_target_cm)
        /\ pid_current'["heave"] = S114(depth_cm)
    BY <2>2 DEF ServeHolds, TypeOK
  <2>. QED BY <2>1, <2>3, WrapsCancel DEF DepthError
<1>. QED BY <1>1, TypeCorrect, PTL DEF DepthErrorFits
=============================================================================
