------------------------------- MODULE RovPid -------------------------------
(***************************************************************************)
(* One axis of the PID controller in neorv32_rov_motors.vhd, with the      *)
(* arithmetic of its registers: the three pipeline stages that each 400 Hz *)
(* tick runs for the axis, and the commands that write what they read.     *)
(*                                                                         *)
(* IDLE stands for all the time in which the axis is not being served; the *)
(* other axes use the pipeline registers in turns of their own.  A turn    *)
(* takes three cycles, so at most one command falls into it, which touched *)
(* records.  The watchdog and the arming register are no inputs of the     *)
(* controller: it runs on in a disarmed drive.                             *)
(*                                                                         *)
(* A word holds numbers from -2 * One to 2 * One - 1, One being 1.0.       *)
(***************************************************************************)
EXTENDS Integers

CONSTANTS
  One,         \* 1.0 in fixed point (2^14)
  Setpoint,    \* the values commands may carry
  Current,
  GainP, GainI, GainD

Word == -2 * One .. 2 * One - 1

ASSUME PidAssumption ==
  /\ One \in Nat \ {0}
  /\ Setpoint \subseteq Word /\ Current \subseteq Word
  /\ GainP \subseteq Word /\ GainI \subseteq Word /\ GainD \subseteq Word

VARIABLES
  control_sp, pid_current, pid_kp, pid_ki, pid_kd, pid_enable,  \* written by commands
  pid_state,
  pid_err_s1, pid_p_s1,                          \* after stage S1
  pid_err_s2, pid_p_s2, pid_i_s2, pid_d_s2,      \* after stage S2
  pid_integral, pid_error_prev, pid_output,
  touched,     \* a command has come since the turn began
  sampled,     \* history: setpoint minus position when the turn began
  whole        \* history: the axis was enabled when the turn began

registers == <<control_sp, pid_current, pid_kp, pid_ki, pid_kd, pid_enable>>
stage1    == <<pid_err_s1, pid_p_s1>>
stage2    == <<pid_err_s2, pid_p_s2, pid_i_s2, pid_d_s2>>
results   == <<pid_integral, pid_error_prev, pid_output>>
history   == <<touched, sampled, whole>>
vars      == <<registers, pid_state, stage1, stage2, results, history>>

----------------------------------------------------------------------------
(* Arithmetic. *)

\* The sum or difference of two words, in a word.
Wrap(x) ==
  IF x >= 2 * One THEN x - 4 * One
  ELSE IF x < -2 * One THEN x + 4 * One ELSE x

\* numeric_std's resize of a wider number: the sign and the low bits.
Resize(x) == IF x < 0 THEN (x % (2 * One)) - 2 * One ELSE x % (2 * One)

Product(a, b) == Resize((a * b) \div One)

Within(x, low, high) == IF x > high THEN high ELSE IF x < low THEN low ELSE x

----------------------------------------------------------------------------
(* The pipeline. *)

Tick == \* pid_tick, and the turns of the axes before this one
  /\ pid_state = "IDLE"
  /\ pid_state' = "S1" /\ touched' = FALSE
  /\ UNCHANGED <<registers, stage1, stage2, results, sampled, whole>>

Error == Wrap(control_sp - pid_current)

S1 ==
  /\ pid_state = "S1"
  /\ pid_err_s1' = IF pid_enable THEN Error ELSE 0
  /\ pid_p_s1' = IF pid_enable THEN Product(pid_kp, Error) ELSE 0
  /\ pid_state' = "S2"
  /\ sampled' = Error /\ whole' = pid_enable
  /\ UNCHANGED <<registers, stage2, results, touched>>

\* Mutant: the second stage looks at the setpoint again.
S2_Resamples ==
  /\ pid_state = "S2"
  /\ pid_i_s2' = IF pid_enable THEN Product(pid_ki, pid_err_s1) ELSE 0
  /\ pid_d_s2' = IF pid_enable THEN Product(pid_kd, Wrap(pid_err_s1 - pid_error_prev)) ELSE 0
  /\ pid_err_s2' = IF pid_enable THEN Error ELSE 0
  /\ pid_p_s2' = pid_p_s1
  /\ pid_state' = "S3"
  /\ UNCHANGED <<registers, stage1, results, history>>

S2 ==
  /\ pid_state = "S2"
  /\ pid_i_s2' = IF pid_enable THEN Product(pid_ki, pid_err_s1) ELSE 0
  /\ pid_d_s2' = IF pid_enable THEN Product(pid_kd, Wrap(pid_err_s1 - pid_error_prev)) ELSE 0
  /\ pid_err_s2' = pid_err_s1 /\ pid_p_s2' = pid_p_s1
  /\ pid_state' = "S3"
  /\ UNCHANGED <<registers, stage1, results, history>>

\* The integrator's sum, in a word.
Sum == Wrap(pid_integral + pid_i_s2)

\* Mutant: an overflow starts the integrator afresh.
Integral_Restarts == IF Sum > One \/ Sum < -One THEN 0 ELSE Sum

\* Mutant: no clamp against windup.
Integral_Unclamped == Sum

Integral == Within(Sum, -One, One)

S3 == \* then S3_LATCH, and the turns of the axes behind this one
  /\ pid_state = "S3"
  /\ \/ /\ pid_enable
        /\ pid_integral' = Integral
        /\ pid_error_prev' = pid_err_s2
        /\ pid_output' = Within(pid_p_s2 + Sum + pid_d_s2, -One, One - 1)
     \/ ~pid_enable /\ UNCHANGED results
  /\ pid_state' = "IDLE"
  /\ UNCHANGED <<registers, stage1, stage2, history>>

Stage == Tick \/ S1 \/ S2 \/ S3

----------------------------------------------------------------------------
(* Commands 0x6, 0x9, 0x8 and 0xB; a reset leaves pid_current as it is.    *)

Command ==
  /\ pid_state # "IDLE" => ~touched
  /\ touched' = (pid_state # "IDLE")
  /\ UNCHANGED <<pid_state, stage1, stage2, results, sampled, whole>>

SetSetpoint ==
  /\ control_sp' \in Setpoint
  /\ UNCHANGED <<pid_current, pid_kp, pid_ki, pid_kd, pid_enable>>

SetCurrent ==
  /\ pid_current' \in Current
  /\ UNCHANGED <<control_sp, pid_kp, pid_ki, pid_kd, pid_enable>>

SetGain ==
  /\ \/ pid_kp' \in GainP /\ UNCHANGED <<pid_ki, pid_kd>>
     \/ pid_ki' \in GainI /\ UNCHANGED <<pid_kp, pid_kd>>
     \/ pid_kd' \in GainD /\ UNCHANGED <<pid_kp, pid_ki>>
  /\ UNCHANGED <<control_sp, pid_current, pid_enable>>

Enable ==
  /\ pid_enable' \in BOOLEAN
  /\ UNCHANGED <<control_sp, pid_current, pid_kp, pid_ki, pid_kd>>

Write == Command /\ (SetSetpoint \/ SetCurrent \/ SetGain \/ Enable)

Reset ==
  /\ control_sp' = 0 /\ pid_kp' = 0 /\ pid_ki' = 0 /\ pid_kd' = 0
  /\ pid_err_s1' = 0 /\ pid_p_s1' = 0
  /\ pid_err_s2' = 0 /\ pid_p_s2' = 0 /\ pid_i_s2' = 0 /\ pid_d_s2' = 0
  /\ pid_output' = 0
  /\ pid_integral' = 0 /\ pid_error_prev' = 0
  /\ pid_enable' = FALSE /\ pid_state' = "IDLE"
  /\ touched' = FALSE /\ sampled' = 0 /\ whole' = FALSE
  /\ UNCHANGED pid_current

----------------------------------------------------------------------------
Init ==
  /\ control_sp = 0 /\ pid_current = 0 /\ pid_enable = FALSE
  /\ pid_kp = 0 /\ pid_ki = 0 /\ pid_kd = 0
  /\ pid_state = "IDLE"
  /\ pid_err_s1 = 0 /\ pid_p_s1 = 0
  /\ pid_err_s2 = 0 /\ pid_p_s2 = 0 /\ pid_i_s2 = 0 /\ pid_d_s2 = 0
  /\ pid_integral = 0 /\ pid_error_prev = 0 /\ pid_output = 0
  /\ touched = FALSE /\ sampled = 0 /\ whole = FALSE

Next == Stage \/ Write \/ Reset

Spec == Init /\ [][Next]_vars

\* The clock and the divider of pid_tick never stop.
FairSpec == Spec /\ WF_vars(Stage)

----------------------------------------------------------------------------
(* Properties. *)

\* All registers hold words, the integrator and the output what their clamps
\* allow: a sum that has wrapped does not slip past the clamp.
TypeOK ==
  /\ {control_sp, pid_current, pid_kp, pid_ki, pid_kd, pid_err_s1, pid_p_s1,
      pid_err_s2, pid_p_s2, pid_i_s2, pid_d_s2, pid_error_prev, sampled} \subseteq Word
  /\ pid_integral \in -One .. One
  /\ pid_output \in -One .. One - 1
  /\ pid_state \in {"IDLE", "S1", "S2", "S3"}
  /\ pid_enable \in BOOLEAN /\ touched \in BOOLEAN /\ whole \in BOOLEAN

\* As long as an integral term stays below 1.0, the integrator never moves
\* against it: it grows or rests at its clamp.
IntegralFollows ==
  [][S3 /\ pid_enable =>
       /\ pid_i_s2 \in 0 .. One - 1 => pid_integral' >= pid_integral
       /\ pid_i_s2 \in -One .. 0 => pid_integral' =< pid_integral]_vars

\* The derivative's memory is the error of the last turn that the axis saw
\* through, whatever setpoints came in meanwhile; a turn in which the axis was
\* enabled half-way leaves 0 in it.
MemoryIsLastError ==
  [][S3 /\ pid_enable => pid_error_prev' = IF whole THEN sampled ELSE 0]_vars

\* While its inputs rest and ask for more, the integrator ends at its clamp
\* and not in an oscillation.
IntegralSettles ==
  \/ []<><<Write \/ Reset>>_vars
  \/ <>[](pid_enable /\ pid_i_s2 \in 1 .. One - 1)
       => <>[](pid_integral = One)

----------------------------------------------------------------------------
(* What one would expect and the code does not do: TLC refutes these.      *)

\* The clamp holds the integrator at 1.0 (line 401, "anti-windup").  With a
\* term of 1.0 or more the sum wraps first, and the clamp it meets is -1.0.
NeverFlips ==
  [][S3 /\ pid_enable /\ pid_i_s2 >= 0 => pid_integral' >= pid_integral]_vars

\* An axis that is enabled starts from rest.
StartsAtRest ==
  [][Write /\ pid_enable' /\ ~pid_enable => pid_integral = 0 /\ pid_error_prev = 0]_vars
=============================================================================
