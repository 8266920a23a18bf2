---------------------------- MODULE RovPidProofs ----------------------------
(***************************************************************************)
(* Proofs about RovPid, for every value of 1.0 and every set of setpoints, *)
(* positions and gains that fit a word.                                    *)
(***************************************************************************)
EXTENDS RovPid, TLAPS

(***************************************************************************)
(* Arithmetic                                                              *)
(***************************************************************************)

\* A sum or a difference of two words is a word (lines 379, 391, 402).
LEMMA WrapIsWord ==
  ASSUME NEW a \in Word, NEW b \in Word
  PROVE  Wrap(a + b) \in Word /\ Wrap(a - b) \in Word
BY PidAssumption DEF Wrap, Word

\* resize keeps every number within a word (line 380).
LEMMA ResizeIsWord ==
  ASSUME NEW x \in Int
  PROVE  Resize(x) \in Word
<1>1. 2 * One \in Nat \ {0}
  BY PidAssumption
<1>2. x % (2 * One) \in 0 .. 2 * One - 1
  BY <1>1
<1>. QED BY <1>1, <1>2, PidAssumption DEF Resize, Word

\* A term of the controller is a word (lines 380, 390, 391).
LEMMA ProductIsWord ==
  ASSUME NEW a \in Word, NEW b \in Word
  PROVE  Product(a, b) \in Word
<1>1. a * b \in Int
  BY PidAssumption DEF Word
<1>2. (a * b) \div One \in Int
  BY <1>1, PidAssumption
<1>. QED BY <1>2, ResizeIsWord DEF Product

\* A clamp returns a number between its bounds (lines 402-419).
LEMMA WithinBounds ==
  ASSUME NEW x \in Int, NEW low \in Int, NEW high \in Int, low =< high
  PROVE  Within(x, low, high) \in low .. high
BY DEF Within

(***************************************************************************)
(* Types and clamps                                                        *)
(***************************************************************************)

\* The two facts about a turn in progress that the derivative's memory rests
\* on: each stage hands on what the first one found.
ErrorHandedOn ==
  /\ pid_state = "S2" => pid_err_s1 = IF whole THEN sampled ELSE 0
  /\ pid_state = "S3" => pid_err_s2 = IF whole THEN sampled ELSE 0

\* The error is a word.
LEMMA ErrorIsWord == ASSUME TypeOK PROVE Error \in Word
BY WrapIsWord DEF TypeOK, Error

LEMMA S1Types == ASSUME TypeOK, S1 PROVE TypeOK'
<1>1. Error \in Word /\ Product(pid_kp, Error) \in Word /\ 0 \in Word
  BY ErrorIsWord, ProductIsWord, PidAssumption DEF TypeOK, Word
<1>. QED BY <1>1 DEF S1, TypeOK, registers, stage2, results

LEMMA S2Types == ASSUME TypeOK, S2 PROVE TypeOK'
<1>1. Product(pid_ki, pid_err_s1) \in Word /\ 0 \in Word
  BY ProductIsWord, PidAssumption DEF TypeOK, Word
<1>2. Product(pid_kd, Wrap(pid_err_s1 - pid_error_prev)) \in Word
  BY WrapIsWord, ProductIsWord DEF TypeOK
<1>. QED BY <1>1, <1>2 DEF S2, TypeOK, registers, stage1, results, history

LEMMA S3Types == ASSUME TypeOK, S3 PROVE TypeOK'
<1>1. pid_integral \in Word
  BY PidAssumption DEF TypeOK, Word
<1>2. Sum \in Word
  BY <1>1, WrapIsWord DEF TypeOK, Sum
<1>3. Integral \in -One .. One
  BY <1>2, WithinBounds, PidAssumption DEF Integral, Word
<1>4. pid_p_s2 + Sum + pid_d_s2 \in Int
  BY <1>2, PidAssumption DEF TypeOK, Word
<1>5. -One \in Int /\ One - 1 \in Int /\ -One =< One - 1
  BY PidAssumption
<1>6. Within(pid_p_s2 + Sum + pid_d_s2, -One, One - 1) \in -One .. One - 1
  BY <1>4, <1>5, WithinBounds
<1>. QED BY <1>3, <1>6 DEF S3, TypeOK, registers, stage1, stage2, results, history

LEMMA WriteTypes == ASSUME TypeOK, Write PROVE TypeOK'
<1>. USE DEF Write, Command, stage1, stage2, results, TypeOK
<1>1. CASE SetSetpoint
  BY <1>1, PidAssumption DEF SetSetpoint
<1>2. CASE SetCurrent
  BY <1>2, PidAssumption DEF SetCurrent
<1>3. CASE SetGain
  BY <1>3, PidAssumption DEF SetGain
<1>4. CASE Enable
  BY <1>4 DEF Enable
<1>. QED BY <1>1, <1>2, <1>3, <1>4

\* What a reset leaves in the registers is in their ranges.
LEMMA AtRest == 0 \in Word /\ 0 \in -One .. One /\ 0 \in -One .. One - 1
BY PidAssumption DEF Word

\* Every register keeps its range, the integrator and the output that of
\* their clamps, although the sums compared with the clamps may have wrapped.
THEOREM TypeCorrect == Spec => []TypeOK
<1>1. Init => TypeOK
  BY AtRest DEF Init, TypeOK
<1>2. TypeOK /\ [Next]_vars => TypeOK'
  <2> SUFFICES ASSUME TypeOK, [Next]_vars PROVE TypeOK'
    OBVIOUS
  <2>1. CASE Tick
    BY <2>1 DEF Tick, TypeOK, registers, stage1, stage2, results
  <2>2. CASE S1
    BY <2>2, S1Types
  <2>3. CASE S2
    BY <2>3, S2Types
  <2>4. CASE S3
    BY <2>4, S3Types
  <2>5. CASE Write
    BY <2>5, WriteTypes
  <2>6. CASE Reset
    BY <2>6, AtRest DEF Reset, TypeOK
  <2>7. CASE UNCHANGED vars
    BY <2>7 DEF vars, registers, stage1, stage2, results, history, TypeOK
  <2>. QED BY <2>1, <2>2, <2>3, <2>4, <2>5, <2>6, <2>7 DEF Next, Stage
<1>. QED BY <1>1, <1>2, PTL DEF Spec

(***************************************************************************)
(* The integrator                                                          *)
(***************************************************************************)

\* A term below 1.0 moves the integrator its own way or not at all: within
\* its clamp it is at most 1.0, so that the sum stays a word and is compared
\* as it is.
LEMMA IntegralStep ==
  ASSUME TypeOK, S3, pid_enable
  PROVE  /\ pid_i_s2 \in 0 .. One - 1 => pid_integral' >= pid_integral
         /\ pid_i_s2 \in -One .. 0 => pid_integral' =< pid_integral
<1>1. pid_integral' = Integral
  BY DEF S3
<1>2. ASSUME pid_i_s2 \in -One .. One - 1
      PROVE  Sum = pid_integral + pid_i_s2
  BY <1>2, PidAssumption DEF Sum, Wrap, TypeOK
<1>3. CASE pid_i_s2 \in -One .. One - 1
  BY <1>1, <1>2, <1>3, PidAssumption DEF Integral, Within, TypeOK
<1>. QED BY <1>3, PidAssumption

\* IntegralFollows for every value of 1.0.
THEOREM IntegratorFollows == Spec => IntegralFollows
<1>1. TypeOK => [S3 /\ pid_enable =>
         /\ pid_i_s2 \in 0 .. One - 1 => pid_integral' >= pid_integral
         /\ pid_i_s2 \in -One .. 0 => pid_integral' =< pid_integral]_vars
  BY IntegralStep
<1>. QED BY <1>1, TypeCorrect, PTL DEF IntegralFollows

\* The clamp of a sum that may have wrapped: a sum of 2.0 and more wraps to
\* -1.0 or less, so it is clamped at the wrong end, and so is one below -2.0.
LEMMA ClampOfWrap ==
  ASSUME NEW a \in -One .. One, NEW b \in Word
  PROVE  /\ a + b >= 2 * One => Within(Wrap(a + b), -One, One) = -One
         /\ a + b < -2 * One => Within(Wrap(a + b), -One, One) = One
         /\ a + b \in Word => Within(Wrap(a + b), -One, One) = Within(a + b, -One, One)
<1>1. ASSUME a + b >= 2 * One
      PROVE  Within(Wrap(a + b), -One, One) = -One
  <2>1. Wrap(a + b) = a + b - 4 * One
    BY <1>1, PidAssumption DEF Wrap, Word
  <2>2. a + b - 4 * One <= -One /\ a + b - 4 * One \in Int
    BY PidAssumption DEF Word
  <2>. QED BY <2>1, <2>2, PidAssumption DEF Within
<1>2. ASSUME a + b < -2 * One
      PROVE  Within(Wrap(a + b), -One, One) = One
  <2>1. Wrap(a + b) = a + b + 4 * One
    BY <1>2, PidAssumption DEF Wrap, Word
  <2>2. a + b + 4 * One >= One /\ a + b + 4 * One \in Int
    BY PidAssumption DEF Word
  <2>. QED BY <2>1, <2>2, PidAssumption DEF Within
<1>3. a + b \in Word => Wrap(a + b) = a + b
  BY PidAssumption DEF Wrap, Word
<1>. QED BY <1>1, <1>2, <1>3

\* What the clamp against windup does, for every term: it turns the integrator
\* over, from one end to the other, exactly when the sum leaves the word.  A
\* term below 1.0 cannot do that, and one above 0 ends the turn at the clamp or
\* nearer to it, the measure under IntegralSettles.
IntegralExact ==
  [][S3 /\ pid_enable =>
       /\ pid_integral + pid_i_s2 >= 2 * One => pid_integral' = -One
       /\ pid_integral + pid_i_s2 < -2 * One => pid_integral' = One
       /\ pid_integral + pid_i_s2 \in Word =>
            pid_integral' = Within(pid_integral + pid_i_s2, -One, One)
       /\ pid_i_s2 \in 1 .. One - 1 => pid_integral' = One \/ pid_integral' > pid_integral]_vars

\* IntegralExact, and that nothing but a turn of an enabled axis or a reset
\* moves the integrator, for every value of 1.0.
THEOREM IntegratorExact ==
  Spec => IntegralExact /\ [][(S3 /\ pid_enable) \/ Reset \/ UNCHANGED pid_integral]_vars
<1>1. TypeOK => [S3 /\ pid_enable =>
       /\ pid_integral + pid_i_s2 >= 2 * One => pid_integral' = -One
       /\ pid_integral + pid_i_s2 < -2 * One => pid_integral' = One
       /\ pid_integral + pid_i_s2 \in Word =>
            pid_integral' = Within(pid_integral + pid_i_s2, -One, One)
       /\ pid_i_s2 \in 1 .. One - 1 => pid_integral' = One \/ pid_integral' > pid_integral]_vars
  <2> SUFFICES ASSUME TypeOK, S3, pid_enable
               PROVE  /\ pid_integral + pid_i_s2 >= 2 * One => pid_integral' = -One
                      /\ pid_integral + pid_i_s2 < -2 * One => pid_integral' = One
                      /\ pid_integral + pid_i_s2 \in Word =>
                           pid_integral' = Within(pid_integral + pid_i_s2, -One, One)
                      /\ pid_i_s2 \in 1 .. One - 1 =>
                           pid_integral' = One \/ pid_integral' > pid_integral
    OBVIOUS
  <2>1. pid_integral' = Within(Wrap(pid_integral + pid_i_s2), -One, One)
    BY DEF S3, Integral, Sum
  <2>2. pid_integral \in -One .. One /\ pid_i_s2 \in Word
    BY DEF TypeOK
  <2>3. ASSUME pid_i_s2 \in 1 .. One - 1
        PROVE  pid_integral' = One \/ pid_integral' > pid_integral
    <3>1. pid_integral + pid_i_s2 \in Word
      BY <2>2, <2>3, PidAssumption DEF Word
    <3>2. Within(pid_integral + pid_i_s2, -One, One) = One
          \/ Within(pid_integral + pid_i_s2, -One, One) > pid_integral
      BY <2>2, <2>3, PidAssumption DEF Within
    <3>. QED BY <2>1, <2>2, <3>1, <3>2, ClampOfWrap
  <2>. QED BY <2>1, <2>2, <2>3, ClampOfWrap
<1>2. [Next]_vars => [(S3 /\ pid_enable) \/ Reset \/ UNCHANGED pid_integral]_vars
  BY DEF Next, Stage, Tick, S1, S2, S3, Write, Command, results
<1>. QED BY <1>1, <1>2, TypeCorrect, PTL DEF Spec, IntegralExact

(***************************************************************************)
(* The derivative's memory                                                 *)
(***************************************************************************)

\* What the third stage stores is what the first one found: a command between
\* them cannot slip in, as the second stage reads registers that no command
\* writes.
THEOREM MemoryHandedOn == Spec => MemoryIsLastError
<1>1. Init => ErrorHandedOn
  BY DEF Init, ErrorHandedOn
<1>2. ErrorHandedOn /\ [Next]_vars => ErrorHandedOn'
  <2> SUFFICES ASSUME ErrorHandedOn, [Next]_vars PROVE ErrorHandedOn'
    OBVIOUS
  <2>. USE DEF ErrorHandedOn
  <2>1. CASE Tick
    BY <2>1 DEF Tick
  <2>2. CASE S1
    BY <2>2 DEF S1
  <2>3. CASE S2
    BY <2>3 DEF S2, history
  <2>4. CASE S3
    BY <2>4 DEF S3
  <2>5. CASE Write
    BY <2>5 DEF Write, Command, stage1, stage2
  <2>6. CASE Reset
    BY <2>6 DEF Reset
  <2>7. CASE UNCHANGED vars
    BY <2>7 DEF vars, stage1, stage2, history
  <2>. QED BY <2>1, <2>2, <2>3, <2>4, <2>5, <2>6, <2>7 DEF Next, Stage
<1>3. ErrorHandedOn => [S3 /\ pid_enable =>
         pid_error_prev' = IF whole THEN sampled ELSE 0]_vars
  BY DEF ErrorHandedOn, S3
<1>. QED BY <1>1, <1>2, <1>3, PTL DEF Spec, MemoryIsLastError
=============================================================================
