--------------------------- MODULE MainLoopProofs ---------------------------
(***************************************************************************)
(* Proofs about what rov_main's main loop drives besides the core: the     *)
(* sensors (RovSensors), for any number of calibration words, any divider, *)
(* word width and set of rates, and the motor test (MotorSweep), for all   *)
(* ramps that stay within 16 bits and all times.                           *)
(***************************************************************************)
EXTENDS RovSensors, MotorSweep, TLAPS

(***************************************************************************)
(* Types and the bus                                                       *)
(***************************************************************************)

LEMMA Constants ==
  /\ PromWords \in Nat /\ PromWords > 0 /\ DepthEvery \in Nat \ {0}
  /\ WordMod \in Nat \ {0} /\ Rate \subseteq 0 .. WordMod - 1
BY SensorAssumption

\* A register modulo WordMod.
LEMMA FilterRange ==
  ASSUME NEW a \in Int, NEW r \in Int
  PROVE  Filter(a, r) \in 0 .. WordMod - 1
<1>1. a + r \in Int
  OBVIOUS
<1>. QED BY <1>1, Constants DEF Filter

\* The two wires: what TypeOK says of them.
LineOK ==
  /\ xfer \in {"none", "address", "command", "address_rd", "data"}
  /\ todo \in [read : BOOLEAN, cmd : Cmd]
  /\ bus = IF Idle THEN "free" ELSE "held"

\* TypeOK alone is not inductive: a transfer under way in ms5837_init was
\* begun because a word was missing.
Reading == pc = "prom" /\ ~Idle => words < PromWords

LEMMA BeginLine ==
  ASSUME NEW read \in BOOLEAN, NEW cmd \in Cmd, NEW next, Begin(read, cmd, next)
  PROVE  LineOK' /\ pc' = next
BY DEF Begin, LineOK, Idle

LEMMA SameLine == ASSUME LineOK, UNCHANGED line PROVE LineOK'
BY DEF LineOK, line, Idle

\* The bus is released whenever a transfer ends.
LEMMA TransferLine == ASSUME LineOK, Transfer PROVE LineOK'
<1>. USE DEF LineOK, Idle, Stop
<1>1. CASE Nack
  BY <1>1 DEF Nack
<1>2. CASE Ack
  BY <1>2 DEF Ack
<1>3. CASE Command
  <2>1. todo' \in [read : BOOLEAN, cmd : Cmd]
    BY <1>3 DEF Command, Cmd
  <2>2. CASE todo.read
    BY <1>3, <2>1, <2>2 DEF Command
  <2>3. CASE ~todo.read
    BY <1>3, <2>1, <2>3 DEF Command
  <2>. QED BY <2>2, <2>3
<1>4. CASE Data
  BY <1>4 DEF Data
<1>. QED BY <1>1, <1>2, <1>3, <1>4 DEF Transfer

LEMMA TransferTypes == ASSUME TypeOK, Reading, Transfer PROVE TypeOK'
<1>1. LineOK'
  BY TransferLine DEF TypeOK, LineOK
<1>2. /\ pc' \in {pc, "absent"} /\ faults' \in BOOLEAN
      /\ words' \in 0 .. PromWords /\ {adc', buf'} \subseteq Sample
      /\ UNCHANGED <<imu_ok, depth_ok, poll_ctr, D1, depth,
                     imu_raw, yaw, turned, before>>
  <2>. USE DEF TypeOK, yawing, Sample
  <2>1. CASE Nack
    BY <2>1 DEF Nack, Failed
  <2>2. CASE Ack
    BY <2>2 DEF Ack
  <2>3. CASE Command
    BY <2>3 DEF Command, Accepted
  <2>4. CASE Data
    <3>1. words' \in 0 .. PromWords
      <4>1. CASE pc = "prom"
        BY <2>4, <4>1, Constants DEF Data, Reading, Idle
      <4>2. CASE pc # "prom"
        BY <2>4, <4>2 DEF Data
      <4>. QED BY <4>1, <4>2
    <3>2. {adc', buf'} \subseteq Sample
      BY <2>4 DEF Data
    <3>. QED BY <2>4, <3>1, <3>2 DEF Data
  <2>. QED BY <2>1, <2>2, <2>3, <2>4 DEF Transfer
<1>. QED BY <1>1, <1>2 DEF TypeOK, LineOK

LEMMA InitTypes ==
  ASSUME TypeOK, sensors_init \/ \E found \in BOOLEAN : mpu_init(found)
  PROVE  TypeOK'
<1>1. ASSUME NEW found \in BOOLEAN, mpu_init(found) PROVE TypeOK'
  BY <1>1 DEF mpu_init, TypeOK, Idle, yawing, line
<1>2. CASE sensors_init
  <2>1. LineOK' /\ pc' \in {"reset", "prom", "idle"}
    BY <1>2, BeginLine, SameLine
       DEF sensors_init, ms5837_init, TypeOK, LineOK, Cmd
  <2>2. /\ words' = words /\ depth_ok' \in BOOLEAN
        /\ UNCHANGED <<imu_ok, poll_ctr, adc, buf, D1, depth, faults,
                       imu_raw, yaw, turned, before>>
    BY <1>2 DEF sensors_init, ms5837_init, TypeOK, yawing
  <2>. QED BY <2>1, <2>2 DEF TypeOK, LineOK
<1>. QED BY <1>1, <1>2

LEMMA PollTypes == ASSUME TypeOK, sensors_poll PROVE TypeOK'
<1>1. {imu_raw', yaw', turned', before'} \subseteq 0 .. WordMod - 1
  <2>1. ASSUME NEW rate \in Rate, ReadGyro(rate)
        PROVE  {imu_raw', yaw', turned', before'} \subseteq 0 .. WordMod - 1
    <3>1. rate \in Int /\ imu_raw \in Int /\ yaw \in Int /\ turned \in Int
      BY Constants DEF TypeOK
    <3>2. yaw' \in 0 .. WordMod - 1
      <4>1. Filter(yaw, imu_raw) \in Int
        BY <3>1, FilterRange, Constants
      <4>2. Filter(Filter(yaw, imu_raw), imu_raw) \in Int
        BY <3>1, <4>1, FilterRange, Constants
      <4>. QED BY <2>1, <3>1, <4>2, FilterRange DEF ReadGyro
    <3>3. turned' \in 0 .. WordMod - 1
      BY <2>1, <3>1, FilterRange DEF ReadGyro, Filter
    <3>. QED BY <2>1, <3>2, <3>3, Constants DEF ReadGyro, TypeOK
  <2>. QED BY <2>1 DEF sensors_poll, yawing, TypeOK
<1>2. poll_ctr' \in 0 .. DepthEvery - 1
  <2>1. (poll_ctr + 1) % DepthEvery \in 0 .. DepthEvery - 1
    BY Constants DEF TypeOK
  <2>. QED BY <2>1 DEF sensors_poll, TypeOK
<1>3. pc' \in {pc, "convert"} /\ faults' \in {faults, FALSE}
  BY DEF sensors_poll
<1>4. {adc', buf', D1'} \subseteq Sample
  BY DEF sensors_poll, TypeOK, Sample
<1>5. depth' = depth /\ imu_ok' = imu_ok /\ depth_ok' = depth_ok /\ words' = words
  BY DEF sensors_poll
<1>6. xfer' = xfer /\ todo' = todo /\ bus' = bus
  BY DEF sensors_poll, line
<1>. QED BY <1>1, <1>2, <1>3, <1>4, <1>5, <1>6 DEF TypeOK, Idle

LEMMA ConvertTypes == ASSUME TypeOK, Convert PROVE TypeOK'
<1>1. depth' = None \/ depth' \in Sample \X Sample
  <2>1. depth' = depth \/ depth' = <<D1, buf>>
    BY DEF Convert, ms5837_convert
  <2>. QED BY <2>1 DEF TypeOK
<1>2. D1' \in Sample
  BY DEF Convert, ms5837_convert, TypeOK
<1>3. LineOK' /\ pc' \in {"read1", "first", "read2", "publish", "idle"}
  BY BeginLine, SameLine DEF Convert, ms5837_convert, TypeOK, LineOK, Cmd
<1>4. UNCHANGED <<words, poll_ctr, imu_ok, depth_ok, faults, adc, buf,
                  imu_raw, yaw, turned, before>>
  BY DEF Convert, yawing
<1>. QED BY <1>1, <1>2, <1>3, <1>4 DEF TypeOK, LineOK

\* Ranges, and the bus: it is held exactly while a transaction is under way,
\* however it ends.
THEOREM TypeCorrect == Spec => []TypeOK
<1>1. Init => TypeOK
  <2> SUFFICES ASSUME Init PROVE TypeOK
    OBVIOUS
  <2>1. 0 \in 0 .. PromWords /\ 0 \in 0 .. DepthEvery - 1 /\ 0 \in 0 .. WordMod - 1
    BY Constants
  <2>2. todo \in [read : BOOLEAN, cmd : Cmd]
    BY DEF Init, Cmd
  <2>. QED BY <2>1, <2>2 DEF Init, TypeOK, Idle, Sample
<1>2. TypeOK /\ Reading /\ [Next]_vars => TypeOK'
  <2> SUFFICES ASSUME TypeOK, Reading, [Next]_vars PROVE TypeOK'
    OBVIOUS
  <2>1. CASE Transfer
    BY <2>1, TransferTypes
  <2>2. CASE sensors_init \/ \E found \in BOOLEAN : mpu_init(found)
    BY <2>2, InitTypes
  <2>3. CASE sensors_poll
    BY <2>3, PollTypes
  <2>4. CASE Convert
    BY <2>4, ConvertTypes
  <2>5. CASE Reset
    <3>1. 0 \in 0 .. PromWords /\ 0 \in 0 .. DepthEvery - 1 /\ 0 \in 0 .. WordMod - 1
      BY Constants
    <3>2. todo' \in [read : BOOLEAN, cmd : Cmd]
      BY <2>5 DEF Reset, Cmd
    <3>. QED BY <2>5, <3>1, <3>2 DEF Reset, TypeOK, Idle, Sample
  <2>6. CASE UNCHANGED vars
    BY <2>6 DEF vars, yawing, TypeOK, Idle
  <2>. QED BY <2>1, <2>2, <2>3, <2>4, <2>5, <2>6 DEF Next, Run
<1>3. Init => Reading
  BY DEF Init, Reading
<1>4. TypeOK /\ Reading /\ [Next]_vars => Reading'
  <2> SUFFICES ASSUME TypeOK, Reading, [Next]_vars PROVE Reading'
    OBVIOUS
  <2>. USE DEF Reading, Idle
  <2>1. CASE Transfer
    BY <2>1 DEF Transfer, Nack, Ack, Command, Data, Stop, Failed
  <2>2. CASE sensors_init
    BY <2>2 DEF sensors_init, ms5837_init, Begin, line
  <2>3. CASE \E found \in BOOLEAN : mpu_init(found)
    BY <2>3 DEF mpu_init
  <2>4. CASE sensors_poll
    BY <2>4 DEF sensors_poll, line
  <2>5. CASE Convert
    BY <2>5 DEF Convert, ms5837_convert, Begin
  <2>6. CASE Reset
    BY <2>6 DEF Reset
  <2>7. CASE UNCHANGED vars
    BY <2>7 DEF vars, line
  <2>. QED BY <2>1, <2>2, <2>3, <2>4, <2>5, <2>6, <2>7 DEF Next, Run
<1>. QED BY <1>1, <1>2, <1>3, <1>4, PTL DEF Spec

(***************************************************************************)
(* A clean conversion                                                      *)
(***************************************************************************)

\* Where a sample is while nothing has gone wrong: on its way to the device
\* as a command, in the device, in the driver's buffer, in D1.
Starting(sample) ==
  IF Idle THEN adc = sample
  ELSE xfer \in {"address", "command"} /\ todo = [read |-> FALSE, cmd |-> sample]

Fetching(sample) ==
  IF Idle THEN buf = sample
  ELSE todo = [read |-> TRUE, cmd |-> "adc_read"] /\ adc = sample

InPlace ==
  ~faults =>
    /\ pc = "read1" => Starting("D1")
    /\ pc = "first" => Fetching("D1")
    /\ pc = "read2" => Starting("D2") /\ D1 = "D1"
    /\ pc = "publish" => Fetching("D2") /\ D1 = "D1"

\* A conversion in which no transfer failed publishes the two samples it
\* ordered, wherever the start, a reset or a lost byte left the device before.
THEOREM CleanConversion == Spec => SamplesPaired
<1>1. Init => InPlace
  BY DEF Init, InPlace
<1>2. TypeOK /\ InPlace /\ [Next]_vars => InPlace'
  <2> SUFFICES ASSUME TypeOK, InPlace, [Next]_vars PROVE InPlace'
    OBVIOUS
  <2>. USE DEF InPlace, Starting, Fetching, Idle
  <2>1. CASE Nack
    BY <2>1 DEF Nack
  <2>2. CASE Ack
    BY <2>2 DEF Ack
  <2>3. CASE Command
    BY <2>3 DEF Command, Accepted, Stop
  <2>4. CASE Data
    BY <2>4 DEF Data, Stop
  <2>5. CASE \E found \in BOOLEAN : mpu_init(found)
    BY <2>5 DEF mpu_init
  <2>6. CASE sensors_init
    BY <2>6 DEF sensors_init, ms5837_init, Begin
  <2>7. CASE sensors_poll
    BY <2>7 DEF sensors_poll
  <2>8. CASE Convert
    BY <2>8 DEF Convert, ms5837_convert, Begin, TypeOK
  <2>9. CASE Reset
    BY <2>9 DEF Reset
  <2>10. CASE UNCHANGED vars
    BY <2>10 DEF vars, line
  <2>. QED BY <2>1, <2>2, <2>3, <2>4, <2>5, <2>6, <2>7, <2>8, <2>9, <2>10
       DEF Next, Run, Transfer
<1>3. InPlace /\ [Next]_vars
        => [pc = "publish" /\ pc' = "idle" /\ ~faults => depth' = Good]_vars
  <2> SUFFICES ASSUME InPlace, pc = "publish", pc' = "idle", ~faults, Next
               PROVE  depth' = Good
    BY DEF vars
  <2>1. Convert /\ Idle
    BY DEF Next, Run, Transfer, Nack, Ack, Command, Data, Failed, mpu_init,
           sensors_init, ms5837_init, Begin, sensors_poll, Convert,
           ms5837_convert, Reset
  <2>2. buf = "D2" /\ D1 = "D1"
    BY <2>1 DEF InPlace, Fetching
  <2>. QED BY <2>1, <2>2 DEF Convert, ms5837_convert, Good
<1>. QED BY <1>1, <1>2, <1>3, TypeCorrect, PTL DEF Spec, SamplesPaired

(***************************************************************************)
(* Yaw                                                                     *)
(***************************************************************************)

\* Division with remainder.
LEMMA Divided ==
  ASSUME NEW m \in Int, m > 0, NEW a \in Int
  PROVE  \E q \in Int, r \in 0 .. m - 1 : r = a % m /\ m * q = a - r
<1>1. m * (a \div m) = a - (a % m)
  OBVIOUS
<1>2. a \div m \in Int /\ a % m \in 0 .. m - 1
  OBVIOUS
<1>. QED BY <1>1, <1>2

\* A multiple of m other than 0 is at least m away from 0.
LEMMA Multiple ==
  ASSUME NEW m \in Int, m > 0, NEW d \in Int
  PROVE  /\ m * d \in Int
         /\ d >= 1 => m * d >= m
         /\ d <= -1 => m * d <= -m
<1>1. d >= 1 => m * (d - 1) >= 0
  OBVIOUS
<1>2. d <= -1 => m * (-1 - d) >= 0
  OBVIOUS
<1>3. m * (d - 1) = m * d - m /\ m * (-1 - d) = -m - m * d /\ m * d \in Int
  OBVIOUS
<1>. QED BY <1>1, <1>2, <1>3

\* The remainder is the only number below m that differs by a multiple of m.
LEMMA RemainderUnique ==
  ASSUME NEW m \in Int, m > 0, NEW a \in Int, NEW q \in Int, NEW r \in 0 .. m - 1,
         m * q = a - r
  PROVE  a % m = r
<1>1. PICK p \in Int, s \in 0 .. m - 1 : s = a % m /\ m * p = a - s
  BY Divided
<1>2. m * (p - q) = r - s
  <2>1. m * (p - q) = m * p - m * q
    OBVIOUS
  <2>. QED BY <1>1, <2>1
<1>3. ~(p - q >= 1) /\ ~(p - q <= -1)
  <2>1. p - q \in Int
    OBVIOUS
  <2>. QED BY <1>2, <2>1, Multiple
<1>4. p = q
  BY <1>3
<1>. QED BY <1>1, <1>4

\* A summand may be reduced first.
LEMMA ReduceFirst ==
  ASSUME NEW m \in Int, m > 0, NEW a \in Int, NEW b \in Int
  PROVE  ((a % m) + b) % m = (a + b) % m
<1>1. PICK q \in Int, r \in 0 .. m - 1 : r = a % m /\ m * q = a - r
  BY Divided
<1>2. PICK t \in Int, u \in 0 .. m - 1 : u = (r + b) % m /\ m * t = r + b - u
  <2>1. r + b \in Int
    OBVIOUS
  <2>. QED BY <2>1, Divided
<1>3. m * (q + t) = a + b - u
  <2>1. m * (q + t) = m * q + m * t
    OBVIOUS
  <2>2. m * q + m * t = (a - r) + (r + b - u)
    BY <1>1, <1>2
  <2>3. (a - r) + (r + b - u) = a + b - u
    OBVIOUS
  <2>. QED BY <2>1, <2>2, <2>3
<1>4. (a + b) % m = u
  <2>1. PICK c \in Int, p \in Int : c = a + b /\ p = q + t
    OBVIOUS
  <2>2. m * p = c - u
    BY <1>3, <2>1
  <2>3. c % m = u
    BY <2>2, RemainderUnique
  <2>. QED BY <2>1, <2>3
<1>. QED BY <1>1, <1>2, <1>4

\* So may the number of which three times are added.
LEMMA ReduceTripled ==
  ASSUME NEW m \in Int, m > 0, NEW a \in Int, NEW b \in Int
  PROVE  (3 * (a % m) + b) % m = (3 * a + b) % m
<1>1. PICK r \in Int : r = a % m
  OBVIOUS
<1>2. (3 * r + b) % m = (a + (2 * r + b)) % m
  <2>1. (r + (2 * r + b)) % m = (a + (2 * r + b)) % m
    BY <1>1, ReduceFirst, 2 * r + b \in Int
  <2>. QED BY <2>1, r + (2 * r + b) = 3 * r + b
<1>3. (a + (2 * r + b)) % m = (2 * a + r + b) % m
  <2>1. (r + (a + r + b)) % m = (a + (a + r + b)) % m
    BY <1>1, ReduceFirst, a + r + b \in Int
  <2>. QED BY <2>1, r + (a + r + b) = a + (2 * r + b), a + (a + r + b) = 2 * a + r + b
<1>4. (2 * a + r + b) % m = (3 * a + b) % m
  <2>1. (r + (2 * a + b)) % m = (a + (2 * a + b)) % m
    BY <1>1, ReduceFirst, 2 * a + b \in Int
  <2>. QED BY <2>1, r + (2 * a + b) = 2 * a + r + b, a + (2 * a + b) = 3 * a + b
<1>. QED BY <1>1, <1>2, <1>3, <1>4

\* YawTripled for all constants: the lost and repeated strobes of a poll cancel
\* out over any number of polls and resets.
THEOREM YawIsThreeTimes == Spec => []YawTripled
<1>. DEFINE Typed == {imu_raw, yaw, turned, before} \subseteq Int /\ Rate \subseteq Int
<1>c. WordMod \in Int /\ WordMod > 0
  BY Constants
<1>1. TypeOK => Typed
  BY Constants DEF TypeOK
<1>2. Init => YawTripled
  <2>1. 0 % WordMod = 0
    BY <1>c, RemainderUnique, WordMod * 0 = 0
  <2>. QED BY <2>1 DEF Init, YawTripled
<1>3. YawTripled /\ Typed /\ [Next]_vars => YawTripled'
  <2> SUFFICES ASSUME YawTripled, Typed, [Next]_vars PROVE YawTripled'
    OBVIOUS
  <2>1. ASSUME NEW rate \in Rate, ReadGyro(rate) PROVE YawTripled'
    <3>. DEFINE m == WordMod
                y == 3 * turned + 2 * before - 2 * imu_raw
    <3>1. rate \in Int /\ y \in Int /\ turned \in Int /\ imu_raw \in Int /\ before \in Int
      <4>1. rate \in Int /\ turned \in Int /\ imu_raw \in Int /\ before \in Int
        OBVIOUS
      <4>. QED BY <4>1
    <3>2. yaw' = ((((((yaw + imu_raw) % m) + imu_raw) % m) + rate) % m)
      BY <2>1 DEF ReadGyro, Filter
    <3>3. yaw' = (y + imu_raw + imu_raw + rate) % m
      <4>. HIDE DEF y, m
      <4>1. yaw = y % m
        BY DEF y, m, YawTripled
      <4>2. (yaw + imu_raw) % m = (y + imu_raw) % m
        BY <3>1, <4>1, <1>c, ReduceFirst DEF m
      <4>3. (((y + imu_raw) % m) + imu_raw) % m = (y + imu_raw + imu_raw) % m
        BY <3>1, <1>c, ReduceFirst, y + imu_raw \in Int DEF m
      <4>4. (((y + imu_raw + imu_raw) % m) + rate) % m = (y + imu_raw + imu_raw + rate) % m
        BY <3>1, <1>c, ReduceFirst, y + imu_raw + imu_raw \in Int DEF m
      <4>. QED BY <3>2, <4>2, <4>3, <4>4
    <3>4. YawTripled' <=> yaw' = (3 * ((turned + rate) % m) + (2 * before - 2 * rate)) % m
      <4>1. turned' = (turned + rate) % m /\ before' = before /\ imu_raw' = rate
        BY <2>1 DEF ReadGyro
      <4>2. turned' \in Int
        BY <4>1, <3>1, <1>c
      <4>3. 3 * turned' + 2 * before - 2 * rate = 3 * turned' + (2 * before - 2 * rate)
        BY <3>1, <4>2
      <4>. QED BY <4>1, <4>3 DEF YawTripled
    <3>5. (3 * ((turned + rate) % m) + (2 * before - 2 * rate)) % m
            = (3 * (turned + rate) + (2 * before - 2 * rate)) % m
      BY <1>c, <3>1, ReduceTripled, turned + rate \in Int, 2 * before - 2 * rate \in Int
    <3>6. 3 * (turned + rate) + (2 * before - 2 * rate) = y + imu_raw + imu_raw + rate
      BY <3>1
    <3>. QED BY <3>3, <3>4, <3>5, <3>6
  <2>2. CASE Reset
    <3>1. yaw' = 0 /\ 3 * turned' + 2 * before' - 2 * imu_raw' = 0
      BY <2>2 DEF Reset
    <3>2. 0 % WordMod = 0
      BY <1>c, RemainderUnique, WordMod * 0 = 0
    <3>. QED BY <3>1, <3>2 DEF YawTripled
  <2>3. CASE UNCHANGED yawing
    BY <2>3 DEF yawing, YawTripled
  <2>4. (\E rate \in Rate : ReadGyro(rate)) \/ Reset \/ UNCHANGED yawing
    BY DEF Next, Run, Transfer, Nack, Ack, Command, Data, mpu_init, sensors_init,
           sensors_poll, Convert, vars, yawing
  <2>. QED BY <2>1, <2>2, <2>3, <2>4
<1>. QED BY <1>1, <1>2, <1>3, TypeCorrect, PTL DEF Spec

(***************************************************************************)
(* The ramp                                                                *)
(***************************************************************************)

LEMMA SweepConstants ==
  /\ Half \in Nat \ {0}
  /\ SlowSteps \in Nat /\ LastStep \in Nat /\ 0 < SlowSteps /\ SlowSteps < LastStep
  /\ SlowDelta \in Nat /\ FastDelta \in Nat /\ 0 < SlowDelta /\ 0 < FastDelta
  /\ SlowTime \in Nat /\ FastTime \in Nat /\ PauseTime \in Nat
  /\ PassTime \subseteq Nat /\ MaxLag \in Nat
  /\ Manual \subseteq Int16
BY SweepAssumption DEF Half

\* A multiple grows with its factor.
LEMMA Grows ==
  ASSUME NEW a \in Nat, NEW b \in Nat, NEW c \in Nat, a <= b
  PROVE  a * c \in Nat /\ a * c <= b * c
<1>1. (b - a) * c >= 0 /\ a * c >= 0
  OBVIOUS
<1>2. b * c = a * c + (b - a) * c
  OBVIOUS
<1>. QED BY <1>1, <1>2

\* Every setpoint of the ramp fits a register.
LEMMA RampFits ==
  ASSUME NEW n \in 0 .. LastStep
  PROVE  Ramp(n) \in Nat /\ Ramp(n) < Half
<1>1. SlowSteps * SlowDelta \in Nat /\ (LastStep - SlowSteps) * FastDelta \in Nat
  BY SweepConstants
<1>2. SlowSteps * SlowDelta + (LastStep - SlowSteps) * FastDelta < Half
  BY SweepAssumption
<1>3. CASE n <= SlowSteps
  <2>1. n * SlowDelta \in Nat /\ n * SlowDelta <= SlowSteps * SlowDelta
    BY <1>3, Grows, SweepConstants
  <2>. QED BY <1>1, <1>2, <1>3, <2>1, SweepConstants DEF Ramp
<1>4. CASE n > SlowSteps
  <2>1. /\ (n - SlowSteps) * FastDelta \in Nat
        /\ (n - SlowSteps) * FastDelta <= (LastStep - SlowSteps) * FastDelta
    <3>1. n - SlowSteps \in Nat /\ LastStep - SlowSteps \in Nat
          /\ n - SlowSteps <= LastStep - SlowSteps
      BY <1>4, SweepConstants
    <3>. QED BY <3>1, Grows, SweepConstants
  <2>. QED BY <1>1, <1>2, <1>4, <2>1, SweepConstants DEF Ramp
<1>. QED BY <1>3, <1>4, SweepConstants

\* The size of a fast step fits, too.
LEMMA FastDeltaFits == FastDelta < Half
<1>1. SlowSteps * SlowDelta \in Nat
  BY SweepConstants
<1>2. 1 * FastDelta <= (LastStep - SlowSteps) * FastDelta
  <2>1. 1 \in Nat /\ LastStep - SlowSteps \in Nat /\ 1 <= LastStep - SlowSteps
    BY SweepConstants
  <2>. QED BY <2>1, Grows, SweepConstants
<1>3. (LastStep - SlowSteps) * FastDelta \in Int
  BY SweepConstants
<1>. QED BY <1>1, <1>2, <1>3, SweepConstants, SweepAssumption

\* One more step adds the size of a step (main.c:395-396).
LEMMA RampStep ==
  ASSUME NEW n \in 0 .. LastStep - 1
  PROVE  Ramp(n + 1) = Ramp(n) + IF n < SlowSteps THEN SlowDelta ELSE FastDelta
<1>1. CASE n < SlowSteps
  <2>1. (n + 1) * SlowDelta = n * SlowDelta + SlowDelta
    BY SweepConstants
  <2>. QED BY <1>1, <2>1, SweepConstants DEF Ramp
<1>2. CASE n = SlowSteps
  BY <1>2, SweepConstants DEF Ramp
<1>3. CASE n > SlowSteps
  <2>1. (n + 1 - SlowSteps) * FastDelta = (n - SlowSteps) * FastDelta + FastDelta
    BY SweepConstants
  <2>. QED BY <1>3, <2>1, SweepConstants DEF Ramp
<1>. QED BY <1>1, <1>2, <1>3, SweepConstants

\* A number that fits is not changed by the register's width.
LEMMA WrapFits ==
  ASSUME NEW n \in Int16
  PROVE  Wrap16(n) = n
BY SweepConstants DEF Wrap16, Int16

(***************************************************************************)
(* The sweep                                                               *)
(***************************************************************************)

\* The direction turns at both ends of the ramp.
Turns ==
  /\ g_mt_dir = 0 => g_mt_step < LastStep
  /\ g_mt_dir = 1 => g_mt_step > 0

SweepInv == SweepTypeOK /\ NoDrift /\ Turns

LEMMA StartInv ==
  ASSUME SweepInv, StartSweep \/ StopSweep \/ Reinit \/ ManualSetpoint
  PROVE  SweepInv'
<1>1. 0 \in Int16 /\ 0 \in 0 .. LastStep /\ 0 \in 0 .. MaxLag /\ Ramp(0) = 0
  BY SweepConstants DEF Int16, Ramp
<1>2. CASE StartSweep
  <2>1. g_mt_dir' = 0 /\ g_mt_step' = 0 /\ g_mt_sp' = 0 /\ lag' = 0
    BY <1>2 DEF StartSweep
  <2>2. NoDrift'
    BY <1>1, <2>1 DEF NoDrift, Ramp
  <2>3. SweepTypeOK'
    BY <1>1, <1>2, <2>1 DEF SweepInv, SweepTypeOK, StartSweep
  <2>. QED BY <2>1, <2>2, <2>3, SweepConstants DEF SweepInv, Turns
<1>3. CASE StopSweep
  BY <1>1, <1>3 DEF SweepInv, SweepTypeOK, NoDrift, Turns, StopSweep, Ramp, sweep
<1>4. CASE Reinit
  BY <1>1, <1>4 DEF SweepInv, SweepTypeOK, NoDrift, Turns, Reinit, Ramp, sweep
<1>5. CASE ManualSetpoint
  BY <1>5, SweepConstants DEF SweepInv, SweepTypeOK, NoDrift, Turns, ManualSetpoint, Ramp, sweep
<1>. QED BY <1>2, <1>3, <1>4, <1>5

LEMMA StepUpInv ==
  ASSUME SweepInv, NEW d \in PassTime, lag + d <= MaxLag, StepUp(d)
  PROVE  SweepInv'
<1>0. /\ g_mt_dir = 0 /\ g_mt_step \in 0 .. LastStep - 1
      /\ lag \in 0 .. MaxLag /\ lag + d >= StepTime
  BY SweepConstants DEF SweepInv, SweepTypeOK, Turns, StepUp, StepDue
<1>1. /\ g_mt_dir = 0 /\ g_mt_step \in 0 .. LastStep - 1 /\ g_mt_sp = Ramp(g_mt_step)
      /\ lag \in 0 .. MaxLag /\ lag + d >= StepTime
  BY <1>0, RampFits, SweepConstants DEF SweepInv, NoDrift
<1>2. g_mt_sp + Delta = Ramp(g_mt_step + 1)
  BY <1>1, RampStep, SweepConstants DEF Delta
<1>3. Ramp(g_mt_step + 1) \in Int16
  BY <1>1, RampFits, SweepConstants DEF Int16
<1>4. g_mt_sp' = Ramp(g_mt_step + 1) /\ g_mt_step' = g_mt_step + 1
  BY <1>2, <1>3, WrapFits DEF StepUp
<1>5. lag' \in 0 .. MaxLag
  BY <1>1, SweepConstants DEF StepUp, StepTime
<1>6. /\ g_mt_dir' \in {0, 1} /\ g_mt_step' \in 0 .. LastStep /\ g_mt_step' > 0
      /\ g_mt_dir' = 0 => g_mt_step' < LastStep
      /\ g_mt_dir' = 1 => g_mt_step' >= LastStep
  BY <1>1, SweepConstants DEF StepUp
<1>7. NoDrift'
  BY <1>1, <1>4, <1>6, RampFits, SweepConstants DEF NoDrift, Ramp
<1>8. SweepTypeOK'
  BY <1>3, <1>4, <1>5, <1>6 DEF SweepInv, SweepTypeOK, StepUp
<1>. QED BY <1>6, <1>7, <1>8 DEF SweepInv, Turns

LEMMA StepDownInv ==
  ASSUME SweepInv, NEW d \in PassTime, lag + d <= MaxLag, StepDown(d)
  PROVE  SweepInv'
<1>1. /\ g_mt_dir = 1 /\ g_mt_step \in 1 .. LastStep
      /\ lag \in 0 .. MaxLag /\ lag + d >= StepTime
  BY SweepConstants DEF SweepInv, SweepTypeOK, Turns, StepDown, StepDue
<1>2. CASE g_mt_step <= 1
  <2>1. g_mt_step' = 0 /\ g_mt_sp' = 0 /\ g_mt_dir' = 0 /\ lag' = 0 /\ g_mt_pause' = TRUE
    BY <1>1, <1>2 DEF StepDown
  <2>2. 0 \in Int16 /\ 0 \in 0 .. LastStep /\ 0 \in 0 .. MaxLag /\ Ramp(0) = 0
    BY SweepConstants DEF Int16, Ramp
  <2>. QED BY <2>1, <2>2, SweepConstants
       DEF SweepInv, SweepTypeOK, NoDrift, Turns, StepDown, Ramp
<1>3. CASE g_mt_step > 1
  <2>. DEFINE below == g_mt_step - 1
              shift == IF below < SlowSteps THEN FastDelta - SlowDelta ELSE 0
  <2>1. /\ g_mt_step' = below /\ g_mt_dir' = 1 /\ below \in 1 .. LastStep - 1
        /\ g_mt_sp' = Wrap16(g_mt_sp - Delta) /\ lag' = lag + d - StepTime
        /\ g_mt_pause' = g_mt_pause
    BY <1>1, <1>3, SweepConstants DEF StepDown
  <2>2. /\ Ramp(below) \in Nat /\ Ramp(below) < Half
        /\ Ramp(g_mt_step) \in Nat /\ Ramp(g_mt_step) < Half
    BY <1>1, <2>1, RampFits, SweepConstants
  <2>3. Ramp(g_mt_step) = Ramp(below) + IF below < SlowSteps THEN SlowDelta ELSE FastDelta
    <3>1. below \in 0 .. LastStep - 1 /\ below + 1 = g_mt_step
      BY <1>1, <1>3, SweepConstants
    <3>. HIDE DEF below
    <3>. QED BY <3>1, RampStep
  <2>4. g_mt_sp = Ramp(g_mt_step) -
          IF g_mt_step < SlowSteps THEN FastDelta - SlowDelta ELSE 0
    BY <1>1 DEF SweepInv, NoDrift
  <2>5. g_mt_sp - Delta = Ramp(below) - shift
    <3>1. CASE g_mt_step < SlowSteps
      BY <1>1, <2>2, <2>3, <2>4, <3>1, SweepConstants DEF Delta
    <3>2. CASE g_mt_step >= SlowSteps /\ below < SlowSteps
      BY <1>1, <2>2, <2>3, <2>4, <3>2, SweepConstants DEF Delta
    <3>3. CASE below >= SlowSteps
      BY <1>1, <2>2, <2>3, <2>4, <3>3, SweepConstants DEF Delta
    <3>. QED BY <1>1, <3>1, <3>2, <3>3, SweepConstants
  <2>6. Ramp(below) - shift \in Int16
    BY <2>2, <2>3, FastDeltaFits, SweepConstants DEF Int16
  <2>7. g_mt_sp' = Ramp(below) - shift
    BY <2>1, <2>5, <2>6, WrapFits
  <2>8. lag' \in 0 .. MaxLag
    BY <1>1, <2>1, SweepConstants DEF StepTime
  <2>9. NoDrift'
    BY <2>1, <2>7 DEF NoDrift, Ramp
  <2>. QED BY <2>1, <2>6, <2>7, <2>8, <2>9, SweepConstants
       DEF SweepInv, SweepTypeOK, Turns, StepDown
<1>. QED BY <1>1, <1>2, <1>3

LEMMA LoopInv == ASSUME SweepInv, Loop PROVE SweepInv'
<1>1. PICK d \in PassTime :
        lag + d <= MaxLag /\ (Pass(d) \/ PauseOver(d) \/ StepUp(d) \/ StepDown(d))
  BY DEF Loop
<1>2. CASE Pass(d)
  <2>1. UNCHANGED <<g_motor_test, sweep, control_sp, full>> /\ lag' = lag + d
    BY <1>2 DEF Pass
  <2>2. NoDrift' /\ Turns'
    BY <2>1 DEF SweepInv, NoDrift, Turns, Ramp, sweep
  <2>3. SweepTypeOK'
    BY <1>1, <2>1, SweepConstants DEF SweepInv, SweepTypeOK, sweep
  <2>. QED BY <2>2, <2>3 DEF SweepInv
<1>3. CASE PauseOver(d)
  <2>1. /\ UNCHANGED <<g_motor_test, g_mt_dir, g_mt_step, g_mt_sp, control_sp, full>>
        /\ lag' = 0
    BY <1>3 DEF PauseOver
  <2>2. NoDrift' /\ Turns'
    BY <2>1 DEF SweepInv, NoDrift, Turns, Ramp
  <2>3. g_mt_pause' \in BOOLEAN
    BY <1>3 DEF PauseOver
  <2>4. lag' \in 0 .. MaxLag
    BY <2>1, SweepConstants
  <2>5. SweepTypeOK'
    BY <2>1, <2>3, <2>4 DEF SweepInv, SweepTypeOK
  <2>. QED BY <2>2, <2>5 DEF SweepInv
<1>. QED BY <1>1, <1>2, <1>3, StepUpInv, StepDownInv

\* Ranges and the shape of the sweep need each other: the register does not
\* wrap because the ramp fits, and the ramp is followed because the register
\* does not wrap.
LEMMA SweepKeeps == SweepSpec => []SweepInv
<1>1. SweepInit => SweepInv
  <2>1. 0 \in Int16 /\ 0 \in 0 .. LastStep /\ 0 \in 0 .. MaxLag /\ Ramp(0) = 0
    BY SweepConstants DEF Int16, Ramp
  <2> SUFFICES ASSUME SweepInit PROVE SweepInv
    OBVIOUS
  <2>2. NoDrift /\ Turns
    BY <2>1, SweepConstants DEF SweepInit, NoDrift, Turns
  <2>3. SweepTypeOK
    BY <2>1 DEF SweepInit, SweepTypeOK
  <2>. QED BY <2>2, <2>3 DEF SweepInv
<1>2. SweepInv /\ [SweepNext]_sweepVars => SweepInv'
  <2> SUFFICES ASSUME SweepInv, [SweepNext]_sweepVars PROVE SweepInv'
    OBVIOUS
  <2>1. CASE StartSweep \/ StopSweep \/ Reinit \/ ManualSetpoint
    BY <2>1, StartInv
  <2>2. CASE Loop
    BY <2>2, LoopInv
  <2>3. CASE UNCHANGED sweepVars
    BY <2>3 DEF sweepVars, sweep, SweepInv, SweepTypeOK, NoDrift, Turns, Ramp
  <2>. QED BY <2>1, <2>2, <2>3 DEF SweepNext
<1>. QED BY <1>1, <1>2, PTL DEF SweepSpec

\* The sweep's variables keep their ranges, and now - g_mt_next never wraps.
THEOREM SweepTypeCorrect == SweepSpec => []SweepTypeOK
<1>1. SweepInv => SweepTypeOK
  BY DEF SweepInv
<1>. QED BY <1>1, SweepKeeps, PTL

\* In every cycle the setpoint is the same function of step and direction,
\* whatever stopped, restarted, blocked or overwrote the cycles before.
THEOREM CyclesAlike == SweepSpec => []NoDrift
<1>1. SweepInv => NoDrift
  BY DEF SweepInv
<1>. QED BY <1>1, SweepKeeps, PTL
=============================================================================
