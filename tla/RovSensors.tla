----------------------------- MODULE RovSensors -----------------------------
(***************************************************************************)
(* The sensor drivers of sensors.c with the blocks of the core they feed:  *)
(* the MS5837 depth sensor on the two-wire bus, whose transactions may     *)
(* fail at every byte, the gyroscope, and the yaw integrator and depth     *)
(* register behind the commands 0x7 and 0xA.                               *)
(*                                                                         *)
(* The bus is modelled byte by byte: START, address, command, and for a    *)
(* read a repeated START, the address again and the data.  The library     *)
(* (external) reports whether a byte was acknowledged; twi_wr and twi_rd   *)
(* look at that for addresses only.  The device (external) answers a read  *)
(* with the result of its last conversion, once, and with zeros otherwise. *)
(* The gyroscope's transfers cannot fail: without a device the bus reads   *)
(* as a constant.  Roll and pitch have a filter of their own and are left  *)
(* out; the compensation formula is a function of the two samples.         *)
(***************************************************************************)
EXTENDS Integers

CONSTANTS
  PromWords,   \* calibration words read at start
  DepthEvery,  \* polls per depth conversion
  Rate,        \* yaw rates the gyroscope may report, s1.14
  WordMod      \* registers hold numbers modulo WordMod (2^16)

ASSUME SensorAssumption ==
  /\ PromWords \in Nat \ {0} /\ DepthEvery \in Nat \ {0}
  /\ WordMod \in Nat \ {0} /\ Rate \subseteq 0 .. WordMod - 1

VARIABLES
  pc,         \* what the program does next, outside a transaction
  xfer,       \* phase of the transaction under way, or "none"
  todo,       \* its kind and command, [read, cmd]
  bus,        \* "free", or "held" from START to STOP
  words,      \* calibration words read so far
  imu_ok, depth_ok, poll_ctr,
  adc,        \* the device's unread result
  buf,        \* the driver's three bytes
  D1,         \* the first sample of this conversion
  depth,      \* the samples behind depth_cm, or None after reset
  imu_raw,    \* imu_raw(5), the last yaw rate written
  yaw,        \* imu_yaw
  turned,     \* history: sum of the rates of all polls since reset
  before,     \* history: imu_raw at the last reset
  faults      \* history: has a byte of this conversion or start gone wrong

line   == <<xfer, todo, bus>>
yawing == <<imu_raw, yaw, turned, before>>
vars   == <<pc, xfer, todo, bus, words, imu_ok, depth_ok, poll_ctr, adc, buf, D1,
            depth, imu_raw, yaw, turned, before, faults>>

\* Samples: of this conversion, of an earlier one, no conversion, stack bytes.
Sample == {"D1", "D2", "old", "zero", "junk"}
Cmd == {"reset", "prom", "D1", "D2", "adc_read", "lost"}
None == <<>>
Good == <<"D1", "D2">>

Idle == xfer = "none"

----------------------------------------------------------------------------
(* Transactions. *)

\* The program calls twi_wr or twi_rd and goes on at next.
Begin(read, cmd, next) ==
  /\ Idle
  /\ bus' = "held" /\ xfer' = "address" /\ todo' = [read |-> read, cmd |-> cmd]
  /\ pc' = next

Stop == bus' = "free" /\ xfer' = "none"

\* Where a missing acknowledgement sends the program: ms5837_init gives up,
\* ms5837_convert does not look.
Failed == pc' = IF pc \in {"reset", "prom"} THEN "absent" ELSE pc

\* Mutant: the early return forgets the STOP.
Nack_NoStop ==
  /\ xfer \in {"address", "address_rd"}
  /\ xfer' = "none" /\ UNCHANGED <<bus, todo>>
  /\ Failed /\ faults' = TRUE
  /\ UNCHANGED <<words, imu_ok, depth_ok, poll_ctr, adc, buf, D1, depth, yawing>>

\* An address without acknowledgement: STOP and return -1.
Nack ==
  /\ xfer \in {"address", "address_rd"}
  /\ Stop /\ UNCHANGED todo
  /\ Failed /\ faults' = TRUE
  /\ UNCHANGED <<words, imu_ok, depth_ok, poll_ctr, adc, buf, D1, depth, yawing>>

Ack ==
  /\ xfer \in {"address", "address_rd"}
  /\ xfer' = IF xfer = "address" THEN "command" ELSE "data"
  /\ UNCHANGED <<pc, todo, bus, words, imu_ok, depth_ok, poll_ctr, adc, buf, D1,
                 depth, yawing, faults>>

\* The effect of an accepted command on the device.
Accepted(cmd) ==
  IF cmd \in {"D1", "D2"} THEN cmd ELSE IF cmd = "reset" THEN "zero" ELSE adc

\* The command byte, whose acknowledgement nobody looks at: a write ends, a
\* read goes on with a repeated START and the address.
Command ==
  /\ xfer = "command"
  /\ \/ adc' = Accepted(todo.cmd) /\ UNCHANGED <<todo, faults>>
     \/ todo' = [read |-> todo.read, cmd |-> "lost"] /\ faults' = TRUE /\ UNCHANGED adc
  /\ IF todo.read THEN xfer' = "address_rd" /\ UNCHANGED bus ELSE Stop
  /\ UNCHANGED <<pc, words, imu_ok, depth_ok, poll_ctr, buf, D1, depth, yawing>>

\* The data bytes, of a calibration word or of a conversion.
Data ==
  /\ xfer = "data"
  /\ Stop /\ UNCHANGED todo
  /\ IF pc = "prom" THEN words' = words + 1 /\ UNCHANGED <<adc, buf>>
     ELSE IF todo.cmd = "lost" THEN buf' = "junk" /\ UNCHANGED <<adc, words>>
     ELSE buf' = adc /\ adc' = "zero" /\ UNCHANGED words
  /\ UNCHANGED <<pc, imu_ok, depth_ok, poll_ctr, D1, depth, yawing, faults>>

Transfer == Nack \/ Ack \/ Command \/ Data

----------------------------------------------------------------------------
(* Start. *)

mpu_init(found) == \* WHO_AM_I
  /\ pc = "init" /\ Idle
  /\ imu_ok' = found
  /\ pc' = "ms5837" /\ faults' = FALSE
  /\ UNCHANGED <<line, words, depth_ok, poll_ctr, adc, buf, D1, depth, yawing>>

\* Reset command, calibration words, and the test of one of them.
ms5837_init ==
  \/ pc = "ms5837" /\ Begin(FALSE, "reset", "reset") /\ UNCHANGED <<words, depth_ok>>
  \/ /\ pc \in {"reset", "prom"} /\ words < PromWords /\ Begin(TRUE, "prom", "prom")
     /\ UNCHANGED <<words, depth_ok>>
  \/ /\ pc = "prom" /\ Idle /\ words = PromWords
     /\ depth_ok' \in BOOLEAN
     /\ pc' = "idle" /\ UNCHANGED <<line, words>>
  \/ /\ pc = "absent" /\ Idle
     /\ depth_ok' = FALSE
     /\ pc' = "idle" /\ UNCHANGED <<line, words>>

sensors_init ==
  /\ ms5837_init
  /\ UNCHANGED <<imu_ok, poll_ctr, adc, buf, D1, depth, yawing, faults>>

----------------------------------------------------------------------------
(* Polls. *)

\* Command 0x7: whichever axis is written, the filter runs once.
Filter(angle, raw) == (angle + raw) % WordMod

\* Mutant: the yaw rate is written first.
ReadGyro_YawFirst(rate) ==
  /\ imu_raw' = rate
  /\ yaw' = Filter(Filter(Filter(yaw, rate), rate), rate)
  /\ turned' = (turned + rate) % WordMod
  /\ UNCHANGED before

\* Roll, pitch and yaw are written in this order.
ReadGyro(rate) ==
  /\ imu_raw' = rate
  /\ yaw' = Filter(Filter(Filter(yaw, imu_raw), imu_raw), rate)
  /\ turned' = (turned + rate) % WordMod
  /\ UNCHANGED before

\* Mutant: after a failure no further conversion is tried.
Due_GivesUp == depth_ok /\ ~faults /\ (poll_ctr + 1) % DepthEvery = 0

Due == depth_ok /\ (poll_ctr + 1) % DepthEvery = 0

\* The counter counts only while a depth sensor is present.
sensors_poll ==
  /\ pc = "idle" /\ Idle
  /\ \/ imu_ok /\ \E rate \in Rate : ReadGyro(rate)
     \/ ~imu_ok /\ UNCHANGED yawing
  /\ poll_ctr' = IF depth_ok THEN (poll_ctr + 1) % DepthEvery ELSE poll_ctr
  /\ \/ /\ Due
        /\ pc' = "convert" /\ faults' = FALSE
        /\ adc' = IF adc \in {"D1", "D2"} THEN "old" ELSE adc
        /\ buf' = "junk" /\ D1' = "junk"
     \/ ~Due /\ UNCHANGED <<pc, faults, adc, buf, D1>>
  /\ UNCHANGED <<line, words, imu_ok, depth_ok, depth>>

\* Mutant: the second conversion is not started.
ms5837_convert_Once ==
  \/ pc = "convert" /\ Begin(FALSE, "D1", "read1") /\ UNCHANGED <<D1, depth>>
  \/ pc = "read1" /\ Begin(TRUE, "adc_read", "first") /\ UNCHANGED <<D1, depth>>
  \/ pc = "first" /\ D1' = buf /\ Begin(TRUE, "adc_read", "publish") /\ UNCHANGED depth
  \/ /\ pc = "publish" /\ Idle
     /\ depth' = <<D1, buf>>
     /\ pc' = "idle" /\ UNCHANGED <<line, D1>>

\* Two conversions with a wait and a read each, then rov_set_depth_raw.
ms5837_convert ==
  \/ pc = "convert" /\ Begin(FALSE, "D1", "read1") /\ UNCHANGED <<D1, depth>>
  \/ pc = "read1" /\ Begin(TRUE, "adc_read", "first") /\ UNCHANGED <<D1, depth>>
  \/ pc = "first" /\ D1' = buf /\ Begin(FALSE, "D2", "read2") /\ UNCHANGED depth
  \/ pc = "read2" /\ Begin(TRUE, "adc_read", "publish") /\ UNCHANGED <<D1, depth>>
  \/ /\ pc = "publish" /\ Idle
     /\ depth' = <<D1, buf>>
     /\ pc' = "idle" /\ UNCHANGED <<line, D1>>

Convert ==
  /\ ms5837_convert
  /\ UNCHANGED <<words, imu_ok, depth_ok, poll_ctr, adc, buf, yawing, faults>>

----------------------------------------------------------------------------
\* CPU_RESETN clears the program, the filter's output and the depth register,
\* but neither imu_raw nor the devices.
Reset ==
  /\ pc' = "init" /\ xfer' = "none" /\ bus' = "free" /\ words' = 0
  /\ todo' = [read |-> FALSE, cmd |-> "reset"]
  /\ imu_ok' = FALSE /\ depth_ok' = FALSE /\ poll_ctr' = 0
  /\ buf' = "junk" /\ D1' = "junk" /\ depth' = None
  /\ yaw' = 0 /\ turned' = 0 /\ before' = imu_raw
  /\ faults' = FALSE
  /\ UNCHANGED <<adc, imu_raw>>

Init ==
  /\ pc = "init" /\ xfer = "none" /\ bus = "free" /\ words = 0
  /\ todo = [read |-> FALSE, cmd |-> "reset"]
  /\ imu_ok = FALSE /\ depth_ok = FALSE /\ poll_ctr = 0
  /\ adc = "zero" /\ buf = "junk" /\ D1 = "junk" /\ depth = None
  /\ imu_raw = 0 /\ yaw = 0 /\ turned = 0 /\ before = 0
  /\ faults = FALSE

Run == Transfer \/ (\E found \in BOOLEAN : mpu_init(found)) \/ sensors_init
         \/ sensors_poll \/ Convert

Next == Run \/ Reset

Spec == Init /\ [][Next]_vars

\* The library's transfers end, and control_tick polls for ever.
FairSpec == Spec /\ WF_vars(Run)

----------------------------------------------------------------------------
(* Properties. *)

\* Program and registers keep their ranges, and the bus is held exactly from
\* a START to its STOP: every way out of twi_wr and twi_rd releases it.
TypeOK ==
  /\ pc \in {"init", "ms5837", "reset", "prom", "absent", "idle",
             "convert", "read1", "first", "read2", "publish"}
  /\ xfer \in {"none", "address", "command", "address_rd", "data"}
  /\ todo \in [read : BOOLEAN, cmd : Cmd]
  /\ bus = IF Idle THEN "free" ELSE "held"
  /\ words \in 0 .. PromWords /\ poll_ctr \in 0 .. DepthEvery - 1
  /\ {imu_ok, depth_ok, faults} \subseteq BOOLEAN
  /\ {adc, buf, D1} \subseteq Sample
  /\ depth = None \/ depth \in Sample \X Sample
  /\ {imu_raw, yaw, turned, before} \subseteq 0 .. WordMod - 1

\* A conversion in which every byte was acknowledged publishes its own two
\* samples in their order, whatever earlier failures left in the device and
\* in the driver's buffer.
SamplesPaired ==
  [][pc = "publish" /\ pc' = "idle" /\ ~faults => depth' = Good]_vars

\* Three strobes per poll: the yaw angle is three times the sum of the rates,
\* short of two of the last one, which the next poll adds, and with two of
\* the rate that the last reset left in imu_raw.
YawTripled == yaw = (3 * turned + 2 * before - 2 * imu_raw) % WordMod

\* A byte without acknowledgement, whether the driver looks at it or not.
Fault == Nack \/ (Command /\ todo' # todo)

\* Disturbances pass: once all bytes are acknowledged again, a later
\* conversion puts proper samples into the depth register for good.
DepthRecovers == []<><<Fault>>_vars \/ <>[](depth \in {None, Good})

----------------------------------------------------------------------------
(* What the documents say and the code does not do: TLC refutes these.     *)

\* What sensors.h says of missing sensors ("graceful degradation"): a depth
\* comes from two good samples.  ms5837_convert ignores twi_rd's result.
DepthGenuine == depth \in {None, Good}

\* What cfs_test (T8) says of the filter: yaw integrates the rates written.
YawIsSum == yaw = turned
=============================================================================
