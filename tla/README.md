# TLA+ models of the NexysA7 ROV controller and frequency counter

The repository holds two FPGA designs for the Nexys A7 board. `neorv32/` is a controller
for an underwater vehicle: a NEORV32 soft core runs one of several programs, `sw/rov_main`
in the vehicle, and talks through the custom function subsystem (CFS) to
`neorv32_rov_motors.vhd`, which keeps the safety watchdog, the PID controllers, the
thruster mixer and the slew limiter. `src/top.v` is a frequency counter with a UART echo.
These modules model both, TLC checks them on small instances, and TLAPS proves the central
results for all values of the constants.

## Inventory

| Component | State | Operations | Interacts with |
|---|---|---|---|
| Safety core (`neorv32_rov_motors.vhd` 238-299, 497-548, 609) | armed, alive, ms counter, toggle bit, timeout; arm timer, slewed duties | 1 ms strobe, HEARTBEAT, ARM, DISARM, HB_TIMEOUT, reset | commands from the bus, duties from the mixer, PWM gate |
| Command interface (`neorv32_cfs_custom.vhd`, same file 141-166, 285-345, `rov_cfs.h`) | CFS registers, delayed command, strobe; driver's toggle bit | bus write, edge detection, execution | CPU and every hardware block |
| Mixer, PID sequencer (354-376, 420-491) | stage, motor, axis, product, sum, duties; stage, axis, outputs | setpoint, PID mask, 400 Hz tick, one stage per clock | commands, safety core |
| PID arithmetic (377-419) | error, products, integrator, previous error, output | three stages per axis and tick; setpoint, current, gains, mask | commands, mixer |
| IMU filter, depth (553-604) | raw rate, angle, depth | one strobe per IMU write, one per depth write | sensor drivers, holds |
| Encoders (185-233) | positions, velocities | edge, clear | telemetry registers |
| Servo PWM, top level (`neorv32_nexys_a7.vhd`) | frame counter, pulse bits, synchronisers | microsecond tick | duties, gate, SW[0] |
| Firmware loop (`rov_main/main.c`) | time stamps of the periodic jobs, line buffer | main loop, console commands, delays | everything through `rov_cfs.h` |
| Other programs (`RV32IMC/app`, `sw/pwm_sweep`, `sw/cfs_test`) | their own heartbeat bit, timers, script position | loop, ramps, checks | safety core, also as the program before left it |
| Closed loops (`main.c` 119-154, 320-352) | holds and targets | hold, free mode, 20 Hz tick | PID registers, sensors, MAVLink |
| Motor test (`main.c` 357-414) | direction, step, pause, accumulator, next time | `w`, tick | surge setpoint, mixer coefficients |
| MAVLink (`mavlink.c`) | parser state, length, index; send times | byte, tick | console line, setpoints, arming |
| Sensor drivers (`sensors.c`) | presence flags, calibration, poll counter | init, poll, byte transfers on two buses | IMU and depth registers |
| Frequency counter (`src/top.v`) | gate timer, counts; FIFO, transmitter, report | clock edge | serial line, display |

What makes them hard: four clocked processes that all read the registers of the edge
before; a watchdog that must never trip while the program is merely slow and must always
trip when it is dead; a toggle bit kept twice, of which a reset clears one copy; programs
that find the core as another program left it; a mixer that ignores triggers while it runs;
16-bit sums compared with a clamp after they have wrapped; a status read before, and used
after, a 26 ms sensor conversion; bus transfers whose failures nobody looks at; a serial
line that loses bytes; one transmitter shared by two senders. `PROJECT.json` lists each
hazard at its line with the properties aimed at it, or says why it has none.

## Modules

| Module | Models | Next to it |
|---|---|---|
| `RovSafety` | safety core | `RovSafetyProofs` |
| `CommandBus` | registers, edge detector, driver protocol, one bus write or clock edge at a time | `CommandMailbox` (promise), `MCCommandBus`, `CommandBusProofs` |
| `RovFirmware` | `rov_main` and time against the watchdog; composes `RovSafety` | |
| `RovPrograms` | all programs that drive the thrusters, started by resets; extends `RovFirmware` | `RovProgramsProofs` |
| `RovMixer` | mixer, PID sequencer, setpoint and mask commands, clock edge by clock edge | `MCRovMixer`, `RovMixerProofs` |
| `RovPid` | arithmetic of one PID axis, stage by stage | `RovPidProofs` |
| `RovControl` | holds, free mode, manual control, `control_tick` | `RovControlProofs` |
| `MotorSweep` | motor test, with the duty and pulse formulas | `MainLoopProofs` |
| `RovSensors` | sensor drivers, two-wire bus byte by byte, yaw integrator, depth register | `MainLoopProofs` |
| `MavlinkRx` | byte routing, frame parser, line editor, faulty line | `LossyLink` (promise), `MCMavlinkRx`, `SerialProofs` |
| `FreqUart` | RX FIFO, transmitter, reports | `UartLine` (promise), `SerialProofs` |

Names follow the source: a variable is a register or a C global, an action is a `when`
branch, a function or a step of one. A definition whose name ends in `_Something` and whose
comment starts with "Mutant" is not part of the model: it is a plausible bug, kept to show
that a property notices it.

**RovSafety.** A step is a clock cycle in which something happens: `Tick`, a command, both,
`MixerWrite`, `Reset`. The parameter `tick` tells whether the strobe `hb_ms_tick` is high;
`ArmedAfter`, `WatchdogTick` and `SlewTick` are its effects, and a command is assigned after
them, as in the process. `quiet`, `upTicks` and `sinceArm` are histories.

**CommandBus.** `Edge` is one clock edge of the detector and the status process, on the
registers before it; each driver action is one bus write with such an edge. `wait` stands for
the CPU: it counts the edges its instructions leave at least between two writes. Promise:
commands take effect one at a time, once, in order, with their own operand; a reset drops
the one in flight.

**RovFirmware.** Time is counted in strobes. `Wait` lets one pass, `Block` and `Slip` say
how long a pass of the main loop keeps the program from its heartbeat. The commands are
`RovSafety`'s own actions. LEDs, telemetry and printing are time.

**RovPrograms.** `prog` is the program that runs. A reset enters the bootloader, which may
start any of them; the core is reset, but remembers the toggle bit (`cold` records whether
it was 0). `rov_main` and `app` are `RovFirmware`'s loop, `app` without MAVLink, holds and
sweep. `pwm_sweep` sends one heartbeat, arms once and then ramps, with holds of 25 and
500 ms that share one heartbeat counter. `cfs_test` is its script: a command, a bare delay,
the check of the status that follows, some text; `failures` counts failed checks.

**RovMixer.** `Status`, `Pid` and `Mixer` move together at every edge. Data is symbolic:
`motor_out[m][a]` is the operand of axis `a` that went into motor `m`. The PID's result is
any value; coefficient writes, which start nothing, are left out.

**RovPid.** One axis; a turn is `S1`, `S2`, `S3`, and a command may fall between two of
them. `Word` is the range of the 16-bit registers for a chosen 1.0 (`One`, 16384 in the
source), `Wrap` a sum in such a register and `Resize` the VHDL `resize`, which keeps the
sign bit. The axes are alike and take turns, so one is enough. The watchdog is not an input.

**RovControl.** Commands run between two turns of `control_tick`; `ReadStatus`,
`SensorsPoll` and `Disarmed`/`ServeHolds` are its three steps, and the failsafe may fall
between any two. `late` is a history: how often the holds have been served since the drive was
disarmed. Only the axes that holds use are kept. Negative targets are left out.

**MotorSweep.** `lag` is `now - g_mt_next` in units of 5 ms. `PassTime` are the times a pass of
the main loop may take: a fraction of a step, a whole one, 140 ms of printing, or 1.34 s with
the LED test (`cmd_leds`, 1.2 s, which serves the heartbeat but not the sweep).

**RovSensors.** The start, then polls for ever. A transfer is START, address, command, for
a read a repeated START, the address and the data, then STOP; any byte may go
unacknowledged (`Nack`), and a command byte may be lost without the driver noticing, which
leaves `todo.cmd = "lost"`. The device answers a read with its last conversion, once.
Samples are symbolic: `depth` is `Good` if it was computed from the two samples its
conversion ordered. `turned` and `before` are histories for the yaw angle.

**MavlinkRx.** The CRC is taken as perfect: it fits exactly when the parser has collected one
frame as it was sent, which the history `intact` records. Bytes are small numbers that
keep the order of their ranges. Decoded messages are the commands of `RovFirmware` and
`RovControl`.

**FreqUart.** One step per clock edge; a character keeps the transmitter busy for `TxEdges`
edges; bytes come at least `RxEdges` apart. The report's digits and the bit-level
receiver are left out.

## Runs

| Run | Instance | Shows |
|---|---|---|
| `safety` | one channel, counter modulo 5, timeouts 0, 3, 4 (0 means the default 2), window 2 ms, duties 0..6 in steps of 2 | `CounterTellsSilence`, `DeadlineHonoured`: the 8-bit counter tells the silence until it wraps, the link is dropped neither late nor early, and the gate shut only by that, a disarm or a reset. `RampBound`: neutral window and ramp after the strobe that first saw the drive armed. `SilenceDisarms`, `OutputConverges` |
| `bus` | two commands with and without operand, heartbeats, resets | `MailboxSpec`, `MailboxCompletion`: the bus implements the mailbox |
| `firmware` | 5 ms units: timeout 200 ms, default timeout 100 ms, heartbeat 50 ms, blocking up to 140 ms, ramps of 40 steps | `LinkStays`: no program that means to keep the link lets the watchdog trip. `BitsAgree`, `ConsoleArmArms`: whatever ran before a reset, the toggle bits agree from the program's first heartbeat on, and the console's arm command arms. `StartDecides`: a program that arms once stands or falls with the bit the core remembers |
| `mixer` | 2 axes, 2 motors, binary values, masks {} and {1} | `SetpointsApplied`, `PidRefreshes` |
| `pid` | 1.0 = 4, setpoints 3 and 0, positions 0 and 5, gains 4, {2, 7}, 3 | `TypeOK`: the clamps hold although the sums wrap. `IntegralFollows`, `IntegralSettles`: a term below 1.0 takes the integrator to its clamp and nowhere else. `MemoryIsLastError` |
| `sweep` | the code's constants, passes of 0 to 40 ms, 140 ms and 1.34 s | `NoDrift`, `SweepRecurs` |
| `control` | depths 60, 199, 350 cm (the last wraps), one heading, two raw values | `StaleOnce`: a status sampled before a failsafe serves the holds at most once more. `DepthErrorFits`, `HoldReasserted`, `HoldsReleased` |
| `sensors` | 2 PROM words, depth every 2nd poll, rates 0, 1, 6 modulo 8 | `TypeOK`: the bus is held exactly during a transfer, however it ends. `YawTripled`: three strobes per poll. `SamplesPaired`, `DepthRecovers` |
| `mavlink` | three kinds of frames, four frames, one fault | `LinkSpec`: messages at most once and in order. `LeakBound`, `Resyncs`, and in `RxTypeOK` both buffers' bounds |
| `uart` | FIFO of 3, reports of 2 characters, 2 bytes, 2 measurements | `LineSpec`: ordered echo, unmixed reports. `MeasurementRetained`, `BurstsFit`, `QuietReported` |
| `safety_rearm`, `firmware_init` | as `safety`; 10 ms units | a statement of the documents that the code does not keep (next section) |

**Why these bounds.** In `safety`, channels are independent, so one is enough; the counter
wraps and the ramp takes several steps, one of them short. `TickCap` lies beyond the longest
ramp, which an assumption states. In `firmware` the longest the main loop goes without a heartbeat is the help
text (85 ms at 115200 baud), a telemetry dump (29 ms) and a sensor poll (26 ms) one after the
other, 140 ms; with the heartbeat's 50 ms that is 190 of 200 ms. The unit of 5 ms is the
largest that divides the holds of `pwm_sweep`. In `mixer`, `RunEdges = 11` is the exact length
of a run; with 10 TLC refutes `SetpointsApplied`. The formula beside the property gives 105
edges for 8 motors and 6 axes. In `pid` the errors reach -5 to 3 in words from -8 to 7, the
integral term of gain 7 reaches 1.0 and so the sum that wraps, and the outputs saturate at
both ends. In `control` 350 and 60 cm are further apart than 200, 350 and 199 nearer with one
of them wrapped. In `sensors` one calibration word is read before another, two polls per
depth reading separate a poll with from one without, and rate 6 modulo 8 is a negative one. In
`mavlink` the longest body that a wrong length can announce covers one frame and a bit, so
`ResyncFrames` is 2; the real parser, which may wait for 260 bytes, needs as many of its
shortest frames as cover them, plus one. In `uart` bytes and characters last the same, which
is a host at the nominal baud rate that never pauses, and a character's start costs the
transmitter one edge more, far more than on the real line in proportion. `MavlinkRx` may stop
when its frames are used up, so its run does not look for deadlocks.

**Fairness.** Clocks do not stop: `Next` of `FreqUart` and `RovMixer`, the strobe of
`RovSafety`, the edges of `CommandBus` and the stages of `RovPid` are weakly fair, and
`pid_tick` is a divider of the clock. The CPU finishes a command it has begun (`WriteNop`).
The main loop runs for ever and reads the clock, hence `Loop` of `MotorSweep` and `Run` of
`RovSensors` (each transfer ends, well or badly, since the library never retries), and it
comes back to `control_tick` although commands keep coming, hence strong fairness of
`ReadStatus` in `RovControl`. Nothing is assumed of the host, of the sensors or of the link.

## What the documents say and the code does not do

Two statements have a run of their own and are listed under "findings":

* *Firmware start* (`InitArms`): a warm reset clears the driver's heartbeat bit but not
  `hb_toggle_last`; every second time `rov_init`'s heartbeat is ignored and its arm command refused.
  The console's `a 1` sends five and arms (`ConsoleArmArms`).
* *Neutral window* (`NeutralAfterArm`): the slew process samples `motors_armed` once per ms. A
  disarm and an arm in between, for instance two MAVLink commands waiting in the UART FIFO, skip the 2 s.

The modules end with further such statements, which can be given to TLC in place of a run's property:

* `RovSafety!FailsafeDisarms` (cfs_test T10, tb_rov.vhd:183): an arm command in the cycle of the trip wins. The
  gate is shut, as the link is down, but the next heartbeat opens it without an arm command.
* `RovPrograms!FailsafeTested` (cfs_test T10): the default timeout of 100 ms, which the program
  has not changed, disarms the drive during T7; T10 then finds it disarmed whatever it does.
* `RovMixer!PidOffIsOff` (console's "PID off", with `Value = {0}`): the empty PID mask starts no mixer run,
  so the motors keep the last PID output until a setpoint comes.
* `RovPid!NeverFlips` and `StartsAtRest`: the clamp compares a sum that has wrapped, so an integral term of 1.0 or
  more throws a full integrator to -1.0; and an axis resumes with the integrator it was disabled with.
* `RovControl!DepthErrorSign` and `DepthHoldRunsHeave` (main.c:12-14): from 200 cm between target and depth on,
  the wrapped difference has the wrong sign; with both holds on, only yaw is under PID control.
* `RovSensors!DepthGenuine` and `YawIsSum` (sensors.h's degradation, cfs_test T8): a failed read is published
  as a depth, and each of the three IMU writes of a poll integrates yaw once more.
* `MotorSweep!ForwardOnly` and `PulseInRange` (main.c:370, SESION-2026-08-12.md:121): the way down passes through
  -5 to -285, and the top, 15475, is 1877 us, not 1860.
* `MavlinkRx!FrameBytesStayOut` (main.c:605): the last CRC byte of a frame reaches the line editor.
* `FreqUart!AlwaysReported` (README.md:127), under `FairSpec`: a host that never pauses holds back every report.
* Not stated as formulas: rov_init's "all setpoints neutral" (rov_cfs.h:99) is subject to the spacing condition in
  `SetpointsApplied`, because the mixer ignores triggers while it runs; and `main.cpp:463` multiplies in 32 bits,
  so that app's telemetry comes every 24 ms or so instead of every 2 s (a print, which every pass of the model may contain).

The status process also leaves `imu_raw`, `pid_current` and `depth_raw_pressure` unreset (vhd 244-266): `RovSensors`
and `RovPid` keep them over a reset, and `YawTripled` accounts for the rate left behind.

## Proofs

Each theorem holds for every value of the constants that the named assumptions allow. Every safety
invariant and every action property of the passing runs, and all three refinements, are theorems.

**What is assumed.** Besides types, five conditions relate constants to each other; TLC evaluates them on
the instances, and the code's own numbers satisfy them.

| Assumption | Says | In the code |
|---|---|---|
| `TimingAssumption` (`RovFirmware`) | period + longest blocking < timeout | 50 + 140 < 200 ms |
| `SweepAssumption` (`RovPrograms`) | three periods and two units < timeout, in a unit of which the sweep's calls and turns each cost at most one more | 30 + 2 < 40 units of 5 ms |
| `TestAssumption` (`RovPrograms`) | the script's waits at T2 and T3 fit the default timeout, its last ones the driver's; T10 waits longer than the timeout it tests | 7 of 20, 8 of 40, 4 < 40 units of 5 ms |
| `BurstAssumption` (`FreqUart`) | the FIFO takes longer to fill than a report to send, the edge each character costs more included | 16 * 8680 > 10 * 8681 + 9 edges |
| `ResyncAssumption` (`MavlinkRx`) | `ResyncFrames` - 1 of the shortest frames cover the longest body | chosen so |

`CoreAssumption` (`RovFirmware`) says that the core the programs drive was built with parameters that satisfy `RovSafety`'s own.

**`RovSafetyProofs`.** `TypeCorrect`; `CounterIsSilence`, inductive together with `TypeOK`;
`DeadlineSafe`, late and early, from the invariant of the theorem before; `SoftStart`: `RampBound` alone is
not inductive, it needs to know that the arm timer counts `upTicks` (`TimerCountsTicks`). Its
step rests on lemmas about one slew step: it moves towards the target, by at most `SlewStep`.
`SilenceBounded` and `OutputSettles` are the measures under `SilenceDisarms` and `OutputConverges`: numbers
that every strobe lowers and no other cycle raises, `StrobesLeft` while no heartbeat is accepted (at most 2 * `CntMod`: a
dead link that has tripped disarms at once, and one more round of the counter is all an arm command in the cycle of the
trip can gain), `Lag` while the drive stays armed (strobes of the neutral window first, then duty to go).

**`CommandBusProofs`.** `BusImplementsMailbox`: `Spec => MailboxSpec`, for every set of
commands and all gaps of at least the edges the detector needs. The invariant ties the phase
of the driver (`pc`, `wait`) to what the detector has seen: after `CmdGap` edges the word has
fired and will not fire again, after `NopGap` edges the detector is ready for the next one.
`BusTypeCorrect` needs it too: that `applied` and `effects` hold nothing but issued commands
is a consequence of a command word being executed with its own operand.

**`RovProgramsProofs`.** `BitsAlwaysAgree` for all four programs: where the bits may still
differ is a matter of the program's point of control, and of the row of its script for
`cfs_test`. `ArmCommandArms` for the two main loops. `RangesKept`, `LinkStaysUp` and
`StartDecided` rest on one invariant per program, each a bound on the silence of the link (`quiet`)
by what the program has left to do before its next heartbeat:

* the main loops (`LinkInv`): `quiet` against the age of the last heartbeat in each kind of place, `Awake`
  between two waits, `Blocked` in a wait that nothing interrupts, `Due` when `service_heartbeat` is next, which may
  find the period over by one blocking call, or by the strobes that slip in before it (`spare`). It also says where
  the bits differ, since a heartbeat that is due must not be one the core ignores.
* `pwm_sweep` (`SweepInv`): the counter `ticks` counts calls, not time. A call comes at least every three strobes:
  the one it waits for, one that may slip into its burst, one for the line of text of a turn that falls between two
  calls; so `quiet` is at most 3 * `ticks` and a few more (`Idling`, `Holding`, `Calling`). Since the link then never drops, the
  one arm command decides: `motors_armed <=> cold`, and a warm start stays `Silent` until its first accepted heartbeat, after
  its only chance to arm.
* `cfs_test` (`TestInv`): `Reach`, the strobes until the program blocks again, row by row of the script for the
  two stretches in which the link must be up (`FirstLink`, `LastLink`), and for T10 that every strobe of its wait either trips
  the watchdog or is counted (`Drain`). `Failed` gives the number of failed checks so far as a function of the row and `cold`.

`CoreIsDriven`, the composition: `ProgramsSpec => Core!Spec`, where `Core` is `RovSafety` with the timeouts that are
written. Every step of a program is a step of the core or leaves it alone, because none sends a heartbeat bit or a
timeout the core does not know. `DeadlineKept` then takes `CounterTellsSilence`, `DeadlineHonoured` and `SilenceRunsOut` over from
`RovSafetyProofs` instead of proving them again.

**`RovMixerProofs`.** `SetpointsReachMotors`, for any number of axes and motors. The invariant
counts the edges left of a run: with the PID off they and the edges since the last
command stay within the length of a run (`RunsOut`), so a setpoint that comes later finds the mixer
at rest, its trigger is not lost, and all that the new run has read so far is the setpoint (`Applied`).

**`RovPidProofs`.** `TypeCorrect` (the clamps hold whatever the sums do), `IntegratorFollows`,
`IntegratorExact` (when the refuted `NeverFlips` fails: exactly when integrator plus term leave the word, and then the
integrator goes to the other end of its clamp; it also has the measure under `IntegralSettles`),
and `MemoryHandedOn`, whose invariant says that each stage hands on the error of the first.

**`RovControlProofs`.** `StaleSampleOnce`: the invariant (`StaleInv`) adds that an armed drive has not begun the
count and that a sample of an armed status was taken before it began. `FreeModeHolds`: after free mode or
a manual control message only a hold or PID command gives an axis back to the PID (`FreeStaysFree`,
inductive by itself and in no run). `DepthErrorExact`: the arithmetic of two conversions and a difference modulo 2^16.

**`MainLoopProofs`** is about two jobs of the main loop. Sensors: `TypeCorrect` (with what a transfer of the start was
begun for); `CleanConversion`: in every place of a conversion, unless a transfer has failed, the device and the program
hold the samples ordered so far; `YawIsThreeTimes`: the invariant says at each of the three writes how many strobes
the angle is behind, and the lemmas below it are arithmetic modulo a variable: quotient and remainder are unique, and a
summand may be reduced first. Motor test: `CyclesAlike` and `SweepTypeCorrect`, proved together: the setpoint is the
ramp's value of the current step, the direction turns only at the ends, and the time that is due has passed.

**`SerialProofs`**, the parser. `RxTypeCorrect`, `OneByteLeaks`, `ParserRecovers` and the refinement `ImplementsLink` share
`RxInv`. Its heart is `InStep`: the parser's state and index follow from the position in the frame on the wire, until the first
fault (`LeakOK`). After it the parser is in step or `Astray`: it hunts, or is inside a body that a stray start byte opened, and
the intact frames since (`clean`) have used up their share of the longest such body (`SyncOK`). What it has collected is
always younger than what it last executed (`OrderOK`), which is what the link promises.

**`SerialProofs`**, the line. `UartTypeCorrect`: pointers and count of the FIFO agree modulo its depth (`Ring`).
`MeasurementsRetained`. `ImplementsLine`: the refinement mapping reads the bytes between the two pointers as a queue, so
the proof is a lemma per operation of the ring (push, pop, both at once), each by the extensionality of sequences.
`BurstsEchoed` is a balance in clock edges (`BacklogOK`): the time the bytes that wait have taken to arrive, and the
work the transmitter has to do first, are at most the one report that can be in the way and what the echo of each
byte of the burst has lost against the line. The FIFO overflows only if that is more than it takes to fill it.

Only model-checked: liveness (`MailboxCompletion`, `SilenceDisarms`, `OutputConverges`, `PidRefreshes`,
`IntegralSettles`, `SweepRecurs`, `HoldReasserted`, `HoldsReleased`, `DepthRecovers`, `QuietReported`), which is out of
the prover's reach (for three of them it has the measure, not the conclusion by fairness), and the two refuted statements, which need a behaviour and not a proof.

## Not modelled

* The MAVLink transmitter, telemetry, display, LEDs and printing are output; their time is in `MaxBlock`.
* Number parsing, the CRC's polynomial, payload layouts and lengths are data. Two defects that live there, a short
  frame read past its end and an MSB-first CRC, are listed as hazards without a property.
* Encoders: they are read back and printed, nothing acts on them.
* The servo pulses' 20 ms frame and the gate of the frequency counter: counters that only drive pins or hand over a
  number, which the models take as arbitrary. Coefficient writes and the mixer's products outside the motor test.
* Roll and pitch filters and the depth pipeline's arithmetic: straight lines of registers behind the strobe that `RovSensors` models.
* `sw/motor_sweep` drives the processor's own PWM, which the top level does not build (`IO_PWM_NUM => 0`), and `sw/sys_test` prints.
* External: the CPU, the CFS template, the bootloader, the TWI and SPI library and the two sensors are outside `src/`
  or vendored; they appear as the driver uses them, the MS5837 as its datasheet describes it (a result is read once, zeros otherwise).

## What is left

The composition of `RovSafety`, `RovPid` and `RovMixer` with the holds, for what a failsafe leaves behind in the
integrators, is too large for TLC as it stands: the pieces run at 100 MHz, 400 Hz and 20 Hz. It needs an abstract drive that
`RovMixer` and `RovPid` each implement. For the prover, the measures under the other liveness properties: the edges to the
end of a run of the mixer, the ticks until a hold is written again.
