---------------------------- MODULE RovFirmware ----------------------------
(***************************************************************************)
(* The firmware rov_main driving the safety core: boot, the main loop's    *)
(* heartbeat service, the console's arm, disarm and re-init commands, the  *)
(* MAVLink arm and disarm, and warm resets of the whole board.             *)
(*                                                                         *)
(* The program runs on one core, without interrupts.  Its own instructions *)
(* take microseconds; what takes time is waiting, in one of three forms:   *)
(*   busy   a blocking call (UART output, a sensor conversion, a bare      *)
(*          delay) that nothing can interrupt,                             *)
(*   delay  delay_with_heartbeat, which calls service_heartbeat after      *)
(*          every unit of time,                                            *)
(*   the main loop with nothing to do, which calls it all the time.        *)
(* Between two waits at most one strobe falls into the program's burst of  *)
(* instructions, alone or into the very cycle of a command (spare).        *)
(*                                                                         *)
(* The unit of time of this module is the strobe of RovSafety.             *)
(***************************************************************************)
EXTENDS Integers

CONSTANTS
  Channel, CntMod, DefaultTimeout, ArmDelay, DutyMax, Neutral, SlewStep,
  MixerDuty, TickCap,   \* see RovSafety
  DriverTimeout,        \* the watchdog timeout rov_init writes (200 ms)
  HbPeriod,             \* HEARTBEAT_MS
  MaxBlock,             \* the longest run of blocking calls between two
                        \* calls of service_heartbeat
  ArmBeats,             \* heartbeats cmd_arm sends before it arms
  ArmPause,             \* longest delay between two of them
  CmdPause              \* delay after a console command that arms or disarms

ASSUME TimingAssumption ==
  /\ {HbPeriod, MaxBlock, ArmBeats, ArmPause, CmdPause} \subseteq Nat
  /\ HbPeriod > 0 /\ MaxBlock > 0 /\ ArmBeats > 1
  /\ CntMod \in Nat /\ {DriverTimeout, DefaultTimeout} \subseteq 1 .. CntMod - 1
  /\ HbPeriod + MaxBlock < DriverTimeout

VARIABLES
  motors_armed, heartbeat_alive, heartbeat_cnt, hb_toggle_last, hb_timeout,
  motor_out, arm_timer, armed_prev, motor_out_slewed, quiet, upTicks, sinceArm,
  hb_bit,       \* _hb_bit of the driver
  pc,           \* the program's next point
  count,        \* heartbeats cmd_arm has still to send
  since_hb,     \* time since g_last_hb, as far as HbPeriod
  busy, delay,  \* time left of the current wait
  poll,         \* service_heartbeat is called next
  spare         \* strobes that may still fall into the current burst

TimeoutValue == {DriverTimeout}

Safety == INSTANCE RovSafety

\* The core is built with parameters that fit each other.
ASSUME CoreAssumption == Safety!SlewAssumption /\ Safety!RampAssumption

safety  == <<motors_armed, heartbeat_alive, heartbeat_cnt, hb_toggle_last, hb_timeout,
             motor_out, arm_timer, armed_prev, motor_out_slewed, quiet, upTicks, sinceArm>>
program == <<pc, count>>
waiting == <<busy, delay, poll>>
vars    == <<safety, hb_bit, program, since_hb, waiting, spare>>

----------------------------------------------------------------------------
(* Time. *)

Age(tick) ==
  since_hb' = IF tick THEN Safety!Saturate(since_hb + 1, HbPeriod) ELSE since_hb

\* The program executes an instruction, with a strobe in its cycle or not.
Running == busy = 0 /\ delay = 0 /\ ~poll

Burst(tick) ==
  /\ tick => spare = 1
  /\ spare' = IF tick THEN 0 ELSE spare
  /\ Age(tick)

\* A strobe while the program waits.
Wait ==
  /\ Safety!Tick
  /\ Age(TRUE)
  /\ \/ busy > 0 /\ busy' = busy - 1 /\ UNCHANGED <<delay, poll>>
     \/ busy = 0 /\ delay > 0 /\ ~poll /\ delay' = delay - 1 /\ poll' = TRUE
        /\ UNCHANGED busy
     \/ Running /\ pc = "loop" /\ poll' = TRUE /\ UNCHANGED <<busy, delay>>
  /\ spare' = 1
  /\ UNCHANGED <<hb_bit, program>>

\* A strobe between two instructions.
Slip ==
  /\ busy = 0 /\ (poll \/ Running) /\ pc # "loop" /\ spare = 1
  /\ Safety!Tick
  /\ Age(TRUE)
  /\ spare' = 0
  /\ UNCHANGED <<hb_bit, program, waiting>>

----------------------------------------------------------------------------
(* The driver. *)

NoEffect(tick) == IF tick THEN Safety!Tick ELSE UNCHANGED safety

\* Mutant: the driver forgets to toggle.
rov_heartbeat_NoToggle(tick) ==
  /\ UNCHANGED hb_bit
  /\ \/ Safety!Heartbeat(tick, hb_bit)
     \/ hb_bit = hb_toggle_last /\ NoEffect(tick)

\* Mutant: the bit is toggled after the command instead of before it.
rov_heartbeat_PostToggle(tick) ==
  /\ hb_bit' = 1 - hb_bit
  /\ \/ Safety!Heartbeat(tick, hb_bit)
     \/ hb_bit = hb_toggle_last /\ NoEffect(tick)

rov_heartbeat(tick) ==
  /\ hb_bit' = 1 - hb_bit
  /\ \/ Safety!Heartbeat(tick, hb_bit')
     \/ hb_bit' = hb_toggle_last /\ NoEffect(tick)

service_heartbeat(tick) ==
  /\ poll /\ busy = 0 /\ poll' = FALSE
  /\ tick => spare = 1
  /\ spare' = IF tick THEN 0 ELSE spare
  /\ \/ since_hb = HbPeriod /\ rov_heartbeat(tick) /\ since_hb' = 0
     \/ since_hb < HbPeriod /\ NoEffect(tick) /\ Age(tick) /\ UNCHANGED hb_bit
  /\ UNCHANGED <<program, busy, delay>>

\* Wait for a blocking call of at most limit, in the main loop followed by
\* service_heartbeat.
Block(limit) ==
  /\ busy' \in 0 .. limit
  /\ poll' = (pc' = "loop")
  /\ UNCHANGED delay

----------------------------------------------------------------------------
(* Boot and re-init. *)

InitTimeout(tick) == \* rov_init: _hb_bit = 0, timeout 200 ms
  /\ pc = "init" /\ Running
  /\ hb_bit' = 0
  /\ Safety!SetTimeout(tick, DriverTimeout)
  /\ Burst(tick) /\ pc' = "init_beat" /\ UNCHANGED <<count, waiting>>

InitBeat(tick) == \* rov_init: establish heartbeat first
  /\ pc = "init_beat" /\ Running
  /\ rov_heartbeat(tick)
  /\ Burst(tick) /\ pc' = "init_arm" /\ UNCHANGED <<count, waiting>>

InitArm(tick) == \* rov_init: arm; then mixer defaults and cmd_status
  /\ pc = "init_arm" /\ Running
  /\ Safety!Arm(tick)
  /\ Burst(tick) /\ pc' = "loop" /\ Block(MaxBlock) /\ UNCHANGED <<count, hb_bit>>

----------------------------------------------------------------------------
(* Console and MAVLink. *)

ConsoleArm == \* "a 1"
  /\ pc = "loop" /\ Running
  /\ pc' = "arm_beat" /\ count' = ArmBeats
  /\ UNCHANGED <<safety, hb_bit, since_hb, waiting, spare>>

\* Mutant: one heartbeat too many.
ArmBeat_OneMore(tick) ==
  /\ pc = "arm_beat" /\ Running
  /\ rov_heartbeat(tick)
  /\ Burst(tick)
  /\ count' = count - 1 /\ pc' = IF count = 0 THEN "arm" ELSE "arm_beat"
  /\ delay' \in 0 .. ArmPause /\ UNCHANGED <<busy, poll>>

ArmBeat(tick) == \* one turn of cmd_arm's loop: rov_heartbeat, then the delay
  /\ pc = "arm_beat" /\ Running
  /\ rov_heartbeat(tick)
  /\ Burst(tick)
  /\ count' = count - 1 /\ pc' = IF count = 1 THEN "arm" ELSE "arm_beat"
  /\ delay' \in 0 .. ArmPause /\ UNCHANGED <<busy, poll>>

ArmNow(tick) ==
  /\ pc = "arm" /\ Running
  /\ Safety!Arm(tick)
  /\ Burst(tick)
  /\ pc' = "report" /\ delay' = CmdPause /\ UNCHANGED <<count, hb_bit, busy, poll>>

ConsoleDisarm(tick) == \* "a 0", and "r", which re-initialises after the delay
  /\ pc = "loop" /\ Running
  /\ Safety!Disarm(tick)
  /\ Burst(tick)
  /\ pc' \in {"report", "init"} /\ delay' = CmdPause
  /\ UNCHANGED <<count, hb_bit, busy, poll>>

Report == \* cmd_status
  /\ pc = "report" /\ Running
  /\ pc' = "loop" /\ Block(MaxBlock)
  /\ UNCHANGED <<safety, hb_bit, count, since_hb, spare>>

Other == \* any other console command, telemetry or the sensors' conversion
  /\ pc = "loop" /\ Running
  /\ UNCHANGED <<safety, hb_bit, program, since_hb, spare>>
  /\ Block(MaxBlock)

MavlinkArm(tick) == \* COMMAND_LONG 400 from the main loop
  /\ pc = "loop" /\ Running
  /\ Safety!Arm(tick) \/ Safety!Disarm(tick)
  /\ Burst(tick)
  /\ UNCHANGED <<hb_bit, program, waiting>>

Reset == \* CPU_RESETN: main starts over, sensors_init blocks
  /\ Safety!Reset
  /\ hb_bit' = 0 /\ pc' = "init" /\ count' = 0 /\ since_hb' = 0
  /\ busy' \in 0 .. MaxBlock /\ delay' = 0 /\ poll' = FALSE /\ spare' = 1

----------------------------------------------------------------------------
Init ==
  /\ Safety!Init
  /\ hb_bit = 0 /\ pc = "init" /\ count = 0 /\ since_hb = 0
  /\ busy \in 0 .. MaxBlock /\ delay = 0 /\ poll = FALSE /\ spare = 1

Instruction(tick) ==
  \/ service_heartbeat(tick)
  \/ InitTimeout(tick) \/ InitBeat(tick) \/ InitArm(tick)
  \/ ArmBeat(tick) \/ ArmNow(tick)
  \/ ConsoleDisarm(tick) \/ MavlinkArm(tick)

Next ==
  \/ Wait \/ Slip
  \/ \E tick \in BOOLEAN : Instruction(tick)
  \/ ConsoleArm \/ Report \/ Other
  \/ Reset

Spec == Init /\ [][Next]_vars

----------------------------------------------------------------------------
(* Properties. *)

\* Program state and waits keep their ranges.
TypeOK ==
  /\ hb_bit \in {0, 1} /\ spare \in {0, 1} /\ poll \in BOOLEAN
  /\ pc \in {"init", "init_beat", "init_arm", "loop", "arm_beat", "arm", "report"}
  /\ count \in 0 .. ArmBeats
  /\ since_hb \in 0 .. HbPeriod
  /\ busy \in 0 .. MaxBlock
  /\ delay \in 0 .. CmdPause + ArmPause

\* The driver's toggle bit and the core's copy disagree only between the start
\* of rov_init, which zeroes one of them, and its heartbeat: a reset or a
\* re-init loses at most that one heartbeat.
ToggleInSync == hb_bit # hb_toggle_last => pc \in {"init", "init_beat"}

\* No spurious failsafe: once a heartbeat was accepted after a reset, no run
\* of blocking calls, delays or console commands lets the watchdog trip.
LinkKept == quiet < CntMod => heartbeat_alive

\* The console's arm command arms, even after a reset that left the driver's
\* and the core's toggle bits apart.
ConsoleArmArms ==
  [][pc = "arm" /\ pc' = "report" => motors_armed']_vars

----------------------------------------------------------------------------
(* What the documents say and the code does not do: TLC refutes these.     *)

\* What main.c says of its start, and rov_cfs.h of rov_init: the heartbeat is
\* established first, so rov_init leaves the motors armed.
InitArms ==
  [][pc = "init_arm" /\ pc' = "loop" => motors_armed']_vars
=============================================================================
