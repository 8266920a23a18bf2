------------------------- MODULE RovProgramsProofs -------------------------
(***************************************************************************)
(* Proofs about RovPrograms: the heartbeat bits, the ranges of the         *)
(* counters and the link for all four programs, the arm command for the    *)
(* two main loops, and what a start decides for pwm_sweep and cfs_test,    *)
(* whatever the heartbeat period, the blocking calls and the timeouts, as  *)
(* long as the named assumptions relate them.                              *)
(***************************************************************************)
EXTENDS RovPrograms, TLAPS

(***************************************************************************)
(* The heartbeat bits                                                      *)
(***************************************************************************)

Bits == hb_bit \in {0, 1} /\ hb_toggle_last \in {0, 1}

MainLoop == prog \in {"rov_main", "app"}

Places ==
  /\ prog \in Program
  /\ MainLoop => pc \in {"init", "init_beat", "init_arm", "loop", "arm_beat", "arm", "report"}
  /\ prog = "pwm_sweep" => pc \in {"init", "init_beat", "init_arm", "sweep"}
  /\ prog = "cfs_test" => pc \in {"init", "look", "act", "leds"}

\* BitsAgree, and where cfs_test is before its first heartbeat: that one is
\* sent in the second row of its script.
Synced ==
  hb_bit # hb_toggle_last =>
    IF prog = "cfs_test" THEN pc # "leds" /\ (step = 0 \/ (step = 1 /\ pc # "look"))
    ELSE pc \in {"init", "init_beat"}

BitsInv == Bits /\ Places /\ Synced

\* Only a heartbeat changes the core's bit.
LEMMA CoreBitStays ==
  ASSUME NEW tick \in BOOLEAN,
         \/ NoEffect(tick) \/ Safety!Tick \/ UNCHANGED safety
         \/ Safety!Arm(tick) \/ Safety!Disarm(tick) \/ Safety!Reset
         \/ \E ms \in Nat : Safety!SetTimeout(tick, ms)
  PROVE  hb_toggle_last' = hb_toggle_last
BY DEF NoEffect, safety, Safety!Tick, Safety!Arm, Safety!Disarm, Safety!SetTimeout,
       Safety!Reset

\* After a heartbeat command the bits agree, accepted or not.
LEMMA BeatSyncs ==
  ASSUME Bits, NEW tick \in BOOLEAN, rov_heartbeat(tick)
  PROVE  Bits' /\ hb_bit' = hb_toggle_last'
<1>1. hb_bit' \in {0, 1}
  BY DEF rov_heartbeat, Bits
<1>2. CASE Safety!Heartbeat(tick, hb_bit')
  BY <1>1, <1>2 DEF Safety!Heartbeat, Bits
<1>3. CASE hb_bit' = hb_toggle_last /\ NoEffect(tick)
  BY <1>1, <1>3, CoreBitStays DEF Bits
<1>. QED BY <1>2, <1>3 DEF rov_heartbeat

\* What a step does to the bits: nothing, or a heartbeat.
Quietly == hb_bit' = hb_bit /\ hb_toggle_last' = hb_toggle_last
Beaten  == hb_bit' = hb_toggle_last'

LEMMA WaitBits ==
  ASSUME Wait \/ Slip PROVE Quietly /\ pc' = pc
BY CoreBitStays DEF Wait, Slip, Quietly, program

LEMMA ServiceBits ==
  ASSUME Bits, NEW tick \in BOOLEAN, service_heartbeat(tick)
  PROVE  Bits' /\ pc' = pc /\ (Quietly \/ Beaten)
<1>1. CASE rov_heartbeat(tick)
  BY <1>1, BeatSyncs DEF service_heartbeat, program, Beaten
<1>2. CASE NoEffect(tick) /\ hb_bit' = hb_bit
  BY <1>2, CoreBitStays DEF service_heartbeat, program, Quietly, Bits
<1>. QED BY <1>1, <1>2 DEF service_heartbeat

LEMMA InitBits ==
  ASSUME Bits, NEW tick \in BOOLEAN,
         InitTimeout(tick) \/ InitBeat(tick) \/ InitArm(tick)
  PROVE  /\ Bits'
         /\ \/ pc = "init" /\ pc' = "init_beat"
            \/ pc = "init_beat" /\ pc' = "init_arm" /\ Beaten
            \/ pc = "init_arm" /\ pc' = "loop" /\ Quietly
<1>1. CASE InitTimeout(tick)
  <2>1. hb_toggle_last' = hb_toggle_last
    BY <1>1, CoreBitStays, TimingAssumption DEF InitTimeout
  <2>. QED BY <1>1, <2>1 DEF InitTimeout, Bits
<1>2. CASE InitBeat(tick)
  BY <1>2, BeatSyncs DEF InitBeat, Beaten
<1>3. CASE InitArm(tick)
  BY <1>3, CoreBitStays DEF InitArm, Quietly, Bits
<1>. QED BY <1>1, <1>2, <1>3
LEMMA ConsoleBits ==
  ASSUME Bits, NEW tick \in BOOLEAN,
         \/ ConsoleArm \/ ArmBeat(tick) \/ ArmNow(tick) \/ ConsoleDisarm(tick)
         \/ MavlinkArm(tick) \/ Report \/ Other
  PROVE  /\ Bits' /\ pc # "init" /\ pc # "init_beat" /\ (Quietly \/ Beaten)
         /\ pc' \in {"loop", "arm_beat", "arm", "report", "init"}
         /\ Quietly \/ pc' # "init"
<1>. USE DEF Quietly, Bits
<1>1. CASE ConsoleArm
  BY <1>1, CoreBitStays DEF ConsoleArm
<1>2. CASE ArmBeat(tick)
  BY <1>2, BeatSyncs DEF ArmBeat, Beaten
<1>3. CASE ArmNow(tick)
  BY <1>3, CoreBitStays DEF ArmNow
<1>4. CASE ConsoleDisarm(tick)
  BY <1>4, CoreBitStays DEF ConsoleDisarm
<1>5. CASE MavlinkArm(tick)
  BY <1>5, CoreBitStays DEF MavlinkArm, program
<1>6. CASE Report
  BY <1>6, CoreBitStays DEF Report
<1>7. CASE Other
  BY <1>7, CoreBitStays DEF Other, program
<1>. QED BY <1>1, <1>2, <1>3, <1>4, <1>5, <1>6, <1>7

\* What the two main loops are made of.
LoopStep(tick) ==
  \/ Wait \/ Slip \/ service_heartbeat(tick)
  \/ InitTimeout(tick) \/ InitBeat(tick) \/ InitArm(tick)
  \/ ConsoleArm \/ ArmBeat(tick) \/ ArmNow(tick) \/ ConsoleDisarm(tick)
  \/ MavlinkArm(tick) \/ Report \/ Other

LEMMA LoopSteps ==
  ASSUME RovMain \/ App PROVE MainLoop /\ UNCHANGED own /\ \E tick \in BOOLEAN : LoopStep(tick)
<1>1. CASE RovMain
  BY <1>1 DEF RovMain, MainLoop, LoopStep, Instruction
<1>2. CASE App
  BY <1>2 DEF App, MainLoop, LoopStep, app_boot, app_loop, app_process_command,
              app_cmd_arm, app_cmd_reinit, app_cmd_status, app_prints,
              app_service_heartbeat, app_telemetry
<1>. QED BY <1>1, <1>2

LEMMA LoopBits == ASSUME BitsInv, RovMain \/ App PROVE BitsInv'
<1>1. MainLoop /\ prog' = prog
  BY LoopSteps DEF own
<1>2. PICK tick \in BOOLEAN : LoopStep(tick)
  BY LoopSteps
<1>. USE <1>1 DEF BitsInv, Places, Synced, MainLoop, Program
<1>3. CASE Wait \/ Slip
  BY <1>3, WaitBits DEF Quietly, Bits
<1>4. CASE service_heartbeat(tick)
  BY <1>4, ServiceBits DEF Quietly, Beaten
<1>5. CASE InitTimeout(tick) \/ InitBeat(tick) \/ InitArm(tick)
  BY <1>5, InitBits DEF Quietly, Beaten
<1>6. CASE \/ ConsoleArm \/ ArmBeat(tick) \/ ArmNow(tick) \/ ConsoleDisarm(tick)
           \/ MavlinkArm(tick) \/ Report \/ Other
  BY <1>6, ConsoleBits DEF Quietly, Beaten
<1>. QED BY <1>2, <1>3, <1>4, <1>5, <1>6 DEF LoopStep

LEMMA SweepBits == ASSUME BitsInv, PwmSweep PROVE BitsInv'
<1>1. prog = "pwm_sweep" /\ prog' = prog
  BY DEF PwmSweep, own, pwm_turn, hold_with_heartbeat
<1>. USE <1>1 DEF BitsInv, Places, Synced, MainLoop, Program
<1>2. CASE Wait \/ Slip
  BY <1>2, WaitBits DEF Quietly, Bits
<1>3. ASSUME NEW tick \in BOOLEAN, pwm_boot(tick) PROVE BitsInv'
  <2>1. CASE InitTimeout(tick) \/ InitBeat(tick)
    BY <2>1, InitBits DEF Beaten, InitTimeout, InitBeat
  <2>2. CASE pc = "init_arm" /\ pc' = "sweep" /\ Safety!Arm(tick) /\ hb_bit' = hb_bit
    BY <2>2, CoreBitStays DEF Bits
  <2>. QED BY <1>3, <2>1, <2>2 DEF pwm_boot
<1>4. CASE pwm_turn
  BY <1>4, CoreBitStays DEF pwm_turn, program, Bits
<1>5. ASSUME NEW tick \in BOOLEAN, hold_with_heartbeat(tick) PROVE BitsInv'
  <2>1. CASE rov_heartbeat(tick)
    BY <1>5, <2>1, BeatSyncs DEF hold_with_heartbeat, program
  <2>2. CASE NoEffect(tick) /\ hb_bit' = hb_bit
    BY <1>5, <2>2, CoreBitStays DEF hold_with_heartbeat, program, Bits
  <2>. QED BY <1>5, <2>1, <2>2 DEF hold_with_heartbeat
<1>. QED BY <1>2, <1>3, <1>4, <1>5 DEF PwmSweep

LEMMA TestBits == ASSUME BitsInv, CfsTest PROVE BitsInv'
<1>1. prog = "cfs_test" /\ prog' = prog
  BY DEF CfsTest, own, cfs_command, leds, report
<1>. USE <1>1 DEF BitsInv, Places, Synced, MainLoop, Program
<1>2. CASE (Wait \/ Slip) /\ UNCHANGED own
  BY <1>2, WaitBits DEF own, Quietly, Bits
<1>3. ASSUME NEW tick \in BOOLEAN, cfs_command(tick) PROVE BitsInv'
  <2>1. /\ pc' = "look" /\ step' = step /\ pc # "look" /\ pc # "leds"
        /\ Do(Script[step + 1].do, tick)
    BY <1>3 DEF cfs_command, own
  <2>2. CASE rov_heartbeat(tick)
    BY <2>1, <2>2, BeatSyncs
  <2>3. CASE hb_bit' = hb_bit /\ Script[step + 1].do # "heartbeat"
    <3>1. hb_toggle_last' = hb_toggle_last
      BY <2>1, <2>3, CoreBitStays, ProgramAssumption, TimingAssumption DEF Do
    <3>2. step # 1
      BY <2>3 DEF Script, Entry
    <3>. QED BY <2>1, <2>3, <3>1, <3>2 DEF Bits
  <2>. QED BY <2>1, <2>2, <2>3 DEF Do
<1>4. ASSUME NEW tick \in BOOLEAN, leds(tick) PROVE BitsInv'
  BY <1>4, BeatSyncs DEF leds, program
<1>5. CASE report
  <2>1. hb_bit' = hb_bit /\ hb_toggle_last' = hb_toggle_last /\ step' = step + 1
    BY <1>5, CoreBitStays DEF report
  <2>2. pc = "look" /\ pc' \in {"leds", "act"} /\ (pc' = "leds" => step' = 13)
    BY <1>5 DEF report, Script
  <2>. QED BY <2>1, <2>2 DEF Bits
<1>. QED BY <1>2, <1>3, <1>4, <1>5 DEF CfsTest

\* A reset clears the driver's bit only, and every program starts at "init".
LEMMA StartBits == ASSUME BitsInv, Start PROVE BitsInv'
<1>1. hb_toggle_last' = hb_toggle_last
  BY CoreBitStays DEF Start, Reset
<1>. QED BY <1>1 DEF Start, Reset, BitsInv, Bits, Places, Synced, MainLoop, Program

LEMMA BitsHold == ProgramsSpec => []BitsInv
<1>1. ProgramsInit => BitsInv
  BY DEF ProgramsInit, Init, Safety!Init, BitsInv, Bits, Places, Synced, MainLoop, Program
<1>2. BitsInv /\ [ProgramsNext]_allVars => BitsInv'
  <2>1. ASSUME BitsInv, UNCHANGED allVars PROVE BitsInv'
    BY <2>1 DEF allVars, vars, safety, program, own, BitsInv, Bits, Places, Synced, MainLoop
  <2>. QED BY <2>1, LoopBits, SweepBits, TestBits, StartBits DEF ProgramsNext
<1>. QED BY <1>1, <1>2, PTL DEF ProgramsSpec

\* The heartbeat bits of driver and core disagree only until a program's
\* first heartbeat.
THEOREM BitsAlwaysAgree == ProgramsSpec => []BitsAgree
<1>1. BitsInv => BitsAgree
  BY DEF BitsInv, Bits, Synced, BitsAgree, ToggleInSync
<1>. QED BY <1>1, BitsHold, PTL
(***************************************************************************)
(* The arithmetic of the heartbeat                                         *)
(*                                                                         *)
(* q is the time since the last accepted heartbeat, s the age of           *)
(* g_last_hb, which stops at HbPeriod.                                     *)
(***************************************************************************)

Older(s) == Safety!Saturate(s + 1, HbPeriod)

\* While the program runs and service_heartbeat has just been passed; sp is 1
\* if a strobe may still fall before the next wait.
Awake(q, s, sp) == q <= s /\ (sp = 1 => q < HbPeriod)

\* When service_heartbeat is next, at most lim after the period.
Due(q, s, lim) == q <= HbPeriod + lim /\ (s < HbPeriod => q <= s)

\* In a blocking call that lasts b more.
Blocked(q, s, b) == q + b <= HbPeriod + MaxBlock /\ (s < HbPeriod => q <= s)

LEMMA Timing ==
  /\ HbPeriod \in Nat /\ HbPeriod > 0 /\ MaxBlock \in Nat /\ MaxBlock > 0
  /\ CntMod \in Nat /\ DriverTimeout \in Nat /\ DriverTimeout > 0 /\ DriverTimeout < CntMod
  /\ HbPeriod + MaxBlock < DriverTimeout
BY TimingAssumption

LEMMA OlderRange == ASSUME NEW s \in 0 .. HbPeriod PROVE Older(s) \in 0 .. HbPeriod
BY Timing DEF Older, Safety!Saturate

\* A strobe in a wait of the running program makes service_heartbeat due.
LEMMA AwakeWaits ==
  ASSUME NEW q \in Nat, NEW s \in 0 .. HbPeriod, NEW sp \in {0, 1}, Awake(q, s, sp)
  PROVE  q < DriverTimeout /\ Due(q + 1, Older(s), 1) /\ Due(q + 1, Older(s), MaxBlock)
BY Timing DEF Awake, Due, Older, Safety!Saturate

\* One strobe in a burst of instructions.
LEMMA AwakeTicks ==
  ASSUME NEW q \in Nat, NEW s \in 0 .. HbPeriod, Awake(q, s, 1)
  PROVE  q < DriverTimeout /\ Awake(q + 1, Older(s), 0)
BY Timing DEF Awake, Older, Safety!Saturate

LEMMA AwakeBlocks ==
  ASSUME NEW q \in Nat, NEW s \in 0 .. HbPeriod, NEW sp \in {0, 1}, Awake(q, s, sp),
         NEW b \in 0 .. MaxBlock
  PROVE  Blocked(q, s, b) /\ Due(q, s, MaxBlock)
BY Timing DEF Awake, Blocked, Due

LEMMA BlockedTicks ==
  ASSUME NEW q \in Nat, NEW s \in 0 .. HbPeriod, NEW b \in Nat, b > 0, Blocked(q, s, b)
  PROVE  /\ q < DriverTimeout /\ Blocked(q + 1, Older(s), b - 1)
         /\ b - 1 = 0 => Due(q + 1, Older(s), MaxBlock)
BY Timing DEF Blocked, Due, Older, Safety!Saturate

\* A strobe between the wait and service_heartbeat.
LEMMA DueTicks ==
  ASSUME NEW q \in Nat, NEW s \in 0 .. HbPeriod, Due(q, s, 1)
  PROVE  q < DriverTimeout /\ Due(q + 1, Older(s), 2)
BY Timing DEF Due, Older, Safety!Saturate

\* service_heartbeat has nothing to do, with a strobe or without.
LEMMA DuePasses ==
  ASSUME NEW q \in Nat, NEW s \in 0 .. HbPeriod, NEW lim \in Nat, NEW sp \in {0, 1},
         Due(q, s, lim), s < HbPeriod
  PROVE  q < DriverTimeout /\ Awake(q, s, sp) /\ Awake(q + 1, Older(s), 0)
BY Timing DEF Due, Awake, Older, Safety!Saturate

LEMMA BeatAwake ==
  ASSUME NEW s \in 0 .. HbPeriod, NEW sp \in {0, 1} PROVE Awake(0, s, sp)
BY Timing DEF Awake

(***************************************************************************)
(* The link                                                                *)
(***************************************************************************)

LinkUp == heartbeat_alive /\ quiet = heartbeat_cnt /\ hb_timeout = DriverTimeout

LoopTypes ==
  /\ quiet \in 0 .. CntMod /\ since_hb \in 0 .. HbPeriod /\ busy \in 0 .. MaxBlock
  /\ delay \in Nat /\ poll \in BOOLEAN /\ spare \in {0, 1}

\* Where the program can be while it waits, when it has set the timeout, and
\* that only the start leaves the bits apart: after a reset, or in a re-init.
Stations ==
  /\ pc \in {"init_beat", "init_arm"} => Running
  /\ busy > 0 => (pc = "loop" /\ poll) \/ (pc = "init" /\ quiet = CntMod /\ ~poll)
  /\ pc # "init" \/ poll \/ delay > 0 => hb_timeout = DriverTimeout
  /\ hb_bit # hb_toggle_last => pc = "init_beat" \/ quiet = CntMod
  /\ pc = "arm" => quiet < CntMod

OnTime ==
  quiet < CntMod =>
    /\ LinkUp
    /\ busy = 0 /\ ~poll => Awake(quiet, since_hb, spare)
    /\ busy = 0 /\ poll /\ pc = "loop" => Due(quiet, since_hb, MaxBlock)
    /\ busy = 0 /\ poll /\ pc # "loop" => Due(quiet, since_hb, 2 - spare)
    /\ busy > 0 => Blocked(quiet, since_hb, busy)

LinkInv == MainLoop => LoopTypes /\ Stations /\ OnTime

\* A strobe below the timeout leaves the link up and is counted.
LEMMA StrobePasses ==
  ASSUME quiet \in 0 .. CntMod, quiet < CntMod => LinkUp /\ quiet < DriverTimeout,
         Safety!WatchdogTick(TRUE), hb_timeout' \in {hb_timeout, DriverTimeout}
  PROVE  IF quiet = CntMod THEN quiet' = CntMod
         ELSE quiet' = quiet + 1 /\ quiet + 1 \in 0 .. CntMod - 1 /\ LinkUp'
<1>1. CASE quiet = CntMod
  BY <1>1, Timing DEF Safety!WatchdogTick, Safety!Saturate
<1>2. CASE quiet # CntMod
  <2>1. LinkUp /\ quiet < DriverTimeout
    BY <1>2, Timing
  <2>2. quiet + 1 \in 0 .. CntMod - 1
    BY <2>1, Timing
  <2>3. Safety!Saturate(quiet + 1, CntMod) = quiet + 1
    BY <2>2, Timing DEF Safety!Saturate
  <2>4. (heartbeat_cnt + 1) % CntMod = quiet + 1
    BY <2>1, <2>2, Timing DEF LinkUp
  <2>5. ~Safety!Trips(TRUE)
    BY <2>1, Timing DEF LinkUp, Safety!Trips
  <2>6. heartbeat_alive'
    BY <2>1, <2>5 DEF LinkUp, Safety!WatchdogTick
  <2>7. quiet' = quiet + 1 /\ heartbeat_cnt' = quiet + 1
    BY <2>3, <2>4 DEF Safety!WatchdogTick
  <2>. QED BY <1>2, <2>1, <2>2, <2>6, <2>7 DEF LinkUp
<1>. QED BY <1>1, <1>2

LEMMA StrobeCounts ==
  ASSUME quiet \in 0 .. CntMod, quiet < CntMod => LinkUp /\ quiet < DriverTimeout,
         Safety!WatchdogTick(TRUE), hb_timeout' \in {hb_timeout, DriverTimeout}
  PROVE  /\ quiet' \in 0 .. CntMod
         /\ quiet' < CntMod <=> quiet < CntMod
         /\ quiet' = CntMod <=> quiet = CntMod
         /\ quiet' < CntMod => quiet' = quiet + 1 /\ LinkUp'
<1>1. CASE quiet = CntMod
  BY <1>1, StrobePasses, Timing
<1>2. CASE quiet # CntMod
  <2>1. quiet + 1 \in 0 .. CntMod /\ quiet + 1 < CntMod /\ quiet < CntMod
    BY <1>2, StrobePasses, Timing
  <2>. QED BY <1>2, <2>1, StrobePasses
<1>. QED BY <1>1, <1>2

\* A cycle without a strobe that is no heartbeat leaves the link as it is.
LEMMA SilencePasses ==
  ASSUME quiet < CntMod => LinkUp,
         \/ UNCHANGED safety
         \/ Safety!WatchdogTick(FALSE) /\ hb_timeout' \in {hb_timeout, DriverTimeout}
  PROVE  quiet' = quiet /\ (quiet < CntMod => LinkUp')
<1>1. CASE UNCHANGED safety
  BY <1>1 DEF safety, LinkUp
<1>2. CASE Safety!WatchdogTick(FALSE) /\ hb_timeout' \in {hb_timeout, DriverTimeout}
  <2>1. quiet' = quiet /\ heartbeat_cnt' = heartbeat_cnt
    BY <1>2 DEF Safety!WatchdogTick
  <2>2. heartbeat_alive => heartbeat_alive'
    BY <1>2 DEF Safety!WatchdogTick, Safety!Trips
  <2>. QED BY <1>2, <2>1, <2>2 DEF LinkUp
<1>. QED BY <1>1, <1>2
\* What a burst of instructions, or a strobe in it, leaves of OnTime.
Ran ==
  /\ quiet' \in 0 .. CntMod /\ since_hb' \in 0 .. HbPeriod /\ spare' \in {0, 1}
  /\ quiet' = CntMod <=> quiet = CntMod
  /\ quiet' < CntMod => LinkUp' /\ Awake(quiet', since_hb', spare')

LEMMA TickRuns ==
  ASSUME LoopTypes, OnTime, Running, spare = 1, spare' = 0, Age(TRUE),
         Safety!WatchdogTick(TRUE), hb_timeout' \in {hb_timeout, DriverTimeout}
  PROVE  Ran
<1>1. since_hb' = Older(since_hb) /\ since_hb' \in 0 .. HbPeriod
  BY OlderRange DEF Age, Older, LoopTypes
<1>2. CASE quiet = CntMod
  <2>1. quiet' = CntMod
    BY <1>2, StrobePasses, Timing DEF LoopTypes
  <2>. QED BY <1>1, <1>2, <2>1, Timing DEF Ran
<1>3. CASE quiet # CntMod
  <2>1. quiet \in Nat /\ quiet < CntMod /\ LinkUp /\ Awake(quiet, since_hb, 1)
    BY <1>3, Timing DEF LoopTypes, OnTime, Running
  <2>2. quiet < DriverTimeout /\ Awake(quiet + 1, Older(since_hb), 0)
    BY <2>1, AwakeTicks DEF LoopTypes
  <2>3. quiet' = quiet + 1 /\ quiet + 1 \in 0 .. CntMod - 1 /\ LinkUp'
    BY <1>3, <2>1, <2>2, StrobePasses DEF LoopTypes
  <2>4. quiet' \in 0 .. CntMod /\ quiet' # CntMod
    BY <2>3, Timing
  <2>. QED BY <1>1, <1>3, <2>2, <2>3, <2>4 DEF Ran
<1>. QED BY <1>2, <1>3

LEMMA BurstRuns ==
  ASSUME LoopTypes, OnTime, Running, NEW tick \in BOOLEAN, Burst(tick),
         \/ NoEffect(tick)
         \/ Safety!WatchdogTick(tick) /\ hb_timeout' \in {hb_timeout, DriverTimeout}
  PROVE  Ran
<1>1. CASE tick
  <2>1. Safety!WatchdogTick(TRUE) /\ hb_timeout' \in {hb_timeout, DriverTimeout}
    BY <1>1 DEF NoEffect, Safety!Tick
  <2>. QED BY <1>1, <2>1, TickRuns DEF Burst
<1>2. CASE ~tick
  <2>1. since_hb' = since_hb /\ spare' = spare
    BY <1>2 DEF Burst, Age
  <2>2. quiet' = quiet /\ (quiet < CntMod => LinkUp')
    BY <1>2, SilencePasses DEF NoEffect, OnTime
  <2>. QED BY <2>1, <2>2 DEF Ran, LoopTypes, OnTime, Running
<1>. QED BY <1>1, <1>2

\* The same for a heartbeat, which is never ignored while the bits agree.
LEMMA BeatRuns ==
  ASSUME LoopTypes, OnTime, Running, Bits, NEW tick \in BOOLEAN, Burst(tick),
         rov_heartbeat(tick), hb_timeout = DriverTimeout
  PROVE  /\ Ran \/ quiet = CntMod
         /\ quiet' \in 0 .. CntMod /\ since_hb' \in 0 .. HbPeriod /\ spare' \in {0, 1}
         /\ quiet' < CntMod => LinkUp' /\ Awake(quiet', since_hb', spare')
         /\ hb_bit = hb_toggle_last => quiet' = 0
         /\ quiet < CntMod => quiet' < CntMod
         /\ hb_timeout' = hb_timeout
<1>1. since_hb' \in 0 .. HbPeriod /\ spare' \in {0, 1}
  BY OlderRange DEF Burst, Age, Older, LoopTypes
<1>2. CASE Safety!Heartbeat(tick, hb_bit')
  <2>1. quiet' = 0 /\ LinkUp' /\ hb_timeout' = hb_timeout
    BY <1>2 DEF Safety!Heartbeat, LinkUp
  <2>2. Awake(0, since_hb', spare')
    BY <1>1, BeatAwake
  <2>3. quiet' \in 0 .. CntMod /\ quiet' < CntMod
    BY <2>1, Timing
  <2>4. Ran \/ quiet = CntMod
    BY <1>1, <2>1, <2>2, <2>3, Timing DEF Ran
  <2>. QED BY <1>1, <2>1, <2>2, <2>3, <2>4
<1>3. CASE hb_bit' = hb_toggle_last /\ NoEffect(tick)
  <2>1. Ran
    BY <1>3, BurstRuns
  <2>2. hb_bit # hb_toggle_last
    BY <1>3 DEF rov_heartbeat, Bits
  <2>3. hb_timeout' = hb_timeout
    BY <1>3 DEF NoEffect, Safety!Tick, safety
  <2>4. quiet < CntMod => quiet' < CntMod
    BY <2>1, Timing DEF Ran, LoopTypes
  <2>. QED BY <2>1, <2>2, <2>3, <2>4 DEF Ran
<1>. QED BY <1>2, <1>3 DEF rov_heartbeat
\* After the burst the program runs on, waits in a delay, or blocks.
LEMMA StaysAwake ==
  ASSUME quiet' < CntMod => LinkUp' /\ Awake(quiet', since_hb', spare'), busy' = 0, ~poll'
  PROVE  OnTime'
BY DEF OnTime

LEMMA ThenBlocks ==
  ASSUME Ran, busy' \in 0 .. MaxBlock, poll', pc' = "loop" PROVE OnTime'
<1>. SUFFICES ASSUME quiet' < CntMod PROVE OnTime'
  BY DEF OnTime
<1>1. LinkUp' /\ Awake(quiet', since_hb', spare')
  BY DEF Ran
<1>2. quiet' \in Nat /\ since_hb' \in 0 .. HbPeriod /\ spare' \in {0, 1}
  BY Timing DEF Ran
<1>3. Blocked(quiet', since_hb', busy') /\ Due(quiet', since_hb', MaxBlock)
  BY <1>1, <1>2, AwakeBlocks
<1>. QED BY <1>1, <1>3 DEF OnTime

LoopState == LoopTypes /\ Stations /\ OnTime

LEMMA InitLink ==
  ASSUME LoopState, Bits, NEW tick \in BOOLEAN,
         InitTimeout(tick) \/ InitBeat(tick) \/ InitArm(tick)
  PROVE  LoopState'
<1>. USE DEF LoopState
<1>1. CASE InitTimeout(tick)
  <2>1. hb_timeout' = DriverTimeout /\ Safety!WatchdogTick(tick)
    BY <1>1, Timing DEF InitTimeout, Safety!SetTimeout
  <2>2. Ran
    BY <1>1, <2>1, BurstRuns DEF InitTimeout
  <2>3. Running /\ Running' /\ busy' = 0 /\ delay' = 0 /\ ~poll' /\ pc' = "init_beat"
    BY <1>1 DEF InitTimeout, waiting, Running
  <2>4. OnTime'
    BY <2>2, <2>3, StaysAwake DEF Ran
  <2>5. LoopTypes'
    BY <1>1, <2>2, <2>3 DEF LoopTypes, Ran, InitTimeout, waiting
  <2>. QED BY <2>1, <2>3, <2>4, <2>5 DEF Stations
<1>2. CASE InitBeat(tick)
  <2>1. Running /\ Running' /\ busy' = 0 /\ delay' = 0 /\ ~poll' /\ pc' = "init_arm"
    BY <1>2 DEF InitBeat, waiting, Running
  <2>2. hb_timeout = DriverTimeout
    BY <1>2 DEF InitBeat, Stations
  <2>3. /\ quiet' \in 0 .. CntMod /\ since_hb' \in 0 .. HbPeriod /\ spare' \in {0, 1}
        /\ quiet' < CntMod => LinkUp' /\ Awake(quiet', since_hb', spare')
        /\ hb_timeout' = DriverTimeout
    BY <1>2, <2>1, <2>2, BeatRuns DEF InitBeat
  <2>4. OnTime'
    BY <2>1, <2>3, StaysAwake
  <2>5. hb_bit' = hb_toggle_last'
    BY <1>2, BeatSyncs DEF InitBeat
  <2>6. LoopTypes'
    BY <1>2, <2>1, <2>3 DEF LoopTypes, InitBeat, waiting
  <2>. QED BY <2>1, <2>3, <2>4, <2>5, <2>6 DEF Stations
<1>3. CASE InitArm(tick)
  <2>1. Safety!WatchdogTick(tick) /\ hb_timeout' = hb_timeout /\ hb_toggle_last' = hb_toggle_last
    BY <1>3 DEF InitArm, Safety!Arm
  <2>2. Ran
    BY <1>3, <2>1, BurstRuns DEF InitArm
  <2>3. /\ pc = "init_arm" /\ pc' = "loop" /\ busy' \in 0 .. MaxBlock /\ poll' = TRUE
        /\ delay' = delay /\ hb_bit' = hb_bit
    BY <1>3 DEF InitArm, Block
  <2>4. OnTime'
    BY <2>2, <2>3, ThenBlocks
  <2>5. LoopTypes'
    BY <2>2, <2>3 DEF LoopTypes, Ran
  <2>6. hb_timeout' = DriverTimeout
    BY <2>1, <2>3 DEF Stations
  <2>7. hb_bit' # hb_toggle_last' => quiet' = CntMod
    BY <2>1, <2>2, <2>3 DEF Stations, Ran
  <2>. QED BY <2>3, <2>4, <2>5, <2>6, <2>7 DEF Stations
<1>. QED BY <1>1, <1>2, <1>3

LEMMA CommandLink ==
  ASSUME LoopState, Bits, NEW tick \in BOOLEAN,
         ArmNow(tick) \/ ConsoleDisarm(tick) \/ MavlinkArm(tick)
  PROVE  LoopState'
<1>1. /\ pc \in {"arm", "loop"} /\ Running /\ Burst(tick) /\ hb_bit' = hb_bit
      /\ Safety!Arm(tick) \/ Safety!Disarm(tick)
      /\ pc' \in {"report", "init", "loop"}
      /\ busy' = busy /\ poll' = poll /\ delay' \in {delay, CmdPause}
  BY DEF ArmNow, ConsoleDisarm, MavlinkArm, program, waiting
<1>2. Safety!WatchdogTick(tick) /\ hb_timeout' = hb_timeout /\ hb_toggle_last' = hb_toggle_last
  BY <1>1 DEF Safety!Arm, Safety!Disarm
<1>3. Ran
  BY <1>1, <1>2, BurstRuns DEF LoopState
<1>4. busy' = 0 /\ ~poll'
  BY <1>1 DEF Running
<1>5. OnTime'
  BY <1>3, <1>4, StaysAwake DEF Ran
<1>6. LoopTypes'
  BY <1>1, <1>3, <1>4, TimingAssumption DEF LoopState, LoopTypes, Ran
<1>7. hb_timeout' = DriverTimeout
  BY <1>1, <1>2 DEF LoopState, Stations
<1>8. hb_bit' # hb_toggle_last' => quiet' = CntMod
  BY <1>1, <1>2, <1>3 DEF LoopState, Stations, Ran
<1>. QED BY <1>1, <1>4, <1>5, <1>6, <1>7, <1>8 DEF LoopState, Stations

LEMMA BeatLink ==
  ASSUME LoopState, BitsInv, MainLoop, NEW tick \in BOOLEAN, ArmBeat(tick)
  PROVE  LoopState'
<1>1. /\ pc = "arm_beat" /\ Running /\ Burst(tick) /\ rov_heartbeat(tick)
      /\ pc' \in {"arm", "arm_beat"} /\ busy' = busy /\ poll' = poll /\ delay' \in 0 .. ArmPause
  BY DEF ArmBeat
<1>2. hb_bit = hb_toggle_last /\ hb_timeout = DriverTimeout
  BY <1>1 DEF BitsInv, Synced, MainLoop, LoopState, Stations
<1>3. /\ quiet' = 0 /\ quiet' \in 0 .. CntMod /\ since_hb' \in 0 .. HbPeriod
      /\ spare' \in {0, 1} /\ hb_timeout' = DriverTimeout
      /\ quiet' < CntMod => LinkUp' /\ Awake(quiet', since_hb', spare')
  BY <1>1, <1>2, BeatRuns DEF LoopState, BitsInv
<1>4. busy' = 0 /\ ~poll'
  BY <1>1 DEF Running
<1>5. OnTime'
  BY <1>3, <1>4, StaysAwake
<1>6. delay' \in Nat
  BY <1>1, TimingAssumption
<1>7. LoopTypes'
  BY <1>1, <1>3, <1>4, <1>6 DEF LoopState, LoopTypes
<1>8. hb_bit' = hb_toggle_last'
  BY <1>1, BeatSyncs DEF BitsInv
<1>9. quiet' < CntMod
  BY <1>3, Timing
<1>. QED BY <1>1, <1>3, <1>4, <1>5, <1>7, <1>8, <1>9 DEF LoopState, Stations
LEMMA InstantLink ==
  ASSUME LoopState, ConsoleArm \/ Report \/ Other PROVE LoopState'
<1>1. /\ pc \in {"loop", "report"} /\ Running /\ UNCHANGED <<safety, hb_bit, since_hb, spare>>
      /\ delay' = delay
  BY DEF ConsoleArm, Report, Other, waiting, Block
<1>2. hb_timeout' = hb_timeout /\ hb_toggle_last' = hb_toggle_last
  BY <1>1 DEF safety
<1>3. Ran
  <2>1. quiet' = quiet /\ (quiet < CntMod => LinkUp')
    BY <1>1, SilencePasses DEF LoopState, OnTime
  <2>. QED BY <1>1, <2>1 DEF LoopState, LoopTypes, OnTime, Running, Ran
<1>4. \/ pc' = "arm_beat" /\ busy' = 0 /\ poll' = FALSE
      \/ pc' = "loop" /\ busy' \in 0 .. MaxBlock /\ poll' = TRUE
  <2>1. CASE ConsoleArm
    BY <2>1 DEF ConsoleArm, waiting, Running, LoopState, LoopTypes
  <2>2. CASE Report \/ Other
    <3>1. pc' = "loop" /\ busy' \in 0 .. MaxBlock
      BY <2>2 DEF Report, Other, Block, program
    <3>2. poll' = TRUE
      BY <2>2, <3>1 DEF Report, Other, Block
    <3>. QED BY <3>1, <3>2
  <2>. QED BY <2>1, <2>2
<1>5. OnTime'
  BY <1>3, <1>4, StaysAwake, ThenBlocks DEF Ran
<1>6. LoopTypes'
  <2>1. 0 \in 0 .. MaxBlock
    BY Timing
  <2>2. busy' \in 0 .. MaxBlock
    BY <1>4, <2>1
  <2>3. poll' \in BOOLEAN
    BY <1>4
  <2>. QED BY <1>1, <1>3, <2>2, <2>3 DEF LoopState, LoopTypes, Ran
<1>7. hb_timeout' = DriverTimeout
  BY <1>1, <1>2 DEF LoopState, Stations
<1>8. hb_bit' # hb_toggle_last' => quiet' = CntMod
  BY <1>1, <1>2, <1>3 DEF LoopState, Stations, Ran
<1>. QED BY <1>4, <1>5, <1>6, <1>7, <1>8 DEF LoopState, Stations

\* A strobe in a wait: it is counted, and below the timeout.
LEMMA WaitLink == ASSUME LoopState, Wait PROVE LoopState'
<1>. USE DEF LoopState
<1>1. /\ Safety!WatchdogTick(TRUE) /\ hb_timeout' = hb_timeout /\ hb_toggle_last' = hb_toggle_last
      /\ hb_bit' = hb_bit /\ pc' = pc /\ spare' = 1
  BY DEF Wait, Safety!Tick, program
<1>2. since_hb' = Older(since_hb) /\ since_hb' \in 0 .. HbPeriod
  BY OlderRange DEF Wait, Age, Older, LoopTypes
<1>3. /\ quiet < CntMod => LinkUp /\ quiet < DriverTimeout
      /\ quiet < CntMod /\ busy > 0 /\ poll =>
           /\ Blocked(quiet + 1, Older(since_hb), busy - 1)
           /\ busy - 1 = 0 => Due(quiet + 1, Older(since_hb), MaxBlock)
      /\ quiet < CntMod /\ busy = 0 /\ ~poll =>
           /\ Due(quiet + 1, Older(since_hb), 1)
           /\ Due(quiet + 1, Older(since_hb), MaxBlock)
  <2>. SUFFICES ASSUME quiet < CntMod
                PROVE  /\ LinkUp /\ quiet < DriverTimeout
                       /\ busy > 0 /\ poll =>
                            /\ Blocked(quiet + 1, Older(since_hb), busy - 1)
                            /\ busy - 1 = 0 => Due(quiet + 1, Older(since_hb), MaxBlock)
                       /\ busy = 0 /\ ~poll =>
                            /\ Due(quiet + 1, Older(since_hb), 1)
                            /\ Due(quiet + 1, Older(since_hb), MaxBlock)
    OBVIOUS
  <2>1. quiet \in Nat /\ since_hb \in 0 .. HbPeriod /\ spare \in {0, 1} /\ busy \in Nat
    BY Timing DEF LoopTypes
  <2>2. CASE busy > 0
    <3>1. Blocked(quiet, since_hb, busy) /\ LinkUp
      BY <2>2 DEF OnTime
    <3>. QED BY <2>1, <2>2, <3>1, BlockedTicks
  <2>3. CASE busy = 0
    <3>1. ~poll
      BY <2>3 DEF Wait, Running
    <3>2. Awake(quiet, since_hb, spare) /\ LinkUp
      BY <2>3, <3>1 DEF OnTime
    <3>. QED BY <2>1, <2>3, <3>1, <3>2, AwakeWaits
  <2>. QED BY <2>1, <2>2, <2>3
<1>5. /\ quiet' \in 0 .. CntMod /\ (quiet' = CntMod <=> quiet = CntMod)
      /\ quiet' < CntMod <=> quiet < CntMod
  BY <1>1, <1>3, StrobeCounts DEF LoopTypes
<1>6. quiet' < CntMod => quiet < CntMod /\ quiet' = quiet + 1 /\ LinkUp'
  BY <1>1, <1>3, StrobeCounts DEF LoopTypes
<1>7. CASE busy > 0 /\ busy' = busy - 1 /\ UNCHANGED <<delay, poll>>
  <2>1. busy - 1 \in 0 .. MaxBlock
    BY <1>7, Timing DEF LoopTypes
  <2>2. LoopTypes'
    BY <1>1, <1>2, <1>5, <1>7, <2>1 DEF LoopTypes
  <2>3. Stations'
    BY <1>1, <1>5, <1>7, <2>1 DEF Stations, Running, LoopTypes
  <2>4. OnTime'
    <3>. SUFFICES ASSUME quiet' < CntMod PROVE OnTime'
      BY DEF OnTime
    <3>1. poll /\ pc = "loop"
      BY <1>6, <1>7, Timing DEF Stations
    <3>2. Blocked(quiet', since_hb', busy') /\ (busy' = 0 => Due(quiet', since_hb', MaxBlock))
      BY <1>2, <1>3, <1>6, <1>7, <3>1
    <3>. QED BY <1>1, <1>6, <1>7, <3>1, <3>2 DEF OnTime
  <2>. QED BY <2>2, <2>3, <2>4
<1>8. CASE busy = 0 /\ ~poll /\ poll' = TRUE /\ busy' = 0 /\ (delay > 0 \/ pc = "loop")
           /\ delay' \in Nat /\ pc \notin {"init_beat", "init_arm"}
  <2>1. LoopTypes'
    BY <1>1, <1>2, <1>5, <1>8, Timing DEF LoopTypes
  <2>2. hb_timeout = DriverTimeout
    BY <1>8 DEF Stations
  <2>3. Stations'
    BY <1>1, <1>5, <1>6, <1>8, <2>2, Timing DEF Stations, LoopTypes
  <2>4. OnTime'
    <3>. SUFFICES ASSUME quiet' < CntMod PROVE OnTime'
      BY DEF OnTime
    <3>1. Due(quiet', since_hb', 1) /\ Due(quiet', since_hb', MaxBlock)
      BY <1>2, <1>3, <1>6, <1>8
    <3>2. 2 - spare' = 1
      BY <1>1
    <3>. QED BY <1>1, <1>6, <1>8, <3>1, <3>2 DEF OnTime
  <2>. QED BY <2>1, <2>3, <2>4
<1>9. CASE busy = 0 /\ delay > 0 /\ ~poll /\ delay' = delay - 1 /\ poll' = TRUE
           /\ UNCHANGED busy
  <2>1. pc \notin {"init_beat", "init_arm"}
    BY <1>9 DEF Stations, Running, LoopTypes
  <2>2. delay' \in Nat
    BY <1>9 DEF LoopTypes
  <2>. QED BY <1>8, <1>9, <2>1, <2>2
<1>10. CASE Running /\ pc = "loop" /\ poll' = TRUE /\ UNCHANGED <<busy, delay>>
  <2>1. delay' \in Nat /\ busy = 0 /\ ~poll /\ busy' = 0
    BY <1>10 DEF Running, LoopTypes
  <2>. QED BY <1>8, <1>10, <2>1
<1>. QED BY <1>7, <1>9, <1>10 DEF Wait

\* A strobe between two instructions, before service_heartbeat or in a burst.
LEMMA SlipLink == ASSUME LoopState, Slip PROVE LoopState'
<1>. USE DEF LoopState
<1>1. /\ Safety!WatchdogTick(TRUE) /\ hb_timeout' = hb_timeout /\ hb_toggle_last' = hb_toggle_last
      /\ hb_bit' = hb_bit /\ pc' = pc /\ spare = 1 /\ spare' = 0 /\ Age(TRUE)
      /\ busy = 0 /\ busy' = busy /\ delay' = delay /\ poll' = poll /\ pc # "loop"
  BY DEF Slip, Safety!Tick, program, waiting
<1>2. since_hb' = Older(since_hb) /\ since_hb' \in 0 .. HbPeriod
  BY <1>1, OlderRange DEF Age, Older, LoopTypes
<1>3. CASE Running
  <2>1. Ran /\ ~poll
    BY <1>1, <1>3, TickRuns DEF Running
  <2>2. OnTime'
    BY <1>1, <2>1, StaysAwake DEF Ran
  <2>3. LoopTypes'
    BY <1>1, <2>1 DEF LoopTypes, Ran
  <2>4. quiet < CntMod <=> quiet' < CntMod
    BY <2>1, Timing DEF Ran, LoopTypes
  <2>. QED BY <1>1, <1>3, <2>1, <2>2, <2>3, <2>4 DEF Stations, Running, Ran
<1>4. CASE poll
  <2>1. 2 - spare = 1 /\ 2 - spare' = 2
    BY <1>1
  <2>2. quiet < CntMod => LinkUp /\ Due(quiet, since_hb, 1)
    BY <1>1, <1>4, <2>1 DEF OnTime
  <2>3. quiet < CntMod => quiet < DriverTimeout /\ Due(quiet + 1, Older(since_hb), 2)
    <3>. SUFFICES ASSUME quiet < CntMod
                  PROVE  quiet < DriverTimeout /\ Due(quiet + 1, Older(since_hb), 2)
      OBVIOUS
    <3>1. quiet \in Nat /\ since_hb \in 0 .. HbPeriod
      BY Timing DEF LoopTypes
    <3>. QED BY <2>2, <3>1, DueTicks
  <2>4. /\ quiet' \in 0 .. CntMod
        /\ quiet' < CntMod <=> quiet < CntMod
        /\ quiet' = CntMod <=> quiet = CntMod
        /\ quiet' < CntMod => quiet' = quiet + 1 /\ LinkUp'
    BY <1>1, <2>2, <2>3, StrobeCounts DEF LoopTypes
  <2>5. OnTime'
    <3>. SUFFICES ASSUME quiet' < CntMod PROVE OnTime'
      BY DEF OnTime
    <3>1. Due(quiet', since_hb', 2 - spare') /\ LinkUp'
      BY <1>2, <2>1, <2>3, <2>4
    <3>. QED BY <1>1, <1>4, <3>1 DEF OnTime
  <2>6. LoopTypes'
    BY <1>1, <1>2, <2>4 DEF LoopTypes
  <2>. QED BY <1>1, <1>4, <2>4, <2>5, <2>6 DEF Stations, Running
<1>. QED BY <1>3, <1>4 DEF Slip

\* The heartbeat service: it comes in time, and never finds the bits apart
\* while the link is up.
LEMMA ServiceLink ==
  ASSUME LoopState, BitsInv, NEW tick \in BOOLEAN, service_heartbeat(tick)
  PROVE  LoopState'
<1>. USE DEF LoopState
<1>1. /\ poll /\ busy = 0 /\ busy' = 0 /\ poll' = FALSE /\ pc' = pc /\ delay' = delay
      /\ tick => spare = 1
      /\ spare' = IF tick THEN 0 ELSE spare
  BY DEF service_heartbeat, program
<1>2. hb_timeout = DriverTimeout /\ pc \notin {"init_beat", "init_arm"}
  BY <1>1 DEF Stations, Running
<1>3. spare' \in {0, 1}
  BY <1>1 DEF LoopTypes
<1>4. CASE since_hb = HbPeriod /\ rov_heartbeat(tick) /\ since_hb' = 0
  <2>1. since_hb' \in 0 .. HbPeriod /\ Awake(0, since_hb', spare')
    BY <1>3, <1>4, BeatAwake, Timing
  <2>2. hb_bit' = hb_toggle_last'
    BY <1>4, BeatSyncs DEF BitsInv
  <2>3. CASE Safety!Heartbeat(tick, hb_bit')
    <3>1. quiet' = 0 /\ LinkUp' /\ hb_timeout' = DriverTimeout
      BY <1>2, <2>3 DEF Safety!Heartbeat, LinkUp
    <3>2. quiet' \in 0 .. CntMod /\ quiet' < CntMod
      BY <3>1, Timing
    <3>3. OnTime'
      BY <1>1, <2>1, <3>1, StaysAwake
    <3>4. LoopTypes'
      BY <1>1, <1>3, <2>1, <3>2, Timing DEF LoopTypes
    <3>. QED BY <1>1, <1>2, <2>2, <3>1, <3>2, <3>3, <3>4 DEF Stations
  <2>4. CASE hb_bit' = hb_toggle_last /\ NoEffect(tick)
    <3>1. hb_bit # hb_toggle_last
      BY <1>4, <2>4 DEF rov_heartbeat, BitsInv, Bits
    <3>2. quiet = CntMod
      BY <1>2, <3>1 DEF Stations
    <3>3. quiet' = CntMod /\ hb_timeout' = DriverTimeout
      <4>1. CASE tick
        BY <1>2, <2>4, <3>2, <4>1, StrobePasses, Timing DEF NoEffect, Safety!Tick, LoopTypes
      <4>2. CASE ~tick
        BY <1>2, <2>4, <3>2, <4>2 DEF NoEffect, safety
      <4>. QED BY <4>1, <4>2
    <3>4. OnTime'
      BY <3>3, Timing DEF OnTime
    <3>5. LoopTypes'
      <4>1. CntMod \in 0 .. CntMod /\ 0 \in 0 .. MaxBlock
        BY Timing
      <4>2. poll' \in BOOLEAN
        BY <1>1
      <4>. QED BY <1>1, <1>3, <2>1, <3>3, <4>1, <4>2 DEF LoopTypes
    <3>6. pc # "arm"
      BY <3>2, Timing DEF Stations
    <3>. QED BY <1>1, <1>2, <2>2, <3>3, <3>4, <3>5, <3>6 DEF Stations
  <2>. QED BY <1>4, <2>3, <2>4 DEF rov_heartbeat
<1>5. CASE since_hb < HbPeriod /\ NoEffect(tick) /\ Age(tick) /\ hb_bit' = hb_bit
  <2>1. /\ hb_timeout' = DriverTimeout /\ hb_toggle_last' = hb_toggle_last
        /\ tick => Safety!WatchdogTick(TRUE)
        /\ ~tick => UNCHANGED safety
    BY <1>2, <1>5 DEF NoEffect, Safety!Tick, safety
  <2>2. quiet < CntMod =>
          /\ quiet < DriverTimeout /\ LinkUp /\ Awake(quiet, since_hb, spare)
          /\ Awake(quiet + 1, Older(since_hb), 0)
    <3>. SUFFICES ASSUME quiet < CntMod
                  PROVE  /\ quiet < DriverTimeout /\ LinkUp /\ Awake(quiet, since_hb, spare)
                         /\ Awake(quiet + 1, Older(since_hb), 0)
      OBVIOUS
    <3>1. /\ quiet \in Nat /\ since_hb \in 0 .. HbPeriod /\ spare \in {0, 1}
          /\ 2 - spare \in Nat /\ MaxBlock \in Nat
      BY Timing DEF LoopTypes
    <3>2. LinkUp /\ (Due(quiet, since_hb, MaxBlock) \/ Due(quiet, since_hb, 2 - spare))
      BY <1>1 DEF OnTime
    <3>. QED BY <1>5, <3>1, <3>2, DuePasses
  <2>3. CASE tick
    <3>1. /\ quiet' \in 0 .. CntMod
          /\ quiet' < CntMod <=> quiet < CntMod
          /\ quiet' = CntMod <=> quiet = CntMod
          /\ quiet' < CntMod => quiet' = quiet + 1 /\ LinkUp'
      BY <1>2, <2>1, <2>2, <2>3, StrobeCounts DEF LoopTypes
    <3>2. since_hb' = Older(since_hb) /\ since_hb' \in 0 .. HbPeriod
      BY <1>5, <2>3, OlderRange DEF Age, Older, LoopTypes
    <3>3. quiet' < CntMod => Awake(quiet', since_hb', spare')
      BY <1>1, <2>2, <2>3, <3>1, <3>2
    <3>4. OnTime'
      BY <1>1, <3>1, <3>3, StaysAwake
    <3>5. LoopTypes'
      BY <1>1, <1>3, <3>1, <3>2, Timing DEF LoopTypes
    <3>. QED BY <1>1, <1>2, <1>5, <2>1, <3>1, <3>4, <3>5 DEF Stations
  <2>4. CASE ~tick
    <3>1. quiet' = quiet /\ since_hb' = since_hb /\ spare' = spare
      BY <1>1, <1>5, <2>1, <2>4 DEF Age, safety
    <3>2. quiet' < CntMod => LinkUp' /\ Awake(quiet', since_hb', spare')
      BY <2>1, <2>2, <2>4, <3>1 DEF LinkUp, safety
    <3>3. OnTime'
      BY <1>1, <3>2, StaysAwake
    <3>4. LoopTypes'
      BY <1>1, <3>1, Timing DEF LoopTypes
    <3>. QED BY <1>1, <1>2, <1>5, <2>1, <3>1, <3>3, <3>4 DEF Stations
  <2>. QED BY <2>3, <2>4
<1>. QED BY <1>4, <1>5 DEF service_heartbeat

LEMMA LoopLink == ASSUME LinkInv, BitsInv, RovMain \/ App PROVE LinkInv'
<1>1. MainLoop /\ LoopState /\ Bits
  BY LoopSteps DEF LinkInv, LoopState, BitsInv
<1>2. PICK tick \in BOOLEAN : LoopStep(tick)
  BY LoopSteps
<1>3. LoopState'
  BY <1>1, <1>2, WaitLink, SlipLink, ServiceLink, InitLink, InstantLink, BeatLink, CommandLink
     DEF LoopStep
<1>. QED BY <1>3 DEF LinkInv, LoopState

\* Every start is quiet, whatever program ran before.
LEMMA FreshLink ==
  ASSUME quiet = CntMod, since_hb = 0, busy \in 0 .. MaxBlock, delay = 0, poll = FALSE, spare = 1,
         pc = "init"
  PROVE  LinkInv
<1>1. LoopTypes
  <2>1. CntMod \in 0 .. CntMod /\ 0 \in 0 .. HbPeriod
    BY Timing
  <2>2. poll \in BOOLEAN
    OBVIOUS
  <2>. QED BY <2>1, <2>2 DEF LoopTypes
<1>2. Stations
  BY Timing DEF Stations, Running
<1>. QED BY <1>1, <1>2, Timing DEF LinkInv, OnTime

LEMMA LinkHolds == ProgramsSpec => []LinkInv
<1>1. ProgramsInit => LinkInv
  BY FreshLink DEF ProgramsInit, Init, Safety!Init
<1>2. LinkInv /\ BitsInv /\ [ProgramsNext]_allVars => LinkInv'
  <2>. SUFFICES ASSUME LinkInv, BitsInv, [ProgramsNext]_allVars PROVE LinkInv'
    OBVIOUS
  <2>1. CASE UNCHANGED allVars
    BY <2>1 DEF allVars, vars, safety, program, waiting, own, LinkInv, MainLoop, LoopTypes,
                Stations, OnTime, LinkUp, Running
  <2>2. CASE RovMain \/ App
    BY <2>2, LoopLink
  <2>3. CASE PwmSweep \/ CfsTest
    <3>1. prog' = prog /\ prog \in {"pwm_sweep", "cfs_test"}
      BY <2>3 DEF PwmSweep, CfsTest, own, pwm_turn, hold_with_heartbeat, cfs_command, leds, report
    <3>. QED BY <3>1 DEF LinkInv, MainLoop
  <2>4. CASE Start
    <3>1. /\ quiet' = CntMod /\ since_hb' = 0 /\ busy' \in 0 .. MaxBlock /\ delay' = 0
          /\ poll' = FALSE /\ spare' = 1 /\ pc' = "init"
      BY <2>4 DEF Start, Reset, Safety!Reset, Safety!ResetState
    <3>2. LoopTypes'
      <4>1. CntMod \in 0 .. CntMod /\ 0 \in 0 .. HbPeriod
        BY Timing
      <4>2. poll' \in BOOLEAN
        BY <3>1
      <4>. QED BY <3>1, <4>1, <4>2 DEF LoopTypes
    <3>3. Stations'
      BY <3>1, Timing DEF Stations, Running
    <3>4. OnTime'
      BY <3>1, Timing DEF OnTime
    <3>. QED BY <3>2, <3>3, <3>4 DEF LinkInv
  <2>. QED BY <2>1, <2>2, <2>3, <2>4 DEF ProgramsNext
<1>. QED BY <1>1, <1>2, BitsHold, PTL DEF ProgramsSpec

\* The console's arm command of rov_main and app arms in every state in which
\* it gets that far, even after a reset that left the bits apart.
THEOREM ArmCommandArms == ProgramsSpec => ConsoleArmArms
<1>1. LinkInv /\ BitsInv /\ [ProgramsNext]_allVars
        => [pc = "arm" /\ pc' = "report" => motors_armed']_vars
  <2>. SUFFICES ASSUME LinkInv, BitsInv, ProgramsNext, pc = "arm", pc' = "report"
                PROVE  motors_armed'
    BY DEF allVars
  <2>1. MainLoop
    BY DEF BitsInv, Places, MainLoop, Program
  <2>2. heartbeat_alive
    BY <2>1 DEF LinkInv, Stations, OnTime, LinkUp
  <2>3. RovMain \/ App
    BY <2>1 DEF ProgramsNext, PwmSweep, CfsTest, MainLoop, Start, Reset
  <2>4. PICK tick \in BOOLEAN : LoopStep(tick)
    BY <2>3, LoopSteps
  <2>5. ArmNow(tick)
    BY <2>4 DEF LoopStep, Wait, Slip, service_heartbeat, InitTimeout, InitBeat, InitArm,
                ConsoleArm, ArmBeat, ConsoleDisarm, MavlinkArm, Report, Other, program
  <2>. QED BY <2>2, <2>5 DEF ArmNow, Safety!Arm, Safety!Cycle
<1>. QED BY <1>1, LinkHolds, BitsHold, PTL DEF ProgramsSpec, ConsoleArmArms

(***************************************************************************)
(* The counters of the main loops                                          *)
(***************************************************************************)

Counters ==
  MainLoop => /\ count \in 0 .. ArmBeats /\ (pc = "arm_beat" => count > 0)
              /\ delay \in 0 .. CmdPause + ArmPause

LEMMA Pauses ==
  /\ ArmBeats \in Nat /\ ArmBeats > 1 /\ ArmPause \in Nat /\ CmdPause \in Nat
BY TimingAssumption

LEMMA CountersStep == BitsInv /\ Counters /\ [ProgramsNext]_allVars => Counters'
<1>. SUFFICES ASSUME BitsInv, Counters, [ProgramsNext]_allVars PROVE Counters'
  OBVIOUS
<1>. USE Pauses
<1>1. CASE UNCHANGED allVars
  BY <1>1 DEF allVars, vars, program, waiting, own, Counters, MainLoop
<1>2. CASE RovMain \/ App
  <2>1. MainLoop /\ prog' = prog
    BY <1>2, LoopSteps DEF own
  <2>2. PICK tick \in BOOLEAN : LoopStep(tick)
    BY <1>2, LoopSteps
  <2>3. count \in 0 .. ArmBeats /\ (pc = "arm_beat" => count > 0) /\ delay \in 0 .. CmdPause + ArmPause
    BY <2>1 DEF Counters
  <2>4. count' \in 0 .. ArmBeats /\ (pc' = "arm_beat" => count' > 0)
    <3>1. CASE Wait \/ Slip \/ service_heartbeat(tick) \/ MavlinkArm(tick) \/ Other
      BY <2>3, <3>1 DEF Wait, Slip, service_heartbeat, MavlinkArm, Other, program
    <3>2. CASE \/ InitTimeout(tick) \/ InitBeat(tick) \/ InitArm(tick)
               \/ ArmNow(tick) \/ ConsoleDisarm(tick) \/ Report
      BY <2>3, <3>2 DEF InitTimeout, InitBeat, InitArm, ArmNow, ConsoleDisarm, Report
    <3>3. CASE ConsoleArm
      BY <3>3 DEF ConsoleArm
    <3>4. CASE ArmBeat(tick)
      BY <2>3, <3>4 DEF ArmBeat
    <3>. QED BY <2>2, <3>1, <3>2, <3>3, <3>4 DEF LoopStep
  <2>5. delay' \in 0 .. CmdPause + ArmPause
    <3>1. CASE Wait
      BY <2>3, <3>1 DEF Wait
    <3>2. CASE \/ Slip \/ service_heartbeat(tick) \/ MavlinkArm(tick) \/ Other \/ ConsoleArm
               \/ InitTimeout(tick) \/ InitBeat(tick) \/ InitArm(tick) \/ Report
      BY <2>3, <3>2
      DEF Slip, service_heartbeat, MavlinkArm, Other, ConsoleArm, InitTimeout, InitBeat,
          InitArm, Report, Block, waiting
    <3>3. CASE ArmNow(tick) \/ ConsoleDisarm(tick)
      BY <3>3 DEF ArmNow, ConsoleDisarm
    <3>4. CASE ArmBeat(tick)
      BY <3>4 DEF ArmBeat
    <3>. QED BY <2>2, <3>1, <3>2, <3>3, <3>4 DEF LoopStep
  <2>. QED BY <2>4, <2>5 DEF Counters
<1>3. CASE PwmSweep \/ CfsTest
  <2>1. prog' = prog /\ prog \in {"pwm_sweep", "cfs_test"}
    BY <1>3 DEF PwmSweep, CfsTest, own, pwm_turn, hold_with_heartbeat, cfs_command, leds, report
  <2>. QED BY <2>1 DEF Counters, MainLoop
<1>4. CASE Start
  BY <1>4 DEF Start, Reset, Counters
<1>. QED BY <1>1, <1>2, <1>3, <1>4 DEF ProgramsNext

LEMMA CountersHold == ProgramsSpec => []Counters
<1>1. ProgramsInit => Counters
  BY Pauses DEF ProgramsInit, Init, Counters
<1>. QED BY <1>1, CountersStep, BitsHold, PTL DEF ProgramsSpec

(***************************************************************************)
(* The watchdog under a program without a main loop                        *)
(***************************************************************************)

\* The link is up under the timeout T, and the counter tells the silence.
Fresh(T) ==
  heartbeat_alive /\ quiet = heartbeat_cnt /\ quiet \in 0 .. CntMod - 1 /\ hb_timeout = T

\* No heartbeat was accepted since the reset.
Silent == ~heartbeat_alive /\ quiet = CntMod

LEMMA FreshTick ==
  ASSUME NEW T \in 1 .. CntMod - 1, NEW tick \in BOOLEAN, Fresh(T), tick => quiet < T,
         Safety!WatchdogTick(tick)
  PROVE  /\ ~Safety!Trips(tick)
         /\ hb_timeout' = hb_timeout => Fresh(T)'
         /\ quiet' = quiet + (IF tick THEN 1 ELSE 0)
<1>. USE Timing DEF Fresh
<1>1. ~Safety!Trips(tick)
  BY DEF Safety!Trips
<1>2. CASE tick
  <2>1. quiet + 1 \in 0 .. CntMod - 1
    BY <1>2
  <2>2. (quiet + 1) % CntMod = quiet + 1 /\ Safety!Saturate(quiet + 1, CntMod) = quiet + 1
    BY <2>1 DEF Safety!Saturate
  <2>3. quiet' = quiet + 1 /\ heartbeat_cnt' = quiet + 1 /\ heartbeat_alive'
    BY <1>1, <1>2, <2>2 DEF Safety!WatchdogTick
  <2>. QED BY <1>1, <1>2, <2>1, <2>3
<1>3. CASE ~tick
  <2>1. quiet' = quiet /\ heartbeat_cnt' = heartbeat_cnt /\ heartbeat_alive'
    BY <1>1, <1>3 DEF Safety!WatchdogTick
  <2>. QED BY <1>1, <1>3, <2>1
<1>. QED BY <1>2, <1>3

LEMMA SilentTick ==
  ASSUME NEW tick \in BOOLEAN, Silent, Safety!WatchdogTick(tick)
  PROVE  Silent'
<1>1. heartbeat_alive' = FALSE
  BY DEF Silent, Safety!WatchdogTick
<1>2. Safety!Saturate(CntMod + 1, CntMod) = CntMod
  BY Timing DEF Safety!Saturate
<1>3. quiet' = CntMod
  BY <1>2 DEF Silent, Safety!WatchdogTick
<1>. QED BY <1>1, <1>3 DEF Silent

\* A heartbeat is accepted exactly if the bits agreed before it.
LEMMA BeatTaken ==
  ASSUME Bits, NEW tick \in BOOLEAN, rov_heartbeat(tick)
  PROVE  IF hb_bit = hb_toggle_last THEN Safety!Heartbeat(tick, hb_bit') ELSE NoEffect(tick)
<1>1. hb_bit' = hb_toggle_last <=> hb_bit # hb_toggle_last
  BY DEF rov_heartbeat, Bits
<1>. QED BY <1>1, Zenon DEF rov_heartbeat, Safety!Heartbeat

LEMMA HeartbeatFresh ==
  ASSUME NEW tick \in BOOLEAN, NEW T, Safety!Heartbeat(tick, hb_bit'), hb_timeout = T
  PROVE  Fresh(T)' /\ quiet' = 0 /\ motors_armed' = Safety!ArmedAfter(tick)
<1>1. quiet' = 0 /\ heartbeat_cnt' = 0 /\ heartbeat_alive' /\ hb_timeout' = T
  BY DEF Safety!Heartbeat
<1>2. 0 \in 0 .. CntMod - 1
  BY Timing
<1>. QED BY <1>1, <1>2 DEF Fresh, Safety!Heartbeat, Safety!Cycle

\* The most that quiet can reach before the program blocks again.
Reach == quiet + busy + (IF busy > 0 THEN 1 ELSE spare)

LEMMA Wraps ==
  ASSUME NEW m \in Nat, m > 0, NEW n \in 0 .. m - 1
  PROVE  (n + 1) % m = (IF n + 1 = m THEN 0 ELSE n + 1) /\ (n + 1) % m \in 0 .. m - 1
<1>1. CASE n + 1 < m
  BY <1>1
<1>2. CASE n + 1 = m
  BY <1>2
<1>. QED BY <1>1, <1>2

(***************************************************************************)
(* pwm_sweep                                                               *)
(***************************************************************************)

\* What the sweep's turns and calls have cost since the last heartbeat: of a
\* call the strobe it waits for and one that may slip in, of a turn one more.
SweepTime ==
  /\ ~poll /\ delay = 0 => Reach <= 3 * ticks + 3
  /\ ~poll /\ delay > 0 => quiet + busy <= 3 * ticks + 4
  /\ poll => busy = 0 /\ quiet + spare <= 3 * ticks + 6

SweepTypes ==
  /\ busy \in Nat /\ delay \in Nat /\ poll \in BOOLEAN /\ spare \in {0, 1}
  /\ step \in 0 .. 2 * Steps + 1 /\ ticks \in 0 .. HbPeriod - 1
  /\ pc \in {"init", "init_beat", "init_arm", "sweep"}

\* The boot, and that a warm one loses its only chance to arm.
SweepBoot ==
  /\ pc # "sweep" => delay = 0 /\ ~poll /\ ticks = 0 /\ ~motors_armed
  /\ pc \in {"init", "init_beat"} => Silent /\ hb_bit = 0 /\ (cold <=> hb_toggle_last = 0)
  /\ pc \in {"init_beat", "init_arm"} => busy = 0
  /\ pc # "init" => hb_timeout = DriverTimeout
  /\ pc = "init_arm" => IF cold THEN Fresh(DriverTimeout) /\ quiet + spare <= 1 ELSE Silent

SweepRuns ==
  pc = "sweep" =>
    /\ motors_armed <=> cold
    /\ IF heartbeat_alive THEN Fresh(DriverTimeout) /\ SweepTime ELSE Silent /\ ~cold

SweepState == SweepTypes /\ SweepBoot /\ SweepRuns

SweepInv == prog = "pwm_sweep" => SweepState

LEMMA Bench ==
  /\ ShortHold \in Nat /\ ShortHold > 0 /\ LongHold \in Nat /\ LongHold > 0 /\ Steps \in Nat
  /\ 3 * HbPeriod + 2 < DriverTimeout /\ DriverTimeout \in 1 .. CntMod - 1
  /\ DefaultTimeout \in 1 .. CntMod - 1 /\ TestTimeout \in 1 .. CntMod - 1
  /\ DefaultTimeout >= 7 /\ DriverTimeout >= 8 /\ TestTimeout < 40
BY ProgramAssumption, SweepAssumption, TestAssumption, TimingAssumption

\* Balance of the sweep: t calls since the heartbeat, q strobes, b more to wait.
Idling(q, b, sp, t)  == q + b + (IF b > 0 THEN 1 ELSE sp) <= 3 * t + 3
Holding(q, b, t)     == q + b <= 3 * t + 4
Calling(q, b, sp, t) == b = 0 /\ q + sp <= 3 * t + 6

LEMMA SweepTimes ==
  SweepTime <=> /\ ~poll /\ delay = 0 => Idling(quiet, busy, spare, ticks)
                /\ ~poll /\ delay > 0 => Holding(quiet, busy, ticks)
                /\ poll => Calling(quiet, busy, spare, ticks)
BY DEF SweepTime, Idling, Holding, Calling, Reach

\* Strobes in a wait, between two instructions, and in an instruction's burst.
LEMMA SweepStrobes ==
  ASSUME NEW q \in Nat, NEW b \in Nat, NEW sp \in {0, 1}, NEW t \in 0 .. HbPeriod - 1
  PROVE  /\ b > 0 /\ Idling(q, b, sp, t) => q < DriverTimeout /\ Idling(q + 1, b - 1, 1, t)
         /\ b > 0 /\ Holding(q, b, t) => q < DriverTimeout /\ Holding(q + 1, b - 1, t)
         /\ b = 0 /\ Holding(q, b, t) => q < DriverTimeout /\ Calling(q + 1, 0, 1, t)
         /\ b = 0 /\ sp = 1 /\ Idling(q, b, sp, t) => q < DriverTimeout /\ Idling(q + 1, 0, 0, t)
         /\ sp = 1 /\ Calling(q, b, sp, t) => q < DriverTimeout /\ Calling(q + 1, 0, 0, t)
BY Bench, Timing DEF Idling, Holding, Calling

\* A call that sends no heartbeat, and a turn of the ramp.
LEMMA SweepMoves ==
  ASSUME NEW q \in Nat, NEW b \in Nat, NEW sp \in {0, 1}, NEW t \in 0 .. HbPeriod - 1
  PROVE  /\ Calling(q, b, sp, t) => Idling(q, 0, sp, t + 1) /\ Holding(q, 0, t + 1)
         /\ b = 0 /\ Idling(q, b, sp, t) => Holding(q, 0, t) /\ Holding(q, 1, t)
BY Bench, Timing DEF Idling, Holding, Calling

\* What the strobe of a cycle does to the watchdog of the sweep.
LEMMA SweepWatch ==
  ASSUME pc = "sweep", SweepRuns, NEW tick \in BOOLEAN,
         heartbeat_alive /\ tick => quiet < DriverTimeout,
         Safety!WatchdogTick(tick), hb_timeout' = hb_timeout,
         motors_armed' = Safety!ArmedAfter(tick), cold' = cold
  PROVE  /\ motors_armed' <=> cold'
         /\ heartbeat_alive' <=> heartbeat_alive
         /\ IF heartbeat_alive
            THEN Fresh(DriverTimeout)' /\ quiet' = quiet + (IF tick THEN 1 ELSE 0)
            ELSE Silent' /\ ~cold'
<1>1. CASE heartbeat_alive
  <2>1. Fresh(DriverTimeout) /\ (motors_armed <=> cold)
    BY <1>1 DEF SweepRuns
  <2>2. ~Safety!Trips(tick) /\ Fresh(DriverTimeout)' /\ quiet' = quiet + (IF tick THEN 1 ELSE 0)
    BY <1>1, <2>1, FreshTick, Bench
  <2>. QED BY <1>1, <2>1, <2>2 DEF Safety!ArmedAfter, Fresh
<1>2. CASE ~heartbeat_alive
  <2>1. Silent /\ ~cold /\ ~motors_armed
    BY <1>2 DEF SweepRuns
  <2>2. Silent'
    BY <2>1, SilentTick
  <2>. QED BY <1>2, <2>1, <2>2 DEF Safety!ArmedAfter, Silent
<1>. QED BY <1>1, <1>2

LEMMA SweepWait == ASSUME SweepState, Wait, UNCHANGED own PROVE SweepState'
<1>. USE DEF SweepState
<1>1. /\ Safety!WatchdogTick(TRUE) /\ hb_timeout' = hb_timeout /\ hb_toggle_last' = hb_toggle_last
      /\ motors_armed' = Safety!ArmedAfter(TRUE)
      /\ hb_bit' = hb_bit /\ pc' = pc /\ spare' = 1 /\ cold' = cold /\ step' = step /\ ticks' = ticks
  BY DEF Wait, Safety!Tick, Safety!Cycle, program, own
<1>2. \/ busy > 0 /\ busy' = busy - 1 /\ delay' = delay /\ poll' = poll
      \/ busy = 0 /\ delay > 0 /\ ~poll /\ delay' = delay - 1 /\ poll' = TRUE /\ busy' = busy
      \/ pc = "loop"
  BY DEF Wait
<1>3. busy \in Nat /\ delay \in Nat /\ poll \in BOOLEAN /\ spare \in {0, 1} /\ ticks \in 0 .. HbPeriod - 1
  BY DEF SweepTypes
<1>4. CASE pc = "sweep"
  <2>1. SweepTypes'
    <3>1. busy > 0 => busy - 1 \in Nat
      BY <1>3
    <3>2. delay > 0 => delay - 1 \in Nat
      BY <1>3
    <3>3. busy' \in Nat /\ delay' \in Nat /\ poll' \in BOOLEAN
      BY <1>2, <1>3, <1>4, <3>1, <3>2
    <3>. QED BY <1>1, <3>3 DEF SweepTypes
  <2>2. SweepBoot'
    BY <1>1, <1>4 DEF SweepBoot
  <2>3. heartbeat_alive => quiet \in Nat /\ SweepTime
    BY <1>4, Timing DEF SweepRuns, Fresh
  <2>4. heartbeat_alive => /\ quiet < DriverTimeout
                           /\ ~poll' /\ delay' = 0 => Idling(quiet + 1, busy', 1, ticks)
                           /\ ~poll' /\ delay' > 0 => Holding(quiet + 1, busy', ticks)
                           /\ poll' => Calling(quiet + 1, busy', 1, ticks)
    <3>. SUFFICES ASSUME heartbeat_alive
                  PROVE  /\ quiet < DriverTimeout
                         /\ ~poll' /\ delay' = 0 => Idling(quiet + 1, busy', 1, ticks)
                         /\ ~poll' /\ delay' > 0 => Holding(quiet + 1, busy', ticks)
                         /\ poll' => Calling(quiet + 1, busy', 1, ticks)
      OBVIOUS
    <3>1. quiet \in Nat /\ SweepTime
      BY <2>3
    <3>2. CASE busy > 0
      <4>1. ~poll
        BY <3>1, <3>2, <1>3 DEF SweepTime
      <4>2. delay = 0 \/ delay > 0
        BY <1>3
      <4>. QED BY <1>2, <1>3, <1>4, <3>1, <3>2, <4>1, <4>2, SweepTimes, SweepStrobes
    <3>3. CASE busy = 0
      <4>1. ~poll /\ delay > 0 /\ poll' = TRUE /\ busy' = 0
        BY <1>2, <1>4, <3>3
      <4>. QED BY <1>3, <3>1, <3>3, <4>1, SweepTimes, SweepStrobes
    <3>. QED BY <1>3, <3>2, <3>3
  <2>5. /\ motors_armed' <=> cold'
        /\ heartbeat_alive' <=> heartbeat_alive
        /\ IF heartbeat_alive THEN Fresh(DriverTimeout)' /\ quiet' = quiet + 1 ELSE Silent' /\ ~cold'
    BY <1>1, <1>4, <2>4, SweepWatch
  <2>6. heartbeat_alive' => SweepTime'
    <3>. SUFFICES ASSUME heartbeat_alive' PROVE SweepTime'
      OBVIOUS
    <3>1. /\ ~poll' /\ delay' = 0 => Idling(quiet', busy', spare', ticks')
          /\ ~poll' /\ delay' > 0 => Holding(quiet', busy', ticks')
          /\ poll' => Calling(quiet', busy', spare', ticks')
      BY <1>1, <2>4, <2>5
    <3>. QED BY <3>1 DEF SweepTime, Idling, Holding, Calling, Reach
  <2>. QED BY <2>1, <2>2, <2>5, <2>6 DEF SweepRuns
<1>5. CASE pc = "init"
  <2>1. busy > 0 /\ busy' = busy - 1 /\ delay' = delay /\ poll' = poll
    BY <1>2, <1>5 DEF SweepBoot
  <2>2. SweepTypes'
    BY <1>1, <1>3, <2>1 DEF SweepTypes
  <2>3. Silent' /\ ~motors_armed'
    BY <1>1, <1>5, SilentTick DEF SweepBoot, Safety!ArmedAfter
  <2>. QED BY <1>1, <1>5, <2>1, <2>2, <2>3 DEF SweepBoot, SweepRuns
<1>6. pc \notin {"init_beat", "init_arm"}
  BY <1>2, <1>3 DEF SweepBoot
<1>. QED BY <1>4, <1>5, <1>6 DEF SweepTypes

LEMMA SweepSlip == ASSUME SweepState, Slip, UNCHANGED own PROVE SweepState'
<1>. USE DEF SweepState
<1>1. /\ Safety!WatchdogTick(TRUE) /\ hb_timeout' = hb_timeout /\ hb_toggle_last' = hb_toggle_last
      /\ motors_armed' = Safety!ArmedAfter(TRUE)
      /\ hb_bit' = hb_bit /\ pc' = pc /\ spare = 1 /\ spare' = 0 /\ cold' = cold
      /\ step' = step /\ ticks' = ticks
      /\ busy = 0 /\ busy' = 0 /\ delay' = delay /\ poll' = poll /\ (poll \/ (delay = 0 /\ ~poll))
  BY DEF Slip, Running, Safety!Tick, Safety!Cycle, program, waiting, own
<1>2. delay \in Nat /\ poll \in BOOLEAN /\ ticks \in 0 .. HbPeriod - 1
  BY DEF SweepTypes
<1>3. SweepTypes'
  BY <1>1 DEF SweepTypes
<1>4. CASE pc = "sweep"
  <2>1. SweepBoot'
    BY <1>1, <1>4 DEF SweepBoot
  <2>2. heartbeat_alive => /\ quiet < DriverTimeout
                           /\ ~poll /\ delay = 0 => Idling(quiet + 1, 0, 0, ticks)
                           /\ poll => Calling(quiet + 1, 0, 0, ticks)
    <3>. SUFFICES ASSUME heartbeat_alive
                  PROVE  /\ quiet < DriverTimeout
                         /\ ~poll /\ delay = 0 => Idling(quiet + 1, 0, 0, ticks)
                         /\ poll => Calling(quiet + 1, 0, 0, ticks)
      OBVIOUS
    <3>1. quiet \in Nat /\ SweepTime
      BY <1>4, Timing DEF SweepRuns, Fresh
    <3>2. \/ poll /\ Calling(quiet, 0, 1, ticks)
          \/ ~poll /\ delay = 0 /\ Idling(quiet, 0, 1, ticks)
      BY <1>1, <1>2, <3>1, SweepTimes
    <3>3. 0 \in Nat /\ 1 \in {0, 1}
      OBVIOUS
    <3>. QED BY <1>2, <3>1, <3>2, <3>3, SweepStrobes
  <2>3. /\ motors_armed' <=> cold'
        /\ heartbeat_alive' <=> heartbeat_alive
        /\ IF heartbeat_alive THEN Fresh(DriverTimeout)' /\ quiet' = quiet + 1 ELSE Silent' /\ ~cold'
    BY <1>1, <1>4, <2>2, SweepWatch
  <2>4. heartbeat_alive' => SweepTime'
    <3>. SUFFICES ASSUME heartbeat_alive' PROVE SweepTime'
      OBVIOUS
    <3>1. /\ ~poll' /\ delay' = 0 => Idling(quiet', busy', spare', ticks')
          /\ ~poll' /\ delay' > 0 => Holding(quiet', busy', ticks')
          /\ poll' => Calling(quiet', busy', spare', ticks')
      <4>1. ~(0 > 0)
        OBVIOUS
      <4>. QED BY <1>1, <2>2, <2>3, <4>1
    <3>. QED BY <3>1 DEF SweepTime, Idling, Holding, Calling, Reach
  <2>. QED BY <1>3, <2>1, <2>3, <2>4 DEF SweepRuns
<1>5. CASE pc \in {"init", "init_beat"}
  <2>1. Silent' /\ ~motors_armed'
    BY <1>1, <1>5, SilentTick DEF SweepBoot, Safety!ArmedAfter
  <2>. QED BY <1>1, <1>3, <1>5, <2>1 DEF SweepBoot, SweepRuns
<1>6. CASE pc = "init_arm"
  <2>1. ~motors_armed'
    BY <1>1, <1>6 DEF SweepBoot, Safety!ArmedAfter
  <2>2. CASE cold
    <3>1. Fresh(DriverTimeout) /\ quiet + spare <= 1 /\ quiet \in Nat
      BY <1>6, <2>2, Timing DEF SweepBoot, Fresh
    <3>2. quiet = 0 /\ quiet < DriverTimeout
      BY <1>1, <3>1, Bench
    <3>3. Fresh(DriverTimeout)' /\ quiet' = quiet + 1
      BY <1>1, <3>1, <3>2, FreshTick, Bench
    <3>4. quiet' + spare' <= 1
      BY <1>1, <3>2, <3>3
    <3>. QED BY <1>1, <1>3, <1>6, <2>1, <2>2, <3>3, <3>4 DEF SweepBoot, SweepRuns
  <2>3. CASE ~cold
    <3>1. Silent'
      BY <1>1, <1>6, <2>3, SilentTick DEF SweepBoot
    <3>. QED BY <1>1, <1>3, <1>6, <2>1, <2>3, <3>1 DEF SweepBoot, SweepRuns
  <2>. QED BY <2>2, <2>3
<1>. QED BY <1>4, <1>5, <1>6 DEF SweepTypes

LEMMA SweepTimeout ==
  ASSUME SweepState, NEW tick \in BOOLEAN, InitTimeout(tick), UNCHANGED own
  PROVE  SweepState'
<1>. USE DEF SweepState
<1>1. /\ pc = "init" /\ pc' = "init_beat" /\ hb_bit' = 0 /\ hb_toggle_last' = hb_toggle_last
      /\ Safety!WatchdogTick(tick) /\ motors_armed' = Safety!ArmedAfter(tick)
      /\ hb_timeout' = DriverTimeout
      /\ busy = 0 /\ UNCHANGED <<busy, delay, poll, cold, step, ticks>>
      /\ spare' = IF tick THEN 0 ELSE spare
  BY Timing DEF InitTimeout, Running, Burst, waiting, own, Safety!SetTimeout, Safety!Cycle
<1>2. Silent' /\ ~motors_armed'
  BY <1>1, SilentTick DEF SweepBoot, Safety!ArmedAfter
<1>3. SweepTypes'
  BY <1>1 DEF SweepTypes
<1>. QED BY <1>1, <1>2, <1>3 DEF SweepBoot, SweepRuns

LEMMA SweepFirstBeat ==
  ASSUME SweepState, Bits, NEW tick \in BOOLEAN, InitBeat(tick), UNCHANGED own
  PROVE  SweepState'
<1>. USE DEF SweepState
<1>1. /\ pc = "init_beat" /\ pc' = "init_arm" /\ rov_heartbeat(tick)
      /\ UNCHANGED <<busy, delay, poll, cold, step, ticks>>
      /\ spare' = IF tick THEN 0 ELSE spare
  BY DEF InitBeat, Running, Burst, waiting, own
<1>2. spare' \in {0, 1} /\ SweepTypes'
  BY <1>1 DEF SweepTypes
<1>3. /\ Silent /\ hb_bit = 0 /\ (cold <=> hb_toggle_last = 0) /\ ~motors_armed
      /\ hb_timeout = DriverTimeout
  BY <1>1 DEF SweepBoot
<1>4. CASE cold
  <2>1. Safety!Heartbeat(tick, hb_bit')
    BY <1>1, <1>3, <1>4, BeatTaken
  <2>2. Fresh(DriverTimeout)' /\ quiet' = 0 /\ ~motors_armed'
    BY <1>3, <2>1, HeartbeatFresh DEF Safety!ArmedAfter
  <2>3. quiet' + spare' <= 1
    <3>1. 0 + 0 <= 1 /\ 0 + 1 <= 1
      OBVIOUS
    <3>. QED BY <1>2, <2>2, <3>1
  <2>. QED BY <1>1, <1>2, <1>4, <2>2, <2>3 DEF SweepBoot, SweepRuns, Fresh
<1>5. CASE ~cold
  <2>1. NoEffect(tick)
    BY <1>1, <1>3, <1>5, BeatTaken
  <2>2. Silent' /\ ~motors_armed' /\ hb_timeout' = DriverTimeout
    <3>1. CASE tick
      BY <1>3, <2>1, <3>1, SilentTick DEF NoEffect, Safety!Tick, Safety!Cycle, Safety!ArmedAfter
    <3>2. CASE ~tick
      BY <1>3, <2>1, <3>2 DEF NoEffect, safety, Silent
    <3>. QED BY <3>1, <3>2
  <2>. QED BY <1>1, <1>2, <1>5, <2>2 DEF SweepBoot, SweepRuns
<1>. QED BY <1>4, <1>5

\* The sweep's only arm command: it takes effect exactly on a cold start.
LEMMA SweepArm ==
  ASSUME SweepState, NEW tick \in BOOLEAN, pc = "init_arm", Running, Safety!Arm(tick),
         Burst(tick), pc' = "sweep", busy' \in 0 .. 1, UNCHANGED <<delay, poll>>, UNCHANGED own
  PROVE  SweepState'
<1>. USE DEF SweepState
<1>1. /\ motors_armed' = (heartbeat_alive \/ Safety!ArmedAfter(tick))
      /\ Safety!WatchdogTick(tick) /\ hb_timeout' = hb_timeout
      /\ UNCHANGED <<cold, step, ticks>>
      /\ tick => spare = 1
      /\ spare' = IF tick THEN 0 ELSE spare
  BY DEF Safety!Arm, Safety!Cycle, Burst, own
<1>2. ~motors_armed /\ delay = 0 /\ ~poll /\ ticks = 0 /\ hb_timeout = DriverTimeout
  BY DEF SweepBoot
<1>3. spare \in {0, 1} /\ spare' \in {0, 1} /\ SweepTypes'
  BY <1>1 DEF SweepTypes
<1>4. SweepBoot'
  BY <1>1, <1>2 DEF SweepBoot
<1>5. CASE cold
  <2>1. Fresh(DriverTimeout) /\ quiet + spare <= 1 /\ quiet \in Nat
    BY <1>5, Timing DEF SweepBoot, Fresh
  <2>2. quiet < DriverTimeout
    BY <1>3, <2>1, Bench
  <2>3. Fresh(DriverTimeout)' /\ quiet' = quiet + (IF tick THEN 1 ELSE 0)
    BY <1>1, <2>1, <2>2, FreshTick, Bench
  <2>4. PICK q \in Nat, sp \in {0, 1}, b \in 0 .. 1 : q = quiet' /\ sp = spare' /\ b = busy' /\ q + sp <= 1
    <3>1. CASE tick
      BY <1>1, <1>3, <2>1, <2>3, <3>1
    <3>2. CASE ~tick
      BY <1>1, <1>3, <2>1, <2>3, <3>2
    <3>. QED BY <3>1, <3>2
  <2>5. Idling(q, b, sp, 0)
    <3>1. \A n \in Nat : \A m \in {0, 1} :
            n + m <= 1 => Idling(n, 0, m, 0) /\ Idling(n, 1, m, 0)
      BY DEF Idling
    <3>2. b = 0 \/ b = 1
      OBVIOUS
    <3>. QED BY <2>4, <3>1, <3>2
  <2>6. SweepTime'
    <3>1. delay' = 0 /\ ~poll' /\ ticks' = 0 /\ ~(0 > 0)
      BY <1>1, <1>2
    <3>2. Idling(quiet', busy', spare', ticks')
      BY <2>4, <2>5, <3>1
    <3>. QED BY <3>1, <3>2 DEF SweepTime, Idling, Reach
  <2>7. motors_armed' /\ cold'
    BY <1>1, <1>5, <2>1 DEF Fresh
  <2>. QED BY <1>3, <1>4, <2>3, <2>6, <2>7 DEF SweepRuns, Fresh
<1>6. CASE ~cold
  <2>1. Silent
    BY <1>6 DEF SweepBoot
  <2>2. Silent' /\ ~motors_armed'
    BY <1>1, <1>2, <2>1, SilentTick DEF Safety!ArmedAfter, Silent
  <2>. QED BY <1>1, <1>3, <1>4, <1>6, <2>2 DEF SweepRuns, Silent
<1>. QED BY <1>5, <1>6

LEMMA SweepTurn == ASSUME SweepState, pwm_turn PROVE SweepState'
<1>. USE DEF SweepState
<1>1. /\ pc = "sweep" /\ Running /\ busy' \in 0 .. 1 /\ delay' \in {ShortHold, LongHold}
      /\ step' = (step + 1) % (2 * Steps + 2)
      /\ UNCHANGED <<pc, spare, poll, cold, ticks, heartbeat_alive, quiet, heartbeat_cnt,
                     hb_timeout, motors_armed>>
  BY DEF pwm_turn, safety, program
<1>2. delay' \in Nat /\ delay' > 0 /\ ~poll'
  BY <1>1, Bench DEF Running
<1>3. SweepTypes'
  <2>1. step \in 0 .. (2 * Steps + 2) - 1 /\ 2 * Steps + 2 \in Nat /\ 2 * Steps + 2 > 0
    BY Bench DEF SweepTypes
  <2>2. step' \in 0 .. (2 * Steps + 2) - 1
    BY <1>1, <2>1, Wraps
  <2>3. step' \in 0 .. 2 * Steps + 1
    BY <2>2, Bench
  <2>4. busy' \in Nat
    BY <1>1
  <2>. QED BY <1>1, <1>2, <2>3, <2>4 DEF SweepTypes
<1>4. SweepBoot'
  BY <1>1 DEF SweepBoot
<1>5. heartbeat_alive => SweepTime'
  <2>. SUFFICES ASSUME heartbeat_alive PROVE SweepTime'
    OBVIOUS
  <2>1. quiet \in Nat /\ SweepTime /\ busy = 0 /\ delay = 0 /\ ~poll
    BY <1>1, Timing DEF SweepRuns, Fresh, Running
  <2>2. spare \in {0, 1} /\ ticks \in 0 .. HbPeriod - 1 /\ 0 \in Nat
    BY DEF SweepTypes
  <2>3. Holding(quiet, 0, ticks) /\ Holding(quiet, 1, ticks)
    BY <2>1, <2>2, SweepTimes, SweepMoves
  <2>4. busy' = 0 \/ busy' = 1
    BY <1>1
  <2>5. Holding(quiet', busy', ticks')
    BY <1>1, <2>3, <2>4
  <2>6. ~(delay' = 0)
    BY <1>2
  <2>. QED BY <1>2, <2>5, <2>6 DEF SweepTime, Holding
<1>. QED BY <1>1, <1>3, <1>4, <1>5 DEF SweepRuns, Fresh, Silent

LEMMA SweepCall ==
  ASSUME SweepState, BitsInv, prog = "pwm_sweep", NEW tick \in BOOLEAN, hold_with_heartbeat(tick)
  PROVE  SweepState'
<1>. USE DEF SweepState
<1>1. /\ poll /\ poll' = FALSE /\ busy = 0 /\ ticks' = (ticks + 1) % HbPeriod
      /\ UNCHANGED <<pc, busy, delay, cold, step>>
      /\ tick => spare = 1
      /\ spare' = IF tick THEN 0 ELSE spare
  BY DEF hold_with_heartbeat, Burst, program
<1>2. pc = "sweep"
  BY <1>1 DEF SweepBoot
<1>3. /\ delay \in Nat /\ spare \in {0, 1} /\ spare' \in {0, 1} /\ ticks \in 0 .. HbPeriod - 1
  BY <1>1 DEF SweepTypes
<1>4. PICK t \in 0 .. HbPeriod - 1 :
        ticks' = t /\ t = IF ticks + 1 = HbPeriod THEN 0 ELSE ticks + 1
  BY <1>1, <1>3, Wraps, Timing
<1>5. SweepTypes'
  <2>1. poll' \in BOOLEAN /\ busy' \in Nat /\ delay' \in Nat
    BY <1>1, <1>3
  <2>. QED BY <1>1, <1>3, <1>4, <2>1 DEF SweepTypes
<1>6. hb_timeout = DriverTimeout
  BY <1>2 DEF SweepBoot
<1>7. heartbeat_alive => /\ quiet \in Nat /\ Fresh(DriverTimeout) /\ SweepTime
                         /\ tick => quiet < DriverTimeout
  <2>. SUFFICES ASSUME heartbeat_alive
                PROVE  /\ quiet \in Nat /\ Fresh(DriverTimeout) /\ SweepTime
                       /\ tick => quiet < DriverTimeout
    OBVIOUS
  <2>1. quiet \in Nat /\ Fresh(DriverTimeout) /\ SweepTime
    BY <1>2, Timing DEF SweepRuns, Fresh
  <2>2. Calling(quiet, busy, spare, ticks) /\ busy \in Nat
    BY <1>1, <2>1, SweepTimes
  <2>3. tick => quiet < DriverTimeout
    BY <1>1, <1>3, <2>1, <2>2, SweepStrobes
  <2>. QED BY <2>1, <2>3
<1>8. CASE t = 0
  <2>1. rov_heartbeat(tick)
    BY <1>4, <1>8 DEF hold_with_heartbeat
  <2>2. Safety!Heartbeat(tick, hb_bit')
    BY <1>2, <2>1, BeatTaken DEF BitsInv, Synced
  <2>3. Fresh(DriverTimeout)' /\ quiet' = 0 /\ motors_armed' = Safety!ArmedAfter(tick)
    BY <1>6, <2>2, HeartbeatFresh
  <2>4. motors_armed' <=> cold'
    <3>1. CASE heartbeat_alive
      <4>1. ~Safety!Trips(tick) /\ (motors_armed <=> cold)
        BY <1>2, <1>7, <3>1, Bench DEF Safety!Trips, Fresh, SweepRuns
      <4>. QED BY <1>1, <2>3, <4>1 DEF Safety!ArmedAfter
    <3>2. CASE ~heartbeat_alive
      BY <1>1, <1>2, <2>3, <3>2 DEF Safety!ArmedAfter, SweepRuns
    <3>. QED BY <3>1, <3>2
  <2>5. SweepTime'
    <3>1. \A sp \in {0, 1} : Idling(0, 0, sp, 0) /\ Holding(0, 0, 0)
      BY DEF Idling, Holding
    <3>2. Idling(quiet', busy', spare', ticks') /\ Holding(quiet', busy', ticks') /\ ~poll'
      BY <1>1, <1>3, <1>4, <1>8, <2>3, <3>1
    <3>. QED BY <3>2 DEF SweepTime, Idling, Holding, Reach
  <2>6. SweepBoot'
    BY <1>1, <1>2, <2>3 DEF SweepBoot, Fresh
  <2>. QED BY <1>5, <2>3, <2>4, <2>5, <2>6 DEF SweepRuns, Fresh
<1>9. CASE t # 0
  <2>1. NoEffect(tick)
    BY <1>4, <1>9 DEF hold_with_heartbeat
  <2>2. hb_timeout' = hb_timeout
    BY <2>1 DEF NoEffect, Safety!Tick, safety
  <2>3. /\ motors_armed' <=> cold'
        /\ heartbeat_alive' <=> heartbeat_alive
        /\ IF heartbeat_alive
           THEN Fresh(DriverTimeout)' /\ quiet' = quiet + (IF tick THEN 1 ELSE 0)
           ELSE Silent' /\ ~cold'
    <3>1. CASE tick
      <4>1. Safety!WatchdogTick(TRUE) /\ motors_armed' = Safety!ArmedAfter(TRUE)
        BY <2>1, <3>1 DEF NoEffect, Safety!Tick, Safety!Cycle
      <4>. QED BY <1>1, <1>2, <1>7, <2>2, <3>1, <4>1, SweepWatch
    <3>2. CASE ~tick
      <4>1. UNCHANGED <<motors_armed, heartbeat_alive, quiet, heartbeat_cnt, hb_timeout>>
        BY <2>1, <3>2 DEF NoEffect, safety
      <4>. QED BY <1>1, <1>2, <1>7, <3>2, <4>1 DEF SweepRuns, Fresh, Silent
    <3>. QED BY <3>1, <3>2
  <2>4. heartbeat_alive' => SweepTime'
    <3>. SUFFICES ASSUME heartbeat_alive PROVE SweepTime'
      BY <2>3
    <3>1. Calling(quiet, 0, spare, ticks) /\ quiet \in Nat /\ 0 \in Nat /\ t = ticks + 1
      BY <1>1, <1>4, <1>7, <1>9, SweepTimes
    <3>2. \E q \in Nat : q = quiet' /\ Calling(q, 0, spare', ticks)
      <4>1. CASE tick
        <5>1. quiet + 1 \in Nat /\ Calling(quiet + 1, 0, 0, ticks)
          BY <1>1, <1>3, <3>1, <4>1, SweepStrobes
        <5>. QED BY <1>1, <2>3, <4>1, <5>1
      <4>2. CASE ~tick
        <5>1. quiet' = quiet
          BY <2>3, <3>1, <4>2
        <5>. QED BY <1>1, <3>1, <4>2, <5>1
      <4>. QED BY <4>1, <4>2
    <3>3. Idling(quiet', 0, spare', t) /\ Holding(quiet', 0, t)
      BY <1>3, <3>1, <3>2, SweepMoves
    <3>4. Idling(quiet', busy', spare', ticks') /\ Holding(quiet', busy', ticks') /\ ~poll'
      BY <1>1, <1>4, <3>3
    <3>. QED BY <3>4 DEF SweepTime, Idling, Holding, Reach
  <2>5. SweepBoot'
    BY <1>1, <1>2, <1>6, <2>2 DEF SweepBoot
  <2>. QED BY <1>5, <2>3, <2>4, <2>5 DEF SweepRuns
<1>. QED BY <1>8, <1>9

LEMMA SweepKeeps == ASSUME SweepInv, BitsInv, PwmSweep PROVE SweepInv'
<1>1. prog = "pwm_sweep" /\ SweepState /\ Bits
  BY DEF PwmSweep, SweepInv, BitsInv
<1>2. CASE (Wait \/ Slip) /\ UNCHANGED own
  BY <1>1, <1>2, SweepWait, SweepSlip DEF SweepInv
<1>3. ASSUME NEW tick \in BOOLEAN, pwm_boot(tick), UNCHANGED own PROVE SweepInv'
  <2>1. CASE InitTimeout(tick) \/ InitBeat(tick)
    BY <1>1, <1>3, <2>1, SweepTimeout, SweepFirstBeat DEF SweepInv
  <2>2. CASE /\ pc = "init_arm" /\ Running /\ Safety!Arm(tick)
             /\ Burst(tick) /\ pc' = "sweep" /\ busy' \in 0 .. 1
             /\ UNCHANGED <<count, hb_bit, delay, poll>>
    BY <1>1, <1>3, <2>2, SweepArm DEF SweepInv
  <2>. QED BY <1>3, <2>1, <2>2 DEF pwm_boot
<1>4. CASE pwm_turn
  BY <1>1, <1>4, SweepTurn DEF SweepInv
<1>5. ASSUME NEW tick \in BOOLEAN, hold_with_heartbeat(tick) PROVE SweepInv'
  BY <1>1, <1>5, SweepCall DEF SweepInv
<1>. QED BY <1>2, <1>3, <1>4, <1>5 DEF PwmSweep

(***************************************************************************)
(* cfs_test                                                                *)
(***************************************************************************)

TestTypes ==
  /\ motors_armed \in BOOLEAN /\ heartbeat_alive \in BOOLEAN
  /\ pc \in {"init", "act", "look", "leds"}
  /\ busy \in Nat /\ delay = 0 /\ ~poll /\ spare \in {0, 1}
  /\ heartbeat_cnt \in 0 .. CntMod - 1
  /\ pc = "init" => step = 0
  /\ pc = "act" => step \in 1 .. 12
  /\ pc = "look" => step \in 0 .. 12
  /\ pc = "leds" => step = 13

Failed == failures = IF cold \/ step <= 1 THEN 0 ELSE IF step = 2 THEN 1 ELSE 2

\* Before the first heartbeat.
Opening == step = 0 \/ (step = 1 /\ pc = "act")

\* T2 and T3, on a cold start in time for the default timeout.
FirstLink ==
  (step = 1 /\ pc = "look") \/ step = 2 =>
    IF cold THEN /\ Fresh(DefaultTimeout)
                 /\ Reach <= IF step = 1 THEN 2 ELSE IF pc = "act" THEN 5 ELSE 7
                 /\ pc = "look" /\ step = 2 => motors_armed
    ELSE ~heartbeat_alive

\* T10: each strobe of its wait trips the watchdog or is counted.
Drain ==
  /\ step = 9 /\ pc = "look" =>
       /\ hb_timeout = TestTimeout
       /\ heartbeat_alive => busy = 40 \/ (heartbeat_cnt <= TestTimeout /\ heartbeat_cnt + busy >= 40)
  /\ step = 10 \/ (step = 11 /\ pc = "act") => ~heartbeat_alive
  /\ (step = 10 /\ pc = "look") \/ (step = 11 /\ pc = "act") => hb_timeout = DriverTimeout

\* T11 and the final loop.
LastLink ==
  (step = 11 /\ pc = "look") \/ step \in {12, 13} =>
    /\ Fresh(DriverTimeout)
    /\ Reach <= IF step = 11 \/ pc = "act" THEN 1 ELSE IF step = 12 THEN 3 ELSE DriverTimeout
    /\ step = 12 /\ pc = "look" => motors_armed

TestWatch ==
  /\ motors_armed => heartbeat_alive
  /\ Opening => Silent /\ hb_bit = 0 /\ (cold <=> hb_toggle_last = 0)
  /\ step <= 2 => hb_timeout = DefaultTimeout

TestState == TestTypes /\ Failed /\ TestWatch /\ FirstLink /\ Drain /\ LastLink

TestInv == prog = "cfs_test" => TestState

LEMMA ScriptRows ==
  /\ Len(Script) = 13
  /\ Script[1].do = "none" /\ Script[1].sees = "idle"
  /\ Script[2].do = "heartbeat" /\ Script[2].wait = 1 /\ Script[2].sees = "alive" /\ Script[2].print = 2
  /\ Script[3].do = "arm" /\ Script[3].wait = 1 /\ Script[3].sees = "armed"
  /\ \A k \in 4 .. 9 : Script[k].do = "none" /\ Script[k].sees = "any"
  /\ Script[10].do = "test_timeout" /\ Script[10].wait = 40 /\ Script[10].sees = "idle"
  /\ Script[11].do = "timeout" /\ Script[11].sees = "any"
  /\ Script[12].do = "heartbeat" /\ Script[12].wait = 0 /\ Script[12].sees = "any" /\ Script[12].print = 0
  /\ Script[13].do = "arm" /\ Script[13].wait = 1 /\ Script[13].sees = "armed" /\ Script[13].print = 4
BY DEF Script, Entry

LEMMA ScriptTimes == \A k \in 1 .. 13 : Script[k].wait \in Nat /\ Script[k].print \in Nat
BY DEF Script, Entry

\* Reach as a function, and what a strobe leaves of it.
Span(q, b, sp) == q + b + (IF b > 0 THEN 1 ELSE sp)

LEMMA SpanTick ==
  ASSUME NEW q \in Nat, NEW b \in Nat, NEW sp \in {0, 1}
  PROVE  /\ b > 0 => q + 1 <= Span(q, b, sp) /\ Span(q + 1, b - 1, 1) <= Span(q, b, sp)
         /\ b = 0 /\ sp = 1 => q + 1 <= Span(q, b, sp) /\ Span(q + 1, 0, 0) <= Span(q, b, sp)
BY DEF Span

LEMMA SpanNat == \A q, b \in Nat, sp \in {0, 1} : Span(q, b, sp) \in Nat
BY DEF Span

LEMMA SpanOne ==
  ASSUME NEW q \in Nat, NEW sp \in {0, 1}, NEW n \in Nat, q <= n
  PROVE  Span(q, 1, sp) <= n + 2
BY DEF Span

LEMMA SpanMore ==
  ASSUME NEW q \in Nat, NEW sp \in {0, 1}, NEW n \in Nat, NEW p \in Nat, NEW b \in 0 .. p,
         Span(q, 0, sp) <= n
  PROVE  Span(q, b, sp) <= n + p + 1
BY DEF Span

LEMMA Silence ==
  ASSUME NEW tick \in BOOLEAN, NoEffect(tick), TestTypes
  PROVE  Safety!WatchdogTick(tick) /\ motors_armed' = Safety!ArmedAfter(tick)
         /\ hb_timeout' = hb_timeout /\ hb_toggle_last' = hb_toggle_last
<1>1. CASE tick
  BY <1>1 DEF NoEffect, Safety!Tick, Safety!Cycle
<1>2. CASE ~tick
  <2>1. UNCHANGED <<motors_armed, heartbeat_alive, heartbeat_cnt, quiet, hb_timeout, hb_toggle_last>>
        /\ ~Safety!Trips(tick)
    BY <1>2 DEF NoEffect, safety, Safety!Trips
  <2>. QED BY <1>2, <2>1 DEF TestTypes, Safety!WatchdogTick, Safety!ArmedAfter
<1>. QED BY <1>1, <1>2

LEMMA CountRange ==
  ASSUME TestTypes, NEW tick \in BOOLEAN, Safety!WatchdogTick(tick)
  PROVE  heartbeat_cnt' \in 0 .. CntMod - 1 /\ heartbeat_alive' \in BOOLEAN
<1>1. (heartbeat_cnt + 1) % CntMod \in 0 .. CntMod - 1
  BY Wraps, Timing DEF TestTypes
<1>. QED BY <1>1 DEF TestTypes, Safety!WatchdogTick

\* A strobe while the self-test waits or between two of its instructions.
LEMMA TestStrobe ==
  ASSUME TestState, Safety!Tick, UNCHANGED <<hb_bit, pc, delay, poll>>, UNCHANGED own,
         \/ busy > 0 /\ busy' = busy - 1 /\ spare' = 1
         \/ busy = 0 /\ busy' = 0 /\ spare = 1 /\ spare' = 0
  PROVE  TestState'
<1>. USE DEF TestState
<1>1. /\ Safety!WatchdogTick(TRUE) /\ hb_timeout' = hb_timeout /\ hb_toggle_last' = hb_toggle_last
      /\ motors_armed' = Safety!ArmedAfter(TRUE)
      /\ UNCHANGED <<cold, step, failures>>
  BY DEF Safety!Tick, Safety!Cycle, own
<1>2. /\ heartbeat_alive' = (heartbeat_alive /\ ~Safety!Trips(TRUE))
      /\ motors_armed' = (motors_armed /\ ~Safety!Trips(TRUE))
      /\ heartbeat_cnt' = (heartbeat_cnt + 1) % CntMod
  BY <1>1 DEF Safety!WatchdogTick, Safety!ArmedAfter
<1>3. busy \in Nat /\ spare \in {0, 1} /\ heartbeat_cnt \in 0 .. CntMod - 1
  BY DEF TestTypes
<1>4. busy' \in Nat
  BY <1>3
<1>5. TestTypes'
  <2>1. heartbeat_cnt' \in 0 .. CntMod - 1
    BY <1>1, CountRange
  <2>. QED BY <1>1, <1>2, <1>4, <2>1 DEF TestTypes
<1>6. Failed'
  BY <1>1 DEF Failed
<1>7. TestWatch'
  <2>1. Silent => Silent'
    BY <1>1, SilentTick
  <2>. QED BY <1>1, <1>2, <2>1 DEF TestWatch, Opening
<1>8. ASSUME NEW T \in 1 .. CntMod - 1, NEW r \in Nat, Fresh(T), Reach <= r, r <= T
      PROVE  Fresh(T)' /\ Reach' <= r /\ ~Safety!Trips(TRUE)
  <2>1. quiet \in Nat /\ Reach = Span(quiet, busy, spare)
    BY <1>8, Timing DEF Fresh, Reach, Span
  <2>2. quiet + 1 <= Reach
    BY <1>3, <2>1, SpanTick
  <2>3. quiet < T
    <3>1. Reach \in Nat
      BY <1>3, <2>1 DEF Span
    <3>. QED BY <1>8, <2>1, <2>2, <3>1
  <2>4. Fresh(T)' /\ quiet' = quiet + 1 /\ ~Safety!Trips(TRUE)
    BY <1>1, <1>8, <2>3, FreshTick
  <2>5. PICK q \in Nat, b \in Nat, sp \in {0, 1} :
          /\ q = quiet' /\ b = busy' /\ sp = spare' /\ Span(q, b, sp) <= Reach
    <3>1. CASE busy > 0
      <4>1. Span(quiet + 1, busy - 1, 1) <= Reach /\ quiet + 1 \in Nat /\ busy - 1 \in Nat
        BY <1>3, <2>1, <3>1, SpanTick
      <4>. QED BY <2>4, <3>1, <4>1
    <3>2. CASE busy = 0
      <4>1. Span(quiet + 1, 0, 0) <= Reach /\ quiet + 1 \in Nat
        BY <1>3, <2>1, <3>2, SpanTick
      <4>. QED BY <2>4, <3>2, <4>1
    <3>. QED BY <1>3, <3>1, <3>2
  <2>6. Reach' = Span(q, b, sp)
    BY <2>5 DEF Reach, Span
  <2>7. Span(q, b, sp) \in Nat /\ Reach \in Nat
    BY <1>3, <2>1 DEF Span
  <2>8. \A x, y \in Nat : x <= y /\ y <= r => x <= r
    BY <1>8
  <2>9. Reach' <= r
    BY <1>8, <2>5, <2>6, <2>7, <2>8
  <2>. QED BY <2>4, <2>9
<1>9. FirstLink'
  <2>1. DefaultTimeout \in 1 .. CntMod - 1 /\ 2 <= DefaultTimeout /\ 5 <= DefaultTimeout
        /\ 7 <= DefaultTimeout
    BY Bench
  <2>2. ~heartbeat_alive => ~heartbeat_alive'
    BY <1>2
  <2>3. Fresh(DefaultTimeout) /\ Reach <= 2 => Fresh(DefaultTimeout)' /\ Reach' <= 2
    BY <1>8, <2>1
  <2>4. Fresh(DefaultTimeout) /\ Reach <= 5 => Fresh(DefaultTimeout)' /\ Reach' <= 5
    BY <1>8, <2>1
  <2>5. Fresh(DefaultTimeout) /\ Reach <= 7
          => Fresh(DefaultTimeout)' /\ Reach' <= 7 /\ ~Safety!Trips(TRUE)
    BY <1>8, <2>1
  <2>. QED BY <1>1, <1>2, <2>2, <2>3, <2>4, <2>5 DEF FirstLink
<1>10. Drain'
  <2>1. ASSUME step = 9, pc = "look", heartbeat_alive'
        PROVE  heartbeat_cnt' <= TestTimeout /\ heartbeat_cnt' + busy' >= 40
    <3>1. heartbeat_cnt < TestTimeout
      <4>1. heartbeat_alive /\ ~Safety!Trips(TRUE)
        BY <1>2, <2>1
      <4>2. hb_timeout = TestTimeout
        BY <2>1 DEF Drain
      <4>3. ~(heartbeat_cnt >= TestTimeout)
        BY <4>1, <4>2 DEF Safety!Trips
      <4>. QED BY <1>3, <4>3, Bench
    <3>2. heartbeat_cnt' = heartbeat_cnt + 1
      BY <1>2, <1>3, <3>1, Wraps, Bench, Timing
    <3>3. busy = 40 \/ heartbeat_cnt + busy >= 40
      BY <1>2, <2>1 DEF Drain
    <3>4. busy > 0
      BY <1>3, <3>1, <3>3, Bench
    <3>5. heartbeat_cnt + 1 <= TestTimeout /\ (heartbeat_cnt + 1) + (busy - 1) >= 40
      BY <1>3, <3>1, <3>3, <3>4, Bench
    <3>. QED BY <3>2, <3>4, <3>5
  <2>. QED BY <1>1, <1>2, <2>1 DEF Drain
<1>11. LastLink'
  <2>1. DriverTimeout \in 1 .. CntMod - 1 /\ DriverTimeout \in Nat
        /\ 1 <= DriverTimeout /\ 3 <= DriverTimeout /\ DriverTimeout <= DriverTimeout
    BY Bench
  <2>2. Fresh(DriverTimeout) /\ Reach <= 1 => Fresh(DriverTimeout)' /\ Reach' <= 1
    BY <1>8, <2>1
  <2>3. Fresh(DriverTimeout) /\ Reach <= 3
          => Fresh(DriverTimeout)' /\ Reach' <= 3 /\ ~Safety!Trips(TRUE)
    BY <1>8, <2>1
  <2>4. Fresh(DriverTimeout) /\ Reach <= DriverTimeout
          => Fresh(DriverTimeout)' /\ Reach' <= DriverTimeout
    BY <1>8, <2>1
  <2>5. CASE step = 11 /\ pc = "look"
    BY <1>1, <2>2, <2>5 DEF LastLink
  <2>6. CASE step = 12 /\ pc = "act"
    BY <1>1, <2>2, <2>6 DEF LastLink
  <2>7. CASE step = 12 /\ pc # "act"
    <3>1. pc = "look" /\ pc' = "look" /\ step' = 12
      BY <1>1, <2>7 DEF TestTypes
    <3>2. motors_armed
      BY <2>7, <3>1, Zenon DEF LastLink
    <3>3. Fresh(DriverTimeout) /\ Reach <= 3
      BY <2>7, <3>1 DEF LastLink
    <3>4. Fresh(DriverTimeout)' /\ Reach' <= 3 /\ ~Safety!Trips(TRUE)
      BY <2>3, <3>3
    <3>5. motors_armed'
      BY <1>2, <3>2, <3>4
    <3>6. Reach' <= IF step' = 11 \/ pc' = "act" THEN 1 ELSE IF step' = 12 THEN 3 ELSE DriverTimeout
      BY <3>1, <3>4
    <3>. QED BY <3>4, <3>5, <3>6, Zenon DEF LastLink
  <2>8. CASE step = 13
    <3>1. pc = "leds"
      BY <2>8 DEF TestTypes
    <3>. QED BY <1>1, <2>4, <2>8, <3>1 DEF LastLink
  <2>. QED BY <1>1, <2>5, <2>6, <2>7, <2>8 DEF LastLink
<1>. QED BY <1>5, <1>6, <1>7, <1>9, <1>10, <1>11

\* What the script's commands do to the safety core.
LEMMA DoQuietly ==
  ASSUME TestTypes, NEW tick \in BOOLEAN, NEW c \in {"none", "timeout", "test_timeout"}, Do(c, tick)
  PROVE  /\ Safety!WatchdogTick(tick) /\ motors_armed' = Safety!ArmedAfter(tick)
         /\ hb_toggle_last' = hb_toggle_last /\ hb_bit' = hb_bit
         /\ hb_timeout' = IF c = "none" THEN hb_timeout
                          ELSE IF c = "timeout" THEN DriverTimeout ELSE TestTimeout
<1>1. CASE c = "none"
  <2>1. NoEffect(tick) /\ hb_bit' = hb_bit
    BY <1>1 DEF Do
  <2>. QED BY <1>1, <2>1, Silence
<1>2. CASE c = "timeout"
  <2>1. Safety!SetTimeout(tick, DriverTimeout) /\ hb_bit' = hb_bit
    BY <1>2 DEF Do
  <2>2. DriverTimeout # 0
    BY Bench
  <2>. QED BY <1>2, <2>1, <2>2 DEF Safety!SetTimeout, Safety!Cycle
<1>3. CASE c = "test_timeout"
  <2>1. Safety!SetTimeout(tick, TestTimeout) /\ hb_bit' = hb_bit
    BY <1>3 DEF Do
  <2>2. TestTimeout # 0
    BY Bench
  <2>. QED BY <1>3, <2>1, <2>2 DEF Safety!SetTimeout, Safety!Cycle
<1>. QED BY <1>1, <1>2, <1>3

LEMMA DoArm ==
  ASSUME NEW tick \in BOOLEAN, Do("arm", tick)
  PROVE  /\ Safety!WatchdogTick(tick) /\ hb_toggle_last' = hb_toggle_last
         /\ motors_armed' = (heartbeat_alive \/ Safety!ArmedAfter(tick))
         /\ hb_timeout' = hb_timeout
<1>1. Safety!Arm(tick)
  BY DEF Do
<1>. QED BY <1>1 DEF Safety!Arm, Safety!Cycle

LEMMA WatchKept ==
  ASSUME TestTypes, motors_armed => heartbeat_alive, NEW tick \in BOOLEAN,
         Safety!WatchdogTick(tick), motors_armed' = Safety!ArmedAfter(tick)
  PROVE  /\ motors_armed' \in BOOLEAN /\ heartbeat_alive' \in BOOLEAN
         /\ motors_armed' => heartbeat_alive'
         /\ ~heartbeat_alive => ~heartbeat_alive'
<1>1. heartbeat_alive' = (heartbeat_alive /\ ~Safety!Trips(tick))
      /\ motors_armed' = (motors_armed /\ ~Safety!Trips(tick))
  BY DEF Safety!WatchdogTick, Safety!ArmedAfter
<1>. QED BY <1>1

LEMMA TestCommand ==
  ASSUME TestState, BitsInv, prog = "cfs_test", NEW tick \in BOOLEAN, cfs_command(tick)
  PROVE  TestState'
<1>. USE DEF TestState
<1>1. /\ pc \in {"init", "act"} /\ pc' = "look" /\ busy = 0 /\ delay' = delay /\ poll' = poll
      /\ Do(Script[step + 1].do, tick) /\ busy' = Script[step + 1].wait
      /\ UNCHANGED <<prog, cold, step, failures>>
      /\ tick => spare = 1
      /\ spare' = IF tick THEN 0 ELSE spare
  BY DEF cfs_command, Running, Burst, own
<1>2. /\ step \in 0 .. 12 /\ (pc = "init" <=> step = 0) /\ spare \in {0, 1} /\ spare' \in {0, 1}
      /\ delay = 0 /\ ~poll
  BY <1>1 DEF TestTypes
<1>3. Failed'
  BY <1>1 DEF Failed
<1>4. busy' \in Nat
  <2>1. step + 1 \in 1 .. 13
    BY <1>2
  <2>. QED BY <1>1, <2>1, ScriptTimes
<1>5. ASSUME motors_armed' \in BOOLEAN, heartbeat_alive' \in BOOLEAN, heartbeat_cnt' \in 0 .. CntMod - 1
      PROVE  TestTypes'
  BY <1>1, <1>2, <1>4, <1>5 DEF TestTypes
<1>6. motors_armed => heartbeat_alive
  BY DEF TestWatch
<1>7. ASSUME Script[step + 1].do \in {"none", "timeout", "test_timeout"}, Safety!WatchdogTick(tick),
             motors_armed' = Safety!ArmedAfter(tick)
      PROVE  TestTypes' /\ (motors_armed' => heartbeat_alive') /\ (~heartbeat_alive => ~heartbeat_alive')
  BY <1>5, <1>6, <1>7, WatchKept, CountRange
<1>10. CASE step = 0
  <2>1. Script[step + 1].do = "none"
    BY <1>10, ScriptRows
  <2>2. /\ Safety!WatchdogTick(tick) /\ motors_armed' = Safety!ArmedAfter(tick)
        /\ hb_toggle_last' = hb_toggle_last /\ hb_bit' = hb_bit /\ hb_timeout' = hb_timeout
    BY <1>1, <2>1, DoQuietly
  <2>3. TestTypes' /\ (motors_armed' => heartbeat_alive')
    BY <1>7, <2>1, <2>2
  <2>4. Silent'
    BY <1>10, <2>2, SilentTick DEF TestWatch, Opening
  <2>5. TestWatch'
    BY <1>1, <1>10, <2>2, <2>3, <2>4 DEF TestWatch, Opening
  <2>. QED BY <1>1, <1>3, <1>10, <2>3, <2>5 DEF FirstLink, Drain, LastLink
<1>11. CASE step = 1
  <2>1. Script[step + 1].do = "heartbeat" /\ busy' = 1
    <3>1. step + 1 = 2
      BY <1>11
    <3>. QED BY <1>1, <3>1, ScriptRows
  <2>2. rov_heartbeat(tick)
    BY <1>1, <2>1 DEF Do
  <2>3. Silent /\ hb_bit = 0 /\ (cold <=> hb_toggle_last = 0) /\ hb_timeout = DefaultTimeout /\ ~motors_armed
    BY <1>1, <1>2, <1>11 DEF TestWatch, Opening, Silent
  <2>4. CASE cold
    <3>1. Safety!Heartbeat(tick, hb_bit')
      BY <2>2, <2>3, <2>4, BeatTaken DEF BitsInv
    <3>2. Fresh(DefaultTimeout)' /\ quiet' = 0 /\ motors_armed' = Safety!ArmedAfter(tick)
      BY <2>3, <3>1, HeartbeatFresh
    <3>3. ~motors_armed' /\ heartbeat_alive' /\ heartbeat_cnt' \in 0 .. CntMod - 1 /\ hb_timeout' = DefaultTimeout
      BY <2>3, <3>2 DEF Safety!ArmedAfter, Fresh
    <3>4. motors_armed' = FALSE /\ heartbeat_alive' = TRUE
      BY <3>1, <2>3, <3>2, Zenon DEF Safety!Heartbeat, Safety!ArmedAfter
    <3>5. TestTypes'
      BY <1>5, <3>3, <3>4
    <3>6. Reach' <= 2
      BY <2>1, <3>2 DEF Reach
    <3>7. TestWatch'
      BY <1>1, <1>11, <3>3 DEF TestWatch, Opening
    <3>8. FirstLink'
      BY <1>1, <1>11, <2>4, <3>2, <3>6 DEF FirstLink
    <3>. QED BY <1>1, <1>3, <1>11, <3>5, <3>7, <3>8 DEF Drain, LastLink
  <2>5. CASE ~cold
    <3>1. NoEffect(tick)
      BY <2>2, <2>3, <2>5, BeatTaken DEF BitsInv
    <3>2. Safety!WatchdogTick(tick) /\ motors_armed' = Safety!ArmedAfter(tick) /\ hb_timeout' = hb_timeout
      BY <3>1, Silence
    <3>3. TestTypes' /\ (motors_armed' => heartbeat_alive')
      BY <1>5, <1>6, <3>2, WatchKept, CountRange
    <3>4. Silent'
      BY <2>3, <3>2, SilentTick
    <3>5. TestWatch'
      BY <1>1, <1>11, <2>3, <3>2, <3>3 DEF TestWatch, Opening
    <3>6. FirstLink'
      BY <1>1, <1>11, <2>5, <3>4 DEF FirstLink, Silent
    <3>. QED BY <1>1, <1>3, <1>11, <3>3, <3>5, <3>6 DEF Drain, LastLink
  <2>. QED BY <2>4, <2>5
<1>12. CASE step = 2
  <2>1. Script[step + 1].do = "arm" /\ busy' = 1
    <3>1. step + 1 = 3
      BY <1>12
    <3>. QED BY <1>1, <3>1, ScriptRows
  <2>2. /\ Safety!WatchdogTick(tick) /\ hb_timeout' = hb_timeout
        /\ motors_armed' = (heartbeat_alive \/ Safety!ArmedAfter(tick))
    BY <1>1, <2>1, DoArm
  <2>3. heartbeat_cnt' \in 0 .. CntMod - 1 /\ heartbeat_alive' \in BOOLEAN
    BY <2>2, CountRange
  <2>4. hb_timeout' = DefaultTimeout
    BY <1>12, <2>2 DEF TestWatch
  <2>5. CASE cold
    <3>1. Fresh(DefaultTimeout) /\ Reach <= 5
      BY <1>1, <1>2, <1>12, <2>5 DEF FirstLink
    <3>2. /\ quiet \in Nat /\ quiet + spare <= 5
      BY <1>1, <1>2, <3>1, Timing DEF Fresh, Reach
    <3>3. tick => quiet < DefaultTimeout
      BY <1>1, <3>2, Bench
    <3>4. /\ ~Safety!Trips(tick) /\ Fresh(DefaultTimeout)'
          /\ quiet' = quiet + (IF tick THEN 1 ELSE 0)
      BY <2>2, <3>1, <3>3, FreshTick, Bench
    <3>5. motors_armed' = TRUE
      BY <2>2, <3>1 DEF Fresh
    <3>6. heartbeat_alive'
      BY <3>4 DEF Fresh
    <3>7. PICK q \in Nat : q = quiet' /\ q <= 5
      <4>1. CASE tick
        <5>1. quiet + 1 \in Nat /\ quiet + 1 <= 5
          BY <1>1, <3>2, <4>1
        <5>. QED BY <3>4, <4>1, <5>1
      <4>2. CASE ~tick
        <5>1. quiet' = quiet /\ quiet <= 5
          BY <1>2, <3>2, <3>4, <4>2
        <5>. QED BY <3>2, <5>1
      <4>. QED BY <4>1, <4>2
    <3>8. Reach' <= 7
      <4>1. Span(q, 1, spare') <= 7
        BY <1>2, <3>7, SpanOne
      <4>2. Reach' = Span(quiet', busy', spare')
        BY DEF Reach, Span
      <4>. QED BY <1>2, <2>1, <3>7, <4>1, <4>2
    <3>9. TestTypes'
      BY <1>5, <2>3, <3>5
    <3>10. TestWatch'
      BY <1>1, <1>12, <2>4, <3>6 DEF TestWatch, Opening
    <3>11. FirstLink'
      <4>1. Reach' <= IF step' = 1 THEN 2 ELSE IF pc' = "act" THEN 5 ELSE 7
        BY <1>1, <1>12, <3>8
      <4>2. cold'
        BY <1>1, <2>5
      <4>. QED BY <3>4, <3>5, <4>1, <4>2, Zenon DEF FirstLink
    <3>. QED BY <1>1, <1>3, <1>12, <3>9, <3>10, <3>11 DEF Drain, LastLink
  <2>6. CASE ~cold
    <3>1. ~heartbeat_alive /\ ~motors_armed
      BY <1>6, <1>12, <2>6 DEF FirstLink
    <3>2. motors_armed' = FALSE /\ ~heartbeat_alive'
      BY <2>2, <3>1 DEF Safety!ArmedAfter, Safety!WatchdogTick
    <3>3. TestTypes'
      BY <1>5, <2>3, <3>2
    <3>4. TestWatch'
      BY <1>1, <1>12, <2>4, <3>2 DEF TestWatch, Opening
    <3>5. FirstLink'
      BY <1>1, <1>12, <2>6, <3>2 DEF FirstLink
    <3>. QED BY <1>1, <1>3, <1>12, <3>3, <3>4, <3>5 DEF Drain, LastLink
  <2>. QED BY <2>5, <2>6
<1>13. CASE step \in 3 .. 8
  <2>1. Script[step + 1].do = "none"
    <3>1. step + 1 \in 4 .. 9
      BY <1>13
    <3>. QED BY <3>1, ScriptRows
  <2>2. Safety!WatchdogTick(tick) /\ motors_armed' = Safety!ArmedAfter(tick)
    BY <1>1, <2>1, DoQuietly
  <2>3. TestTypes' /\ (motors_armed' => heartbeat_alive')
    BY <1>7, <2>1, <2>2
  <2>4. TestWatch'
    BY <1>1, <1>13, <2>3 DEF TestWatch, Opening
  <2>. QED BY <1>1, <1>3, <1>13, <2>3, <2>4 DEF FirstLink, Drain, LastLink
<1>14. CASE step = 9
  <2>1. Script[step + 1].do = "test_timeout" /\ busy' = 40
    <3>1. step + 1 = 10
      BY <1>14
    <3>. QED BY <1>1, <3>1, ScriptRows
  <2>2. Safety!WatchdogTick(tick) /\ motors_armed' = Safety!ArmedAfter(tick) /\ hb_timeout' = TestTimeout
    BY <1>1, <2>1, DoQuietly
  <2>3. TestTypes' /\ (motors_armed' => heartbeat_alive')
    BY <1>7, <2>1, <2>2
  <2>4. TestWatch'
    BY <1>1, <1>14, <2>3 DEF TestWatch, Opening
  <2>5. Drain'
    BY <1>1, <1>14, <2>1, <2>2 DEF Drain
  <2>. QED BY <1>1, <1>3, <1>14, <2>3, <2>4, <2>5 DEF FirstLink, LastLink
<1>15. CASE step = 10
  <2>1. Script[step + 1].do = "timeout"
    <3>1. step + 1 = 11
      BY <1>15
    <3>. QED BY <1>1, <3>1, ScriptRows
  <2>2. Safety!WatchdogTick(tick) /\ motors_armed' = Safety!ArmedAfter(tick) /\ hb_timeout' = DriverTimeout
    BY <1>1, <2>1, DoQuietly
  <2>3. TestTypes' /\ (motors_armed' => heartbeat_alive') /\ ~heartbeat_alive'
    BY <1>7, <1>15, <2>1, <2>2 DEF Drain
  <2>4. TestWatch'
    BY <1>1, <1>15, <2>3 DEF TestWatch, Opening
  <2>5. Drain'
    BY <1>1, <1>15, <2>2, <2>3 DEF Drain
  <2>. QED BY <1>1, <1>3, <1>15, <2>3, <2>4, <2>5 DEF FirstLink, LastLink
<1>16. CASE step = 11
  <2>1. Script[step + 1].do = "heartbeat" /\ busy' = 0
    <3>1. step + 1 = 12
      BY <1>16
    <3>. QED BY <1>1, <3>1, ScriptRows
  <2>2. rov_heartbeat(tick) /\ hb_bit = hb_toggle_last
    BY <1>1, <1>16, <2>1 DEF Do, BitsInv, Synced
  <2>3. Safety!Heartbeat(tick, hb_bit')
    BY <2>2, BeatTaken DEF BitsInv
  <2>4. hb_timeout = DriverTimeout
    BY <1>1, <1>2, <1>16 DEF Drain
  <2>5. Fresh(DriverTimeout)' /\ quiet' = 0 /\ motors_armed' = Safety!ArmedAfter(tick)
    BY <2>3, <2>4, HeartbeatFresh
  <2>6. motors_armed' \in BOOLEAN /\ heartbeat_alive' = TRUE /\ heartbeat_cnt' \in 0 .. CntMod - 1
    BY <2>3, <2>5, Zenon DEF Safety!Heartbeat, Safety!ArmedAfter, Fresh
  <2>7. TestTypes'
    BY <1>5, <2>6
  <2>8. TestWatch'
    BY <1>1, <1>16, <2>6 DEF TestWatch, Opening
  <2>9. Reach' <= 1
    <3>1. PICK sp \in {0, 1} : sp = spare'
      BY <1>2
    <3>2. Span(0, 0, sp) <= 1
      BY DEF Span
    <3>3. Reach' = Span(0, 0, sp)
      BY <2>1, <2>5, <3>1 DEF Reach, Span
    <3>. QED BY <3>2, <3>3
  <2>10. LastLink'
    BY <1>1, <1>16, <2>5, <2>9 DEF LastLink
  <2>. QED BY <1>1, <1>3, <1>16, <2>7, <2>8, <2>10 DEF FirstLink, Drain
<1>17. CASE step = 12
  <2>1. Script[step + 1].do = "arm" /\ busy' = 1
    <3>1. step + 1 = 13
      BY <1>17
    <3>. QED BY <1>1, <3>1, ScriptRows
  <2>2. /\ Safety!WatchdogTick(tick) /\ hb_timeout' = hb_timeout
        /\ motors_armed' = (heartbeat_alive \/ Safety!ArmedAfter(tick))
    BY <1>1, <2>1, DoArm
  <2>3. heartbeat_cnt' \in 0 .. CntMod - 1 /\ heartbeat_alive' \in BOOLEAN
    BY <2>2, CountRange
  <2>4. Fresh(DriverTimeout) /\ Reach <= 1
    BY <1>1, <1>2, <1>17 DEF LastLink
  <2>5. /\ quiet \in Nat /\ quiet + spare <= 1
    BY <1>1, <1>2, <2>4, Timing DEF Fresh, Reach
  <2>6. tick => quiet < DriverTimeout
    BY <1>1, <2>5, Bench
  <2>7. /\ ~Safety!Trips(tick) /\ Fresh(DriverTimeout)'
        /\ quiet' = quiet + (IF tick THEN 1 ELSE 0)
    BY <2>2, <2>4, <2>6, FreshTick, Bench DEF Fresh
  <2>8. motors_armed' = TRUE
    BY <2>2, <2>4 DEF Fresh
  <2>9. heartbeat_alive'
    BY <2>7 DEF Fresh
  <2>10. PICK q \in Nat : q = quiet' /\ q <= 1
    <3>1. CASE tick
      <4>1. quiet + 1 \in Nat /\ quiet + 1 <= 1
        BY <1>1, <2>5, <3>1
      <4>. QED BY <2>7, <3>1, <4>1
    <3>2. CASE ~tick
      <4>1. quiet' = quiet /\ quiet <= 1
        BY <1>2, <2>5, <2>7, <3>2
      <4>. QED BY <2>5, <4>1
    <3>. QED BY <3>1, <3>2
  <2>11. Reach' <= 3
    <3>1. Span(q, 1, spare') <= 3
      BY <1>2, <2>10, SpanOne
    <3>2. Reach' = Span(quiet', busy', spare')
      BY DEF Reach, Span
    <3>. QED BY <1>2, <2>1, <2>10, <3>1, <3>2
  <2>12. TestTypes'
    BY <1>5, <2>3, <2>8
  <2>13. TestWatch'
    BY <1>1, <1>17, <2>9 DEF TestWatch, Opening
  <2>14. LastLink'
    BY <1>1, <1>17, <2>7, <2>8, <2>11 DEF LastLink
  <2>. QED BY <1>1, <1>3, <1>17, <2>12, <2>13, <2>14 DEF FirstLink, Drain
<1>. QED BY <1>2, <1>10, <1>11, <1>12, <1>13, <1>14, <1>15, <1>16, <1>17

LEMMA TestReport == ASSUME TestState, report PROVE TestState'
<1>. USE DEF TestState
<1>1. /\ pc = "look" /\ busy = 0 /\ delay' = delay /\ poll' = poll /\ spare' = spare
      /\ pc' = IF step' = 13 THEN "leds" ELSE "act"
      /\ step' = step + 1 /\ cold' = cold /\ hb_bit' = hb_bit
      /\ UNCHANGED <<motors_armed, heartbeat_alive, heartbeat_cnt, quiet, hb_timeout, hb_toggle_last>>
      /\ failures' = IF Sees(Script[step + 1].sees) THEN failures ELSE failures + 1
      /\ busy' \in 0 .. Script[step + 1].print
  BY ScriptRows DEF report, Running, safety
<1>2. /\ step \in 0 .. 12 /\ spare \in {0, 1} /\ delay = 0 /\ ~poll
      /\ motors_armed \in BOOLEAN /\ heartbeat_alive \in BOOLEAN
      /\ heartbeat_cnt \in 0 .. CntMod - 1
  BY <1>1 DEF TestTypes
<1>3. busy' \in Nat
  <2>1. step + 1 \in 1 .. 13
    BY <1>2
  <2>. QED BY <1>1, <2>1, ScriptTimes
<1>4. TestTypes'
  <2>1. step' \in 1 .. 13 /\ pc' \in {"act", "leds"} /\ (pc' = "leds" <=> step' = 13)
    BY <1>1, <1>2
  <2>. QED BY <1>1, <1>2, <1>3, <2>1 DEF TestTypes
<1>5. (motors_armed => heartbeat_alive) /\ (motors_armed' => heartbeat_alive')
  BY <1>1 DEF TestWatch
<1>6. ASSUME NEW n \in Nat, NEW p \in Nat, quiet \in Nat, Reach <= n, Script[step + 1].print = p
      PROVE  Reach' <= n + p + 1
  <2>1. Span(quiet, 0, spare) <= n
    <3>1. Reach = Span(quiet, busy, spare)
      BY DEF Reach, Span
    <3>. QED BY <1>1, <1>6, <3>1
  <2>2. Span(quiet, busy', spare) <= n + p + 1
    BY <1>1, <1>2, <1>6, <2>1, SpanMore
  <2>3. Reach' = Span(quiet', busy', spare')
    BY DEF Reach, Span
  <2>. QED BY <1>1, <2>2, <2>3
<1>10. CASE step = 0
  <2>1. Script[step + 1].sees = "idle"
    BY <1>10, ScriptRows
  <2>2. Silent /\ ~motors_armed /\ hb_bit = 0 /\ (cold <=> hb_toggle_last = 0) /\ hb_timeout = DefaultTimeout
    BY <1>5, <1>10 DEF TestWatch, Opening, Silent
  <2>3. failures' = failures /\ step' = 1 /\ pc' = "act"
    BY <1>1, <1>10, <2>1, <2>2 DEF Sees, Silent
  <2>4. Failed'
    BY <1>10, <2>3 DEF Failed
  <2>5. TestWatch'
    BY <1>1, <1>5, <2>2, <2>3 DEF TestWatch, Silent
  <2>. QED BY <1>4, <2>3, <2>4, <2>5 DEF FirstLink, Drain, LastLink
<1>11. CASE step = 1
  <2>1. Script[step + 1].sees = "alive" /\ Script[step + 1].print = 2
    <3>1. step + 1 = 2
      BY <1>11
    <3>. QED BY <3>1, ScriptRows
  <2>2. failures = 0 /\ step' = 2 /\ pc' = "act" /\ hb_timeout' = DefaultTimeout
    BY <1>1, <1>11 DEF Failed, TestWatch
  <2>3. TestWatch'
    BY <1>1, <1>5, <2>2 DEF TestWatch, Opening
  <2>4. CASE cold
    <3>1. Fresh(DefaultTimeout) /\ Reach <= 2
      BY <1>1, <1>11, <2>4 DEF FirstLink
    <3>2. failures' = 0
      BY <1>1, <2>1, <2>2, <3>1 DEF Sees, Fresh
    <3>3. Reach' <= 5
      <4>1. quiet \in Nat /\ 2 \in Nat /\ 2 + 2 + 1 = 5
        BY <3>1, Timing DEF Fresh
      <4>. QED BY <1>6, <2>1, <3>1, <4>1
    <3>4. Fresh(DefaultTimeout)'
      BY <1>1, <3>1 DEF Fresh
    <3>5. Failed' /\ FirstLink'
      BY <1>1, <2>2, <2>4, <3>2, <3>3, <3>4 DEF Failed, FirstLink
    <3>. QED BY <1>4, <2>2, <2>3, <3>5 DEF Drain, LastLink
  <2>5. CASE ~cold
    <3>1. ~heartbeat_alive
      BY <1>1, <1>11, <2>5 DEF FirstLink
    <3>2. failures' = 1
      BY <1>1, <2>1, <2>2, <3>1 DEF Sees
    <3>3. Failed' /\ FirstLink'
      BY <1>1, <2>2, <2>5, <3>1, <3>2 DEF Failed, FirstLink
    <3>. QED BY <1>4, <2>2, <2>3, <3>3 DEF Drain, LastLink
  <2>. QED BY <2>4, <2>5
<1>12. CASE step = 2
  <2>1. Script[step + 1].sees = "armed"
    <3>1. step + 1 = 3
      BY <1>12
    <3>. QED BY <3>1, ScriptRows
  <2>2. step' = 3 /\ pc' = "act" /\ failures = IF cold THEN 0 ELSE 1
    BY <1>1, <1>12 DEF Failed
  <2>3. Failed'
    <3>1. CASE cold
      <4>1. motors_armed /\ heartbeat_alive
        BY <1>1, <1>12, <3>1 DEF FirstLink, Fresh
      <4>. QED BY <1>1, <2>1, <2>2, <3>1, <4>1 DEF Sees, Failed
    <3>2. CASE ~cold
      <4>1. ~heartbeat_alive
        BY <1>12, <3>2 DEF FirstLink
      <4>. QED BY <1>1, <2>1, <2>2, <3>2, <4>1 DEF Sees, Failed
    <3>. QED BY <3>1, <3>2
  <2>4. TestWatch'
    BY <1>5, <2>2 DEF TestWatch, Opening
  <2>. QED BY <1>4, <2>2, <2>3, <2>4 DEF FirstLink, Drain, LastLink
<1>13. CASE step \in 3 .. 8
  <2>1. Script[step + 1].sees = "any"
    <3>1. step + 1 \in 4 .. 9
      BY <1>13
    <3>. QED BY <3>1, ScriptRows
  <2>2. failures' = failures /\ step' \in 4 .. 9 /\ pc' = "act"
    BY <1>1, <1>13, <2>1 DEF Sees
  <2>3. Failed'
    BY <1>1, <1>13, <2>2 DEF Failed
  <2>4. TestWatch'
    BY <1>5, <2>2 DEF TestWatch, Opening
  <2>. QED BY <1>4, <2>2, <2>3, <2>4 DEF FirstLink, Drain, LastLink
<1>14. CASE step = 9
  <2>1. Script[step + 1].sees = "idle"
    <3>1. step + 1 = 10
      BY <1>14
    <3>. QED BY <3>1, ScriptRows
  <2>2. ~heartbeat_alive /\ ~motors_armed
    <3>1. heartbeat_alive => heartbeat_cnt <= TestTimeout /\ heartbeat_cnt + 0 >= 40
      BY <1>1, <1>14 DEF Drain
    <3>. QED BY <1>2, <1>5, <3>1, Bench
  <2>3. failures' = failures /\ step' = 10 /\ pc' = "act"
    BY <1>1, <1>14, <2>1, <2>2 DEF Sees
  <2>4. Failed'
    BY <1>1, <1>14, <2>3 DEF Failed
  <2>5. TestWatch' /\ Drain'
    BY <1>1, <1>5, <2>2, <2>3 DEF TestWatch, Opening, Drain
  <2>. QED BY <1>4, <2>3, <2>4, <2>5 DEF FirstLink, LastLink
<1>15. CASE step = 10
  <2>1. Script[step + 1].sees = "any"
    <3>1. step + 1 = 11
      BY <1>15
    <3>. QED BY <3>1, ScriptRows
  <2>2. failures' = failures /\ step' = 11 /\ pc' = "act"
    BY <1>1, <1>15, <2>1 DEF Sees
  <2>3. Failed'
    BY <1>1, <1>15, <2>2 DEF Failed
  <2>4. TestWatch' /\ Drain'
    BY <1>1, <1>5, <1>15, <2>2 DEF TestWatch, Opening, Drain
  <2>. QED BY <1>4, <2>2, <2>3, <2>4 DEF FirstLink, LastLink
<1>16. CASE step = 11
  <2>1. Script[step + 1].sees = "any" /\ Script[step + 1].print = 0
    <3>1. step + 1 = 12
      BY <1>16
    <3>. QED BY <3>1, ScriptRows
  <2>2. failures' = failures /\ step' = 12 /\ pc' = "act" /\ busy' = 0
    BY <1>1, <1>16, <2>1 DEF Sees
  <2>3. Failed'
    BY <1>1, <1>16, <2>2 DEF Failed
  <2>4. TestWatch'
    BY <1>5, <2>2 DEF TestWatch, Opening
  <2>5. Fresh(DriverTimeout) /\ Reach <= 1
    BY <1>1, <1>16 DEF LastLink
  <2>6. Fresh(DriverTimeout)' /\ Reach' <= 1
    BY <1>1, <2>2, <2>5 DEF Fresh, Reach
  <2>7. LastLink'
    BY <2>2, <2>6 DEF LastLink
  <2>. QED BY <1>4, <2>2, <2>3, <2>4, <2>7 DEF FirstLink, Drain
<1>17. CASE step = 12
  <2>1. Script[step + 1].sees = "armed" /\ Script[step + 1].print = 4
    <3>1. step + 1 = 13
      BY <1>17
    <3>. QED BY <3>1, ScriptRows
  <2>2. Fresh(DriverTimeout) /\ Reach <= 3 /\ motors_armed
    BY <1>1, <1>17 DEF LastLink
  <2>3. failures' = failures /\ step' = 13 /\ pc' = "leds"
    BY <1>1, <1>17, <2>1, <2>2 DEF Sees, Fresh
  <2>4. Failed'
    BY <1>1, <1>17, <2>3 DEF Failed
  <2>5. TestWatch'
    BY <1>5, <2>3 DEF TestWatch, Opening
  <2>6. Fresh(DriverTimeout)'
    BY <1>1, <2>2 DEF Fresh
  <2>7. Reach' <= 8
    <3>1. quiet \in Nat /\ 3 \in Nat /\ 4 \in Nat /\ 3 + 4 + 1 = 8
      BY <2>2, Timing DEF Fresh
    <3>. QED BY <1>6, <2>1, <2>2, <3>1
  <2>8. Reach' <= DriverTimeout
    <3>1. quiet \in Nat
      BY <2>2, Timing DEF Fresh
    <3>2. Span(quiet, busy', spare) \in Nat
      BY <1>2, <1>3, <3>1, SpanNat
    <3>3. Reach' = Span(quiet', busy', spare')
      BY DEF Reach, Span
    <3>4. \A n \in Nat : n <= 8 => n <= DriverTimeout
      BY Bench
    <3>. QED BY <1>1, <2>7, <3>2, <3>3, <3>4
  <2>9. LastLink'
    BY <2>3, <2>6, <2>8 DEF LastLink
  <2>. QED BY <1>4, <2>3, <2>4, <2>5, <2>9 DEF FirstLink, Drain
<1>. QED BY <1>2, <1>10, <1>11, <1>12, <1>13, <1>14, <1>15, <1>16, <1>17

\* The final loop: a heartbeat, and a period and a line until the next.
LEMMA TestLeds ==
  ASSUME TestState, BitsInv, prog = "cfs_test", NEW tick \in BOOLEAN, leds(tick)
  PROVE  TestState'
<1>. USE DEF TestState
<1>1. /\ pc = "leds" /\ pc' = "leds" /\ delay' = delay /\ poll' = poll
      /\ rov_heartbeat(tick) /\ busy' \in HbPeriod .. HbPeriod + 1
      /\ UNCHANGED <<cold, step, failures>>
      /\ spare' = IF tick THEN 0 ELSE spare
  BY DEF leds, Burst, program, own
<1>2. step = 13 /\ delay = 0 /\ ~poll /\ spare \in {0, 1} /\ spare' \in {0, 1}
  BY <1>1 DEF TestTypes
<1>3. Safety!Heartbeat(tick, hb_bit')
  BY <1>1, BeatTaken DEF BitsInv, Synced
<1>4. hb_timeout = DriverTimeout
  BY <1>2 DEF LastLink, Fresh
<1>5. Fresh(DriverTimeout)' /\ quiet' = 0 /\ motors_armed' = Safety!ArmedAfter(tick)
  BY <1>3, <1>4, HeartbeatFresh
<1>6. motors_armed' \in BOOLEAN /\ heartbeat_alive' = TRUE /\ heartbeat_cnt' \in 0 .. CntMod - 1
  BY <1>3, <1>5, Zenon DEF Safety!Heartbeat, Safety!ArmedAfter, Fresh
<1>7. PICK b \in HbPeriod .. HbPeriod + 1 : b = busy'
  BY <1>1
<1>8. b \in Nat /\ Span(0, b, spare') <= DriverTimeout
  <2>1. \A sp \in {0, 1} : Span(0, b, sp) <= DriverTimeout
    BY Bench, Timing DEF Span
  <2>. QED BY <1>2, <2>1, Timing
<1>9. TestTypes'
  BY <1>1, <1>2, <1>6, <1>7, <1>8 DEF TestTypes
<1>10. Reach' <= DriverTimeout
  <2>1. Reach' = Span(quiet', busy', spare')
    BY DEF Reach, Span
  <2>. QED BY <1>5, <1>7, <1>8, <2>1
<1>11. Failed'
  BY <1>1 DEF Failed
<1>12. TestWatch'
  BY <1>1, <1>2, <1>6 DEF TestWatch, Opening
<1>13. LastLink'
  BY <1>1, <1>2, <1>5, <1>10 DEF LastLink
<1>. QED BY <1>1, <1>2, <1>9, <1>11, <1>12, <1>13 DEF FirstLink, Drain

LEMMA TestKeeps == ASSUME TestInv, BitsInv, CfsTest PROVE TestInv'
<1>1. prog = "cfs_test" /\ TestState
  BY DEF CfsTest, TestInv
<1>2. CASE (Wait \/ Slip) /\ UNCHANGED own
  <2>1. delay = 0 /\ ~poll /\ pc # "loop"
    BY <1>1 DEF TestState, TestTypes
  <2>2. CASE Wait
    <3>1. /\ Safety!Tick /\ UNCHANGED <<hb_bit, pc, delay, poll>>
          /\ busy > 0 /\ busy' = busy - 1 /\ spare' = 1
      BY <2>1, <2>2 DEF Wait, program
    <3>. QED BY <1>1, <1>2, <3>1, TestStrobe DEF TestInv
  <2>3. CASE Slip
    <3>1. /\ Safety!Tick /\ UNCHANGED <<hb_bit, pc, delay, poll>>
          /\ busy = 0 /\ busy' = 0 /\ spare = 1 /\ spare' = 0
      BY <2>1, <2>3 DEF Slip, program, waiting
    <3>. QED BY <1>1, <1>2, <3>1, TestStrobe DEF TestInv
  <2>. QED BY <1>2, <2>2, <2>3
<1>3. ASSUME NEW tick \in BOOLEAN, cfs_command(tick) PROVE TestInv'
  BY <1>1, <1>3, TestCommand DEF TestInv
<1>4. ASSUME NEW tick \in BOOLEAN, leds(tick) PROVE TestInv'
  BY <1>1, <1>4, TestLeds DEF TestInv
<1>5. CASE report
  BY <1>1, <1>5, TestReport DEF TestInv
<1>. QED BY <1>2, <1>3, <1>4, <1>5 DEF CfsTest

(***************************************************************************)
(* The bench programs together                                             *)
(***************************************************************************)

BenchInv == SweepInv /\ TestInv

\* What every program finds after a reset.
Started ==
  /\ pc = "init" /\ busy \in 0 .. MaxBlock /\ delay = 0 /\ poll = FALSE /\ spare = 1
  /\ motors_armed = FALSE /\ heartbeat_alive = FALSE /\ heartbeat_cnt = 0
  /\ quiet = CntMod /\ hb_timeout = DefaultTimeout /\ hb_bit = 0
  /\ cold <=> hb_toggle_last = 0
  /\ step = 0 /\ ticks = 0 /\ failures = 0

LEMMA StartedBench == Started => BenchInv
<1>. SUFFICES ASSUME Started PROVE BenchInv
  OBVIOUS
<1>1. busy \in Nat /\ delay \in Nat /\ poll \in BOOLEAN /\ spare \in {0, 1}
  <2>1. busy \in 0 .. MaxBlock /\ delay = 0 /\ poll = FALSE /\ spare = 1
    BY Zenon DEF Started
  <2>2. poll \in BOOLEAN
    BY <2>1, Zenon
  <2>3. busy \in Nat
    <3>1. \A b \in 0 .. MaxBlock : b \in Nat
      BY Timing
    <3>. QED BY <2>1, <3>1, Zenon
  <2>4. 0 \in Nat /\ 1 \in {0, 1}
    OBVIOUS
  <2>. QED BY <2>1, <2>2, <2>3, <2>4, Zenon
<1>2. SweepState
  <2>1. 0 \in 0 .. 2 * Steps + 1 /\ 0 \in 0 .. HbPeriod - 1
    BY Bench, Timing
  <2>2. SweepTypes
    BY <1>1, <2>1 DEF Started, SweepTypes
  <2>. QED BY <2>2 DEF Started, SweepState, SweepBoot, SweepRuns, Silent
<1>3. TestState
  <2>1. 0 \in 0 .. CntMod - 1 /\ 0 \in 0 .. 12
    BY Timing
  <2>2. TestTypes
    BY <1>1, <2>1 DEF Started, TestTypes
  <2>. QED BY <2>2 DEF Started, TestState, Failed, TestWatch, Opening, FirstLink, Drain, LastLink, Silent
<1>. QED BY <1>2, <1>3 DEF BenchInv, SweepInv, TestInv

LEMMA BenchStep == BenchInv /\ BitsInv /\ [ProgramsNext]_allVars => BenchInv'
<1>. SUFFICES ASSUME BenchInv, BitsInv, [ProgramsNext]_allVars PROVE BenchInv'
  OBVIOUS
<1>. USE DEF BenchInv
<1>1. CASE UNCHANGED allVars
  <2>1. SweepInv'
    BY <1>1 DEF allVars, vars, safety, program, waiting, own, SweepInv, SweepState, SweepTypes,
                SweepBoot, SweepRuns, SweepTime, Silent, Fresh, Reach
  <2>2. TestInv'
    BY <1>1 DEF allVars, vars, safety, program, waiting, own, TestInv, TestState, TestTypes, Failed,
                TestWatch, Opening, FirstLink, Drain, LastLink, Silent, Fresh, Reach
  <2>. QED BY <2>1, <2>2
<1>2. CASE RovMain \/ App
  <2>1. prog' \in {"rov_main", "app"}
    BY <1>2 DEF RovMain, App, own
  <2>. QED BY <2>1 DEF SweepInv, TestInv
<1>3. CASE PwmSweep
  <2>1. prog' = "pwm_sweep"
    BY <1>3 DEF PwmSweep, own, pwm_turn, hold_with_heartbeat
  <2>. QED BY <1>3, <2>1, SweepKeeps DEF TestInv
<1>4. CASE CfsTest
  <2>1. prog' = "cfs_test"
    BY <1>4 DEF CfsTest, own, cfs_command, leds, report
  <2>. QED BY <1>4, <2>1, TestKeeps DEF SweepInv
<1>5. CASE Start
  <2>1. Started'
    BY <1>5 DEF Started, Start, Reset, Safety!Reset, Safety!ResetState
  <2>2. Started' => BenchInv'
    BY StartedBench, PTL
  <2>. QED BY <2>1, <2>2
<1>. QED BY <1>1, <1>2, <1>3, <1>4, <1>5 DEF ProgramsNext

LEMMA BenchHolds == ProgramsSpec => []BenchInv
<1>1. ProgramsInit => Started
  BY DEF ProgramsInit, Init, Safety!Init, Started
<1>. QED BY <1>1, StartedBench, BenchStep, BitsHold, PTL DEF ProgramsSpec

\* Every counter and every point of control of the four programs stays in the
\* range its code gives it.
THEOREM RangesKept == ProgramsSpec => []Ranges
<1>1. BitsInv /\ LinkInv /\ Counters /\ BenchInv => Ranges
  <2>. SUFFICES ASSUME BitsInv, LinkInv, Counters, BenchInv PROVE Ranges
    OBVIOUS
  <2>1. MainLoop => TypeOK
    BY DEF MainLoop, BitsInv, Bits, Places, LinkInv, LoopTypes, Counters, TypeOK
  <2>2. prog = "pwm_sweep" => SweepTypes
    BY DEF BenchInv, SweepInv, SweepState
  <2>3. prog = "cfs_test" => step \in 0 .. 13 /\ failures \in 0 .. step
    <3>. SUFFICES ASSUME prog = "cfs_test" PROVE step \in 0 .. 13 /\ failures \in 0 .. step
      OBVIOUS
    <3>1. TestTypes /\ Failed
      BY DEF BenchInv, TestInv, TestState
    <3>2. step \in 0 .. 13
      BY <3>1 DEF TestTypes
    <3>. QED BY <3>1, <3>2 DEF Failed
  <2>4. prog = "cfs_test" => pc \in {"init", "look", "act", "leds"}
    BY DEF BitsInv, Places
  <2>. QED BY <2>1, <2>2, <2>3, <2>4, ScriptRows DEF Ranges, MainLoop, SweepTypes
<1>. QED BY <1>1, BitsHold, LinkHolds, CountersHold, BenchHolds, PTL

\* No spurious failsafe in any program that means to keep the link alive: the
\* main loops, pwm_sweep with its static counter and uneven holds, and the
\* final loop of cfs_test.
THEOREM LinkStaysUp == ProgramsSpec => []LinkStays
<1>1. BitsInv /\ LinkInv /\ BenchInv => LinkStays
  <2>. SUFFICES ASSUME BitsInv, LinkInv, BenchInv, prog # "cfs_test" \/ pc = "leds"
                PROVE  LinkKept
    BY DEF LinkStays
  <2>1. CASE MainLoop
    BY <2>1, Timing DEF LinkInv, OnTime, LinkUp, LinkKept
  <2>2. CASE prog = "pwm_sweep"
    <3>1. heartbeat_alive \/ Silent
      BY <2>2 DEF BenchInv, SweepInv, SweepState, SweepTypes, SweepBoot, SweepRuns, Fresh
    <3>. QED BY <3>1, Timing DEF Silent, LinkKept
  <2>3. CASE prog = "cfs_test"
    BY <2>3 DEF BenchInv, TestInv, TestState, TestTypes, LastLink, Fresh, LinkKept
  <2>. QED BY <2>1, <2>2, <2>3 DEF BitsInv, Places, Program, MainLoop
<1>. QED BY <1>1, BitsHold, LinkHolds, BenchHolds, PTL

\* A program that arms once stands or falls with the bit the core remembers
\* from before the reset: pwm_sweep is armed for good or never, and of the
\* self-test's checks none fails or exactly T2 and T3.
THEOREM StartDecided == ProgramsSpec => []StartDecides
<1>1. BenchInv => StartDecides
  BY DEF BenchInv, SweepInv, SweepState, SweepRuns, TestInv, TestState, TestTypes, Failed, StartDecides
<1>. QED BY <1>1, BenchHolds, PTL

(***************************************************************************)
(* The safety core in the company of the programs                          *)
(***************************************************************************)

\* The core as its own module describes it, with the timeouts that are written.
Core == INSTANCE RovSafetyProofs WITH TimeoutValue <- {DriverTimeout, TestTimeout}

LEMMA CoreFits == Core!WatchdogAssumption /\ Core!SlewAssumption /\ Core!RampAssumption
<1>1. Core!WatchdogAssumption
  BY TimingAssumption, ProgramAssumption DEF Core!WatchdogAssumption
<1>2. Core!SlewAssumption
  BY CoreAssumption DEF Safety!SlewAssumption, Core!SlewAssumption
<1>3. Core!RampAssumption
  BY CoreAssumption DEF Safety!RampAssumption, Core!RampAssumption
<1>. QED BY <1>1, <1>2, <1>3

\* What a program's step may do to the core.
CoreStep(tick) ==
  \/ UNCHANGED safety
  \/ Safety!Tick \/ Safety!Arm(tick) \/ Safety!Disarm(tick) \/ Safety!Reset
  \/ \E bit \in {0, 1} : Safety!Heartbeat(tick, bit)
  \/ \E ms \in {DriverTimeout, TestTimeout} : Safety!SetTimeout(tick, ms)

LEMMA CoreCycle ==
  ASSUME NEW tick \in BOOLEAN, NEW armed
  PROVE  /\ Safety!Cycle(tick, armed) => Core!Cycle(tick, armed)
         /\ Safety!WatchdogTick(tick) => Core!WatchdogTick(tick)
         /\ Safety!ArmedAfter(tick) = Core!ArmedAfter(tick)
BY DEF Safety!Cycle, Core!Cycle, Safety!SlewTick, Core!SlewTick, Safety!slew, Core!slew,
       Safety!ArmTimerNext, Core!ArmTimerNext, Safety!Slewed, Core!Slewed,
       Safety!Saturate, Core!Saturate, Safety!WatchdogTick, Core!WatchdogTick,
       Safety!ArmedAfter, Core!ArmedAfter, Safety!Trips, Core!Trips

LEMMA CoreMoves == ASSUME NEW tick \in BOOLEAN, CoreStep(tick) PROVE [Core!Next]_(Core!vars)
<1>1. CASE UNCHANGED safety
  BY <1>1 DEF safety, Core!vars, Core!watchdog, Core!slew, Core!history
<1>2. CASE Safety!Tick
  BY <1>2, CoreCycle DEF Safety!Tick, Core!Tick, Core!Next
<1>3. CASE Safety!Arm(tick)
  BY <1>3, CoreCycle DEF Safety!Arm, Core!Arm, Core!Command, Core!Next
<1>4. CASE Safety!Disarm(tick)
  BY <1>4, CoreCycle DEF Safety!Disarm, Core!Disarm, Core!Command, Core!Next
<1>5. ASSUME NEW bit \in {0, 1}, Safety!Heartbeat(tick, bit) PROVE Core!Next
  BY <1>5, CoreCycle DEF Safety!Heartbeat, Core!Heartbeat, Core!Command, Core!Next
<1>6. ASSUME NEW ms \in {DriverTimeout, TestTimeout}, Safety!SetTimeout(tick, ms) PROVE Core!Next
  BY <1>6, CoreCycle DEF Safety!SetTimeout, Core!SetTimeout, Core!Command, Core!Next
<1>7. CASE Safety!Reset
  BY <1>7 DEF Safety!Reset, Core!Reset, Safety!ResetState, Core!ResetState, Core!Next
<1>. QED BY <1>1, <1>2, <1>3, <1>4, <1>5, <1>6, <1>7 DEF CoreStep

LEMMA CoreQuiet == ASSUME NEW tick \in BOOLEAN, NoEffect(tick) PROVE CoreStep(tick)
BY DEF NoEffect, CoreStep

LEMMA CoreBeat ==
  ASSUME Bits, NEW tick \in BOOLEAN, rov_heartbeat(tick) PROVE CoreStep(tick)
<1>1. hb_bit' \in {0, 1}
  BY DEF rov_heartbeat, Bits
<1>. QED BY <1>1, CoreQuiet DEF rov_heartbeat, CoreStep

LEMMA CoreSteps ==
  ASSUME BitsInv, [ProgramsNext]_allVars
  PROVE  \E tick \in BOOLEAN : CoreStep(tick)
<1>. USE DEF BitsInv
<1>1. CASE UNCHANGED allVars
  BY <1>1 DEF allVars, vars, CoreStep
<1>2. CASE Wait \/ Slip
  BY <1>2 DEF Wait, Slip, CoreStep
<1>3. ASSUME NEW tick \in BOOLEAN, service_heartbeat(tick) PROVE CoreStep(tick)
  BY <1>3, CoreQuiet, CoreBeat DEF service_heartbeat
<1>4. ASSUME NEW tick \in BOOLEAN,
             InitTimeout(tick) \/ InitBeat(tick) \/ InitArm(tick) \/ pwm_boot(tick)
      PROVE  CoreStep(tick)
  BY <1>4, CoreBeat DEF pwm_boot, InitTimeout, InitBeat, InitArm, CoreStep
<1>5. ASSUME NEW tick \in BOOLEAN,
             ArmBeat(tick) \/ ArmNow(tick) \/ ConsoleDisarm(tick) \/ MavlinkArm(tick)
      PROVE  CoreStep(tick)
  BY <1>5, CoreBeat DEF ArmBeat, ArmNow, ConsoleDisarm, MavlinkArm, CoreStep
<1>6. CASE ConsoleArm \/ Report \/ Other \/ pwm_turn \/ report
  BY <1>6 DEF ConsoleArm, Report, Other, pwm_turn, report, CoreStep
<1>7. ASSUME NEW tick \in BOOLEAN, hold_with_heartbeat(tick) PROVE CoreStep(tick)
  BY <1>7, CoreQuiet, CoreBeat DEF hold_with_heartbeat
<1>8. ASSUME NEW tick \in BOOLEAN, NEW command, Do(command, tick) PROVE CoreStep(tick)
  BY <1>8, CoreQuiet, CoreBeat DEF Do, CoreStep
<1>9. ASSUME NEW tick \in BOOLEAN, cfs_command(tick) \/ leds(tick) PROVE CoreStep(tick)
  BY <1>8, <1>9, CoreBeat DEF cfs_command, leds
<1>10. CASE Start
  BY <1>10 DEF Start, Reset, CoreStep
<1>11. CASE RovMain
  BY <1>2, <1>3, <1>4, <1>5, <1>6, <1>11 DEF RovMain, Instruction
<1>12. CASE App
  BY <1>2, <1>3, <1>4, <1>5, <1>6, <1>12
     DEF App, app_boot, app_loop, app_process_command, app_cmd_arm, app_cmd_reinit,
         app_cmd_status, app_prints, app_service_heartbeat, app_telemetry
<1>13. CASE PwmSweep
  BY <1>2, <1>4, <1>6, <1>7, <1>13 DEF PwmSweep
<1>14. CASE CfsTest
  BY <1>2, <1>6, <1>9, <1>14 DEF CfsTest
<1>. QED BY <1>1, <1>10, <1>11, <1>12, <1>13, <1>14 DEF ProgramsNext

\* The programs drive the core as its own module allows: whatever they do, and
\* whatever program a reset starts, what the core sees is a behaviour of RovSafety.
THEOREM CoreIsDriven == ProgramsSpec => Core!Spec
<1>1. ProgramsInit => Core!Init
  BY DEF ProgramsInit, Init, Safety!Init, Core!Init
<1>2. BitsInv /\ [ProgramsNext]_allVars => [Core!Next]_(Core!vars)
  BY CoreSteps, CoreMoves
<1>. QED BY <1>1, <1>2, BitsHold, PTL DEF ProgramsSpec, Core!Spec

\* So the watchdog keeps its deadline under all four programs: its counter tells
\* the silence, no millisecond beyond the timeout leaves the PWM gate open, and
\* every silent strobe brings an armed drive nearer to its disarming.
THEOREM DeadlineKept ==
  ProgramsSpec =>
    /\ []Core!CounterTellsSilence
    /\ Core!DeadlineHonoured
    /\ Core!SilenceRunsOut
BY CoreIsDriven, CoreFits, Core!CounterIsSilence, Core!DeadlineSafe, Core!SilenceBounded, PTL
=============================================================================
