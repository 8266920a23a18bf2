CONSTANTS
  Channel = {m1}
  CntMod = 52
  DefaultTimeout = 20
  ArmDelay = 1
  DutyMax = 1
  Neutral = 1
  SlewStep = 1
  MixerDuty = {}
  TickCap = 2
  DriverTimeout = 40
  HbPeriod = 10
  MaxBlock = 28
  ArmBeats = 5
  ArmPause = 2
  CmdPause = 20
  ShortHold = 5
  LongHold = 100
  Steps = 40
  TestTimeout = 4
SPECIFICATION ProgramsSpec
INVARIANTS Ranges BitsAgree LinkStays StartDecides
PROPERTY ConsoleArmArms
