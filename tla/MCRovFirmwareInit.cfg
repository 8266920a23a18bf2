CONSTANTS
  Channel = {m1}
  CntMod = 26
  DefaultTimeout = 10
  ArmDelay = 1
  DutyMax = 1
  Neutral = 1
  SlewStep = 1
  MixerDuty = {}
  TickCap = 2
  DriverTimeout = 20
  HbPeriod = 5
  MaxBlock = 14
  ArmBeats = 5
  ArmPause = 1
  CmdPause = 10
SPECIFICATION Spec
PROPERTY InitArms
