CONSTANTS
  Channel = {m1}
  CntMod = 5
  DefaultTimeout = 2
  TimeoutValue = {0, 3, 4}
  ArmDelay = 2
  DutyMax = 6
  Neutral = 3
  SlewStep = 2
  MixerDuty = {0, 6, 4}
  TickCap = 5
SPECIFICATION FairSpec
INVARIANTS TypeOK CounterTellsSilence RampBound
PROPERTIES DeadlineHonoured SilenceDisarms OutputConverges
