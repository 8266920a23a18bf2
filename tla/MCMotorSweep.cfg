CONSTANTS
  LastStep = 25
  SlowSteps = 10
  SlowDelta = 280
  FastDelta = 845
  SlowTime = 8
  FastTime = 5
  PauseTime = 200
  PassTime = {0, 1, 2, 3, 5, 8, 28, 268}
  MaxLag = 468
  Manual = {16383}
SPECIFICATION FairSweepSpec
INVARIANTS SweepTypeOK NoDrift
PROPERTY SweepRecurs
