CONSTANTS
  One = 4
  Setpoint = {3, 0}
  Current = {0, 5}
  GainP = {4}
  GainI = {2, 7}
  GainD = {3}
SPECIFICATION FairSpec
INVARIANT TypeOK
PROPERTIES IntegralFollows MemoryIsLastError IntegralSettles
