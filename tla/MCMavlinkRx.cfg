CONSTANTS
  STX = 5
  MaxLen = 2
  Overhead = 3
  LineMax = 3
  EOL = {1}
  BS = {2}
  Frames <- Mixed
  Typed = {0, 1, 2}
  MaxFrames = 4
  MaxFaults = 1
  ResyncFrames = 2
SPECIFICATION RxSpec
INVARIANTS RxTypeOK LeakBound Resyncs
PROPERTY LinkSpec
CHECK_DEADLOCK FALSE
