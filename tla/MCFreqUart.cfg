CONSTANTS
  FIFO_DEPTH = 3
  ReportLen = 2
  TxEdges = 4
  RxEdges = 4
  GateEdges = 1
  Byte = {b1, b2}
  Value = {v1, v2}
  BurstCap = 6
SPECIFICATION FairSpec
INVARIANTS TypeOK MeasurementRetained BurstsFit
PROPERTIES LineSpec QuietReported
