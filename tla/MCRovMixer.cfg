CONSTANTS
  NumAxes = 2
  NumMotors = 2
  Value = {0, 1}
  Output = {0, 1}
  Zero = 0
  Mask <- Masks
  RunEdges = 11
SPECIFICATION FairSpec
INVARIANT SetpointsApplied
PROPERTY PidRefreshes
