CONSTANTS
  Depth = {60, 199, 350}
  Heading = {8192}
  Raw = {0, 16383}
SPECIFICATION FairSpec
INVARIANT StaleOnce
PROPERTIES DepthErrorFits HoldReasserted HoldsReleased
