CONSTANTS
  PromWords = 2
  DepthEvery = 2
  Rate = {0, 1, 6}
  WordMod = 8
SPECIFICATION FairSpec
INVARIANTS TypeOK YawTripled
PROPERTIES SamplesPaired DepthRecovers
