SPECIFICATION FairSpec
CONSTANTS
  Scheme = "sha2"
  BlockBytes = 2
  LengthBytes = 1
  NBlocks = 2
  MaxSources = 1
  MaxLeft = 5
  MaxGrowth = 1
  HandleMayFail = FALSE
  Spoiled = Spoiled
  NoDigest = NoDigest
INVARIANT ChunkIsComplete
