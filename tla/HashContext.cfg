SPECIFICATION MCFairSpec
CONSTANTS
  Scheme = "sha2"
  BlockBytes = 2
  NBlocks = 2
  LengthBytes = 1
  MaxDrawn = 10
  MaxSource = 9
  MaxGrowth = 1
  SourceMayFail = TRUE
  Spoiled = Spoiled
  NoDigest = NoDigest
INVARIANTS TypeOK StreamIntact LastBlockHeld DigestOfMessage PaddingFits Blake2Sound
PROPERTIES UpdatesReturn ImplementsMessageDigest
