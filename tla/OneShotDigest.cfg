SPECIFICATION FairSpec
CONSTANTS
  Scheme = "blake2"
  BlockBytes = 2
  LengthBytes = 1
  NBlocks = 2
  MaxSources = 3
  MaxLeft = 5
  MaxGrowth = 1
  HandleMayFail = TRUE
  Spoiled = Spoiled
  NoDigest = NoDigest
INVARIANTS TypeOK MoreRemains DigestOfSource
PROPERTIES Terminates ImplementsMessageDigest
