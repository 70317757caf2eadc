SPECIFICATION FairSpec
CONSTANTS
  BlockBytes = 2
  NBlocks = 2
  KeyBytes = 2
  ReseedAfter = 4
  EntropyMayFail = TRUE
  Interruptible = TRUE
  MaxGen = 2
  MaxRequest = 3
INVARIANT NoByteTwice
PROPERTY RequestReturns
