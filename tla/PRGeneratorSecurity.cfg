SPECIFICATION Spec
CONSTANTS
  BlockBytes = 2
  NBlocks = 2
  KeyBytes = 2
  ReseedAfter = 4
  EntropyMayFail = FALSE
  Interruptible = TRUE
  MaxGen = 3
  MaxRequest = 3
INVARIANT SecurityGuarantee
