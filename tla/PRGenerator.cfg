SPECIFICATION Spec
CONSTANTS
  BlockBytes = 2
  NBlocks = 2
  KeyBytes = 2
  ReseedAfter = 4
  EntropyMayFail = FALSE
  Interruptible = FALSE
  MaxGen = 5
  MaxRequest = 5
INVARIANTS TypeOK SecurityGuarantee OnlyRandomBytes ReseedsRegularly
