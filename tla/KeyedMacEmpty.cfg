SPECIFICATION Spec
CONSTANTS
  Scheme = "blake2"
  BlockBytes = 4
  LengthBytes = 1
  HashBytes = 3
  KeyIds = {1, 2}
  KeyLengths = {0, 2}
  BufferBlocks = 2
  MaxMessage = 17
  NoTag = NoTag
INVARIANT TagOfKeyAndMessage
CHECK_DEADLOCK FALSE
