SPECIFICATION Spec
CONSTANTS
  Scheme = "blake2"
  BlockBytes = 4
  LengthBytes = 1
  HashBytes = 3
  KeyIds = {1, 2}
  KeyLengths = {1, 2, 3, 5}
  BufferBlocks = 2
  MaxMessage = 17
  NoTag = NoTag
INVARIANTS TypeOK KeyThenMessage
PROPERTY ImplementsMacSession
CHECK_DEADLOCK FALSE
