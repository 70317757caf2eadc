SPECIFICATION Spec
CONSTANTS
  SecureCalls = {s1, s2}
  PlainCalls = {p1}
  Size = 2
  PageSize = 1
  NPages = 5
  Quota = 3
  NoSecret = NoSecret
INVARIANTS TypeOK NeverSwapped WipedClean LocksAreNeeded
PROPERTY OnlyExceptionsLeave
