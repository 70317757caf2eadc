SPECIFICATION Spec
CONSTANTS
  SecureCalls = {s1, s2}
  PlainCalls = {p1}
  Size = 1
  PageSize = 2
  NPages = 2
  Quota = 2
  NoSecret = NoSecret
INVARIANT NeverSwapped
