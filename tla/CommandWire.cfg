SPECIFICATION FairSpec
CONSTANTS
  a = a
  b = b
  c = c
  None = None
  Requests = {a, b, c}
  Async = {c}
  Window = 1
INVARIANTS OwnReply DuplicateNeedsFullWindow
PROPERTY NobodyWaitsForEver
