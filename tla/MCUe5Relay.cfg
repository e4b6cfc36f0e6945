SPECIFICATION Spec
CONSTANTS
  Conn = {s1, s2}
  None = None
  MaxBuffer = 2
  Ttl = 2
  Retry = 1
  MaxMsg = 4
INVARIANTS
  OneOrderedStream
  Accounted
  NothingStale
PROPERTIES
  BufferDrains
CHECK_DEADLOCK FALSE
