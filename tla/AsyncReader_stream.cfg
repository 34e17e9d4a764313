CONSTANTS
  Buffers = 2
  Length = 5
  Ending = "eof"
  SoftStart = 1
  BufferSize = 2
  PoolSize = 1
  MaxCalls = 4
SPECIFICATION Spec
CHECK_DEADLOCK FALSE
INVARIANTS
  CloseFreesAll
  PoolBalanced
PROPERTIES
  StreamSpec
  CallsReturn
