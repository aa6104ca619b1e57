SPECIFICATION Spec
CONSTANTS
  NbInputs = 2
  Period <- MCPeriod
  KeyAt <- MCKeyAt
  Packets = 3
  QueueSize = 2
  Commands = 2
  Failures = {"open", "read", "write", "trailer"}
INVARIANTS
  CommandTypeOK
  SleepersMustWait
  QueueOutlivesReader
  CopyComplete
  StreamsInterleaved
PROPERTIES
  CopiesAsOneThread
  CommandEnds
CHECK_DEADLOCK FALSE
