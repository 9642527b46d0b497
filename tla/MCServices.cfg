SPECIFICATION Spec
CONSTANTS
  Generators = {"load", "load_churn", "load_wal", "load_file", "kvload"}
  Threads = {1, 2}
  Pipeline = 3
  Bytes = 2
  FileSize = 3
  Window = 2
  MaxSent = 3
  Capacity = 1
  MaxSegments = 2
  Chunk = 2
  Lengths = {2}
CHECK_DEADLOCK FALSE
INVARIANTS
  EchoMatches
  AckedIsDurable
  BodyInOrder
  BufferHome
  AnswerComing
