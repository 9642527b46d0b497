SPECIFICATION CooperativeSpec
CONSTANTS
  Tasks = {t1, t2, t3}
  NoTask = NoTask
  NoConn = NoConn
  MaxId = 6
  MaxSize = 1
  MinIdle = 0
  TestOnCheckOut = FALSE
  RetryConnection = FALSE
  IdleTimeout <- None
  MaxLifetime <- None
  OneShot = TRUE
  MaxTime = 0
PROPERTY CloseDrains
