SPECIFICATION Spec
CONSTANTS
  Tasks = {t1, t2}
  NoTask = NoTask
  NoConn = NoConn
  MaxId = 6
  MaxSize = 1
  MinIdle = 1
  TestOnCheckOut = TRUE
  RetryConnection = FALSE
  IdleTimeout <- None
  MaxLifetime <- None
  OneShot = TRUE
  MaxTime = 0
PROPERTY ClosedIsInert
