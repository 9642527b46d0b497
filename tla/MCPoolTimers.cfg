SPECIFICATION TimerSpec
CONSTANTS
  Tasks = {t1, t2}
  NoTask = NoTask
  NoConn = NoConn
  MaxId = 8
  MaxSize = 1
  MinIdle = 1
  TestOnCheckOut = TRUE
  RetryConnection = TRUE
  IdleTimeout <- None
  MaxLifetime <- None
  OneShot = TRUE
  MaxTime = 0
PROPERTY CallsEnd
