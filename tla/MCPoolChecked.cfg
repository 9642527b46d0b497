SPECIFICATION Spec
CONSTANTS
  Tasks = {t1, t2, t3, t4}
  NoTask = NoTask
  NoConn = NoConn
  MaxId = 5
  MaxSize = 2
  MinIdle = 1
  TestOnCheckOut = TRUE
  RetryConnection = TRUE
  IdleTimeout <- OneTick
  MaxLifetime <- TwoTicks
  OneShot = FALSE
  MaxTime = 2
SYMMETRY Symmetry
INVARIANTS
  TypeOK
  SlotsAccounted
  NoStrandedWaiter
  ObservationHolds
  QueueWellFormed
  WatermarkExact
PROPERTIES
  WaitersSpec
  BoundedSpec
  ArrivalOrder
