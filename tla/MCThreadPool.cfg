SPECIFICATION Spec
CONSTANTS
  PoolSize = 2
  MaxThreads = 3
  MaxTasks = 3
  MaxSpurious = 1
INVARIANTS
  TypeOK
  NoDataRace
PROPERTIES
  KeepsPromise
  CallsReturn
CHECK_DEADLOCK FALSE
