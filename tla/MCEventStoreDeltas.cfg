CONSTANTS
  Threads = {a, b}
  NoThread = NoThread
  Shapes <- MCShapes
  ThreadCap = 2
  GlobalCap = 3
  Retention = 0
  Lag = 1
  MaxEvents = 3
  MaxTime = 1
  a = a
  b = b
SPECIFICATION StoreSpec
SYMMETRY Symmetry
PROPERTIES
  DeltasFirst
CHECK_DEADLOCK FALSE
