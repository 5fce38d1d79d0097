CONSTANTS
  LogCap = 3
  HubCap = 2
  DeltaCap = 1
  MaxFrames = 6
  Threads = {a, b}
  NoThread = NoThread
  Shapes <- MCShapes
  ThreadCap = 2
  GlobalCap = 3
  Retention = 0
  Lag = 1
  MaxEvents = 3
  MaxTime = 1
  Starts = {start}
  Steers = {steer}
  Interrupts = {interrupt}
  Retries = 1
  MaxTurns = 2
  Nobody = Nobody
  a = a
  b = b
  start = start
  steer = steer
  interrupt = interrupt
SPECIFICATION MCSpec
SYMMETRY Symmetry
INVARIANTS
  FanoutTypeOK
  ReplayComplete
  NoSilentLoss
  DeltasAccounted
  AuthoritativeFirst
  FanoutInv
  StoreTypeOK
  CapsHold
  ThreadGapsExact
  NoAnchorAfterStart
  WindowHolds
  ControlTypeOK
  ConfirmedIsTrue
PROPERTIES
  OldestDeltaFirst
  ActionIsOneRequest
  NoMissedConfirmation
CHECK_DEADLOCK FALSE
