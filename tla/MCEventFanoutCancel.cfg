CONSTANTS
  LogCap = 3
  HubCap = 2
  DeltaCap = 1
  MaxFrames = 5
SPECIFICATION CancelSpec
INVARIANTS
  NoSilentLoss
CHECK_DEADLOCK FALSE
