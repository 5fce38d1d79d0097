CONSTANTS
  LogCap = 1
  HubCap = 2
  DeltaCap = 1
  MaxFrames = 3
SPECIFICATION FanoutSpec
INVARIANTS
  OldRequestReported
CHECK_DEADLOCK FALSE
