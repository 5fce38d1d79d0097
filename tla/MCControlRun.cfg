CONSTANTS
  Reqs = {unsub}
  Actions = {}
  Unsubscribes = {unsub}
  QueueCap = 1
  IngressCap = 1
  MaxConns = 2
  act = act
  unsub = unsub
SPECIFICATION FairRunSpec
INVARIANTS
  RunTypeOK
  FirstMarkHeard
PROPERTIES
  GateReopens
  ShutdownReturns
CHECK_DEADLOCK FALSE
