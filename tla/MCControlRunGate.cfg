CONSTANTS
  Reqs = {act, unsub}
  Actions = {act}
  Unsubscribes = {unsub}
  QueueCap = 2
  IngressCap = 1
  MaxConns = 2
  act = act
  unsub = unsub
SPECIFICATION RunSpec
INVARIANTS
  ActionsFollowReconciliation
CHECK_DEADLOCK FALSE
