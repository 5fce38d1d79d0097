CONSTANTS
  Reqs = {act, plain}
  Actions = {act}
  QueueCap = 2
  IngressCap = 1
  MaxConns = 2
  act = act
  plain = plain
SPECIFICATION MCSpec
INVARIANTS
  TypeOK
  WrittenAtMostOnce
  RefusedNeverWritten
  SomebodyWillAnswer
  RequestInv
PROPERTIES
  ImplementsContract
  NothingWrittenAfterShutdown
CHECK_DEADLOCK FALSE
