CONSTANTS
  Threads = {a}
  Tasks = {task}
  Reconciler = reconciler
  SubscriptionCap = 1
  Others = 1
  ResumeRetryLimit = 2
  NoThread = none
  MaxVersion = 4
  MaxWire = 2
  MaxConns = 2
  none = none
  a = a
  task = task
  reconciler = reconciler
SPECIFICATION Spec
INVARIANTS
  TypeOK
  OneSubscribes
  SubscribedRetained
  TurnsKnown
  
CHECK_DEADLOCK FALSE
