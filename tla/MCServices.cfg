CONSTANTS
  MaxFaults = 4
  Sets = {s1, s2, s3}
  Reapply = reapply
  NoRoots = noRoots
  Nobody = nobody
  MaxRestorations = 3
  RootConns = 3
  Listable = {a, b, c}
  PageSize = 1
  PageBound = 3
  CandidateLimit = 2
  MaxUpdates = 4
  MaxWalks = 2
  a = a
  b = b
  c = c
  s1 = s1
  s2 = s2
  s3 = s3
  reapply = reapply
  noRoots = noRoots
  nobody = nobody
SPECIFICATION ServicesSpec
INVARIANTS
  ServicesTypeOK
  AttachedGuiKept
  RootsRestored
  AllListedOnce
  CandidatesCover
PROPERTIES
  Repairs
  WalksEnd
CHECK_DEADLOCK FALSE
