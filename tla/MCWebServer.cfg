SPECIFICATION Spec
CONSTANTS
  a1 = a1  a2 = a2  a3 = a3
  c1 = c1  c2 = c2
  Assets = {a1, a2, a3}
  Catalog <- TwoListed
  Rank <- Ranks
  TokenLess = {}
  Stuck = {a2}
  KnownAtStart = {a3}
  DataMode = "live"
  PageSize = 2
  MaxPages = 1
  Clients = {c1, c2}
  Loop = Loop
  Null = Null
  WatchLimit = 1
  Retention = 1
  MaxTime = 2
  MaxScans = 2
  Address <- Places
  Loopback = Loopback
  Origin <- Origins
  ScanToken = Null
  TokenOf <- NoTokens
  MutationLimit = 2
  Window = 2
INVARIANTS
  OverrunNeedsOverlap
  RetentionKeepsRecent
  WindowAdmits
PROPERTIES
  LoopComesBack
CHECK_DEADLOCK FALSE
