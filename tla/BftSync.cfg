SPECIFICATION Spec
CONSTANTS
  n1 = n1  n2 = n2  f1 = f1  f2 = f2  a = a  b = b  c = c  x = x  y = y
  NoBlock = NoBlock
  Nodes = {n1, n2}
  Keyed = {n2}
  Faulty = {f1}
  Registered = {n2}
  Leader <- LeaderElsewhere
  Blocks = {a, b}
  BlockHeight <- Consecutive
  BlockSpends <- Chained
  Nullifiers = {x, y}
  Sealed = {a}
  Valid = {a, b}
  External = {a, b}
  HasGenesis = TRUE
  SyncGap = 1
  SyncLimit = 1
  PeerAddressable = TRUE
  MaxRound = 0
  MaxRestarts = 1
INVARIANTS SyncNeverStalls
PROPERTIES  RerunOnlyIfRejected
CHECK_DEADLOCK FALSE
