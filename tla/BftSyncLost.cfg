SPECIFICATION FairSpec
CONSTANTS
  n1 = n1  n2 = n2  f1 = f1  f2 = f2  a = a  b = b  c = c  x = x  y = y
  NoBlock = NoBlock
  Nodes = {n1, n2}
  Keyed = {}
  Faulty = {f1}
  Registered = {f1}
  Leader <- LeaderElsewhere
  Blocks = {a, b}
  BlockHeight <- Consecutive
  BlockSpends <- Chained
  Nullifiers = {x, y}
  Sealed = {a, b}
  Valid = {a, b}
  External = {a, b}
  HasGenesis = TRUE
  SyncGap = 1
  SyncLimit = 1
  PeerAddressable = FALSE
  MaxRound = 0
  MaxRestarts = 0
PROPERTIES SyncEnds
CHECK_DEADLOCK FALSE
