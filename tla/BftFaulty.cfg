SPECIFICATION Spec
CONSTANTS
  n1 = n1  n2 = n2  f1 = f1  f2 = f2  a = a  b = b  c = c  x = x  y = y
  NoBlock = NoBlock
  Nodes = {n1}
  Keyed = {n1}
  Faulty = {f1}
  Registered = {n1, f1}
  Leader <- LeaderN1
  Blocks = {a, b}
  BlockHeight <- OneHeight
  BlockSpends <- Leaving
  Nullifiers = {x, y}
  Sealed = {a, b}
  Valid = {a, b}
  External = {a, b}
  HasGenesis = TRUE
  SyncGap = 2
  SyncLimit = 2
  PeerAddressable = FALSE
  MaxRound = 1
  MaxRestarts = 1
INVARIANTS OnePrecommit VotesStartAtProposal
PROPERTIES  RerunOnlyIfRejected
CHECK_DEADLOCK FALSE
