SPECIFICATION Spec
CONSTANTS
  n1 = n1  n2 = n2  f1 = f1  f2 = f2  a = a  b = b  c = c  x = x  y = y
  NoBlock = NoBlock
  Nodes = {n1, n2}
  Keyed = {n1, n2}
  Faulty = {}
  Registered = {n1, n2}
  Leader <- LeaderN1
  Blocks = {a, b, c}
  BlockHeight <- TwoAndNext
  BlockSpends <- NoSpends
  Nullifiers = {x, y}
  Sealed = {a, c}
  Valid = {a, b, c}
  External = {a, b, c}
  HasGenesis = TRUE
  SyncGap = 2
  SyncLimit = 2
  PeerAddressable = FALSE
  MaxRound = 0
  MaxRestarts = 1
CHECK_DEADLOCK FALSE
PROPERTIES CommitsTheVotedBlock
