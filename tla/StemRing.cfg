SPECIFICATION FairSpec
CONSTANTS
  n1 = n1  n2 = n2  n3 = n3  t1 = t1
  Nodes = {n1, n2, n3}
  Txs = {t1}
  Outside = outside
  FluffNodes = {}
  None = none
INVARIANTS ForwardedOnce FluffedOnce
PROPERTIES StemEndsInFluff
CHECK_DEADLOCK FALSE
