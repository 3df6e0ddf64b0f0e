SPECIFICATION Spec
CONSTANTS
  g = g  a = a  b = b  c = c  d = d
  x = x  y = y  o1 = o1  o2 = o2  o3 = o3  t1 = t1  t2 = t2  t3 = t3
  NoBlock = NoBlock
  Blocks = {g, a, b, c, d}
  BlockHeight <- HeightOf
  BlockOps <- OpsOf
  BlockTxs <- TxsOf
  KeepLast = 1
  MaxHeight = 3
  MaxCrashes = 3
  MaxRefused = 3
INVARIANTS IndexNeverDangling RecentBlocksStored TxsHaveBlock SpentOnce TreeMatchesStore
PROPERTIES LedgerSpec
CHECK_DEADLOCK FALSE
