SPECIFICATION InputSpec
CONSTANTS
  Draws = 16
  SlashBps = 500
  MaxTxs = 3
  MaxBlockGas = 4
  MaxTxGas = 2
  Depth = 4
  MaxMemo = 3
  Word = 2097152
INVARIANTS LeaderShares SelectionGreedy TreeRoot NoteReaders WalletScans
  WalletTransactions FeesAndRewards VotesReceived
CHECK_DEADLOCK FALSE
