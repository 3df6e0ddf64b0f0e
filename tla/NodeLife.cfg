SPECIFICATION Spec
CONSTANTS
  Validators = {"v"}
  Observers = {"o"}
  Txs <- FourTxs
  Provisioned <- TwoBlocks
  MaxTxs = 5
  MaxBlockGas = 5
  MaxTxGas = 2
  MaxBlocks = 2
  MaxRestarts = 1
INVARIANTS OneBlockAboveSealed
PROPERTIES EmptyStoreStays StaleStaysPooled ProposerPoisoned
CHECK_DEADLOCK FALSE
