--------------------------- MODULE BlockSelection ---------------------------
(***************************************************************************)
(* From the pool to a block: select_for_block of the mempool, and          *)
(* build_block, which hashes what it is given and packs it again.          *)
(* A transaction is a record [id, fee, gas].                               *)
(***************************************************************************)
EXTENDS Integers, Sequences, FiniteSets, SequencesExt

CONSTANTS MaxTxs,     \* 10000 in the code
          MaxBlockGas, MaxTxGas

ASSUME SelectionAssumption ==
  MaxTxs \in Nat \ {0} /\ MaxBlockGas \in Nat /\ MaxTxGas \in Nat

\* Of the first k of s, for each k; and of all of s.
GasUpTo(s) ==
  LET gas[k \in 0 .. Len(s)] == IF k = 0 THEN 0 ELSE gas[k - 1] + s[k].gas
  IN gas
GasOf(s) == GasUpTo(s)[Len(s)]

WellFormed(tx) == tx.gas <= MaxTxGas

\* Shuffled, then sorted by fee with a stable sort.
Orders(pool) ==
  {s \in SetToSeqs({tx \in pool : WellFormed(tx)}) :
     \A i, j \in DOMAIN s : i < j => s[i].fee >= s[j].fee}

\* Mutant: one transaction too many for the gas.
TakeLate(selected, tx) ==
  IF Len(selected) >= MaxTxs \/ GasOf(selected) > MaxBlockGas
  THEN selected ELSE Append(selected, tx)

\* One that does not fit is passed over, and a later one may.
Take(selected, tx) ==
  IF Len(selected) >= MaxTxs \/ GasOf(selected) + tx.gas > MaxBlockGas
  THEN selected ELSE Append(selected, tx)

\* From the first k candidates, for each k.
Selected(candidates) ==
  LET selected[k \in 0 .. Len(candidates)] ==
        IF k = 0 THEN <<>> ELSE Take(selected[k - 1], candidates[k])
  IN selected

SelectForBlock(pool) == {Selected(s)[Len(s)] : s \in Orders(pool)}

\* build_block: the roots are those of all it is given, the transactions those
\* up to the first that does not fit.
Pack(block, tx) ==
  IF block.full \/ ~WellFormed(tx) THEN block
  ELSE IF GasOf(block.txs) + tx.gas > MaxBlockGas THEN [block EXCEPT !.full = TRUE]
  ELSE [block EXCEPT !.txs = Append(@, tx)]

EmptyBlock == [txs |-> <<>>, full |-> FALSE]

Packed(txs) ==
  LET packed[k \in 0 .. Len(txs)] ==
        IF k = 0 THEN EmptyBlock ELSE Pack(packed[k - 1], txs[k])
  IN packed

BuildBlock(txs) == [rooted |-> txs, transactions |-> Packed(txs)[Len(txs)].txs]

---------------------------------------------------------------------------
\* Every block built from a selection holds the transactions its roots name
\* (block_builder.rs 44 and 64), and leaves out a transaction of the pool only
\* if the first of them pay as much and fill the block without it (pool.rs
\* 96-111).
BlocksAreGreedy(pool) ==
  \A s \in SelectForBlock(pool) :
    /\ BuildBlock(s).transactions = BuildBlock(s).rooted
    /\ \A tx \in pool : WellFormed(tx) /\ tx \notin ToSet(s) =>
         \E k \in 0 .. Len(s) :
           /\ \A j \in 1 .. k : s[j].fee >= tx.fee
           /\ k = MaxTxs \/ GasUpTo(s)[k] + tx.gas > MaxBlockGas
=============================================================================
