----------------------------- MODULE MCMempool -----------------------------
(***************************************************************************)
(* Transactions that compete for notes, one that calls a contract and      *)
(* spends nothing, and one that insert refuses.                            *)
(***************************************************************************)
EXTENDS Mempool, TLC

CONSTANTS t1, t2, t3, t4, t5, n1, n2, n3, i1, i2

Spending == t1 :> <<n1, n2>> @@ t2 :> <<n2, n3>> @@ t3 :> <<n3>> @@ t4 :> <<>> @@ t5 :> <<n1>>

\* The callers of insert do the same thing.
CallerSymmetry == Permutations(Inserters)
=============================================================================
