-------------------------- MODULE StateStoreProofs --------------------------
(***************************************************************************)
(* What the order of the writes of apply_block and prune_history keeps for *)
(* every chain, every interleaving and any number of crashes.              *)
(***************************************************************************)
EXTENDS StateStore, TLAPS

---------------------------------------------------------------------------
\* What block ops are made of.
LEMMA OpsTyped ==
  ASSUME NEW s \in Seq(Ops), s # <<>>
  PROVE  /\ Tail(s) \in Seq(Ops)
         /\ Head(s)[1] = "spend" => Head(s)[2] \in Nullifiers
         /\ Head(s)[1] = "output" => Head(s)[2] \in Commitments
<1>1. Head(s) \in Ops /\ Tail(s) \in Seq(Ops)
  OBVIOUS
<1> QED
  BY <1>1 DEF Ops

LEMMA AppendLeafTyped ==
  ASSUME NEW t \in Trees, NEW c \in Commitments
  PROVE  AppendLeaf(t, c) \in Trees
BY DEF Trees, AppendLeaf

LEMMA AfterValues ==
  /\ After("frontier") = "size" /\ After("size") = "ops"
  /\ After("anchor") = "contracts" /\ After("contracts") = "body"
  /\ After("body") = "txs" /\ After("txs") = "height"
  /\ After("height") = "index" /\ After("index") = "idle"
BY Zenon DEF After

\* The invariant behind the theorems.  The first part is what readers see; the
\* rest is the position of apply_block and of prune_history.
StoreInv ==
  /\ TypeOK
  /\ \A h \in Heights :
       index[h] # NoBlock => h <= tip /\ BlockHeight[index[h]] = h /\ index[h] \in bodies
  /\ step \notin {"idle", "index"} => BlockHeight[applying] = tip + 1
  /\ step = "index" => BlockHeight[applying] = tip /\ index[tip] = NoBlock
  /\ step \in {"txs", "height", "index"} => applying \in bodies
  /\ victim # NoBlock => /\ BlockHeight[victim] < tip - KeepLast
                         /\ index[BlockHeight[victim]] = NoBlock
  /\ pruneEnd > 0 => pruneEnd <= tip - KeepLast
  /\ \A i \in DOMAIN applied :
       BlockHeight[applied[i]] >= tip - KeepLast => applied[i] \in bodies

LEMMA InitTyped == Init => TypeOK
BY StoreAssumption
   DEF Init, TypeOK, EmptyTree, Trees, Steps, Heights, Ops

LEMMA ApplyTyped == TypeOK /\ ApplyStep => TypeOK'
<1> SUFFICES ASSUME TypeOK, ApplyStep PROVE TypeOK'
  OBVIOUS
<1> USE DEF TypeOK, applyVars, chainVars, treeVars, pruneVars, counters, Steps
<1>1. CASE Spend
  <2>1. Arg \in Nullifiers /\ Tail(ops) \in Seq(Ops) /\ <<>> \in Seq(Ops)
    BY <1>1, OpsTyped DEF Spend, At, Arg
  <2>2. spent' \subseteq Nullifiers
    BY <1>1, <2>1 DEF Spend
  <2>3. ops' \in Seq(Ops)
    BY <1>1, <2>1 DEF Spend
  <2>4. step' \in Steps /\ applying' \in Blocks \cup {NoBlock} /\ (applying' = NoBlock <=> step' = "idle")
    BY <1>1 DEF Spend, GoTo, At
  <2>5. refused' \in Nat
    BY <1>1 DEF Spend
  <2> QED
    BY <1>1, <2>2, <2>3, <2>4, <2>5 DEF Spend
<1>2. CASE Output
  <2>1. AppendLeaf(tree, Arg) \in Trees /\ Arg \in Commitments /\ ops' \in Seq(Ops)
    BY <1>2, OpsTyped, AppendLeafTyped DEF Output, At, Arg
  <2>2. tree.size \in Nat
    BY DEF Trees
  <2> QED
    BY <1>2, <2>1, <2>2 DEF Output, At, GoTo
<1>3. CASE StoreFrontier
  BY AfterValues, <1>3 DEF StoreFrontier, Write, GoTo, Trees
<1>4. CASE StoreSize
  BY AfterValues, <1>4 DEF StoreSize, Write, GoTo, Trees
<1>5. CASE StoreAnchor
  BY AfterValues, <1>5 DEF StoreAnchor, GoTo, Root
<1>6. CASE StoreContracts
  BY AfterValues, <1>6 DEF StoreContracts, Write, GoTo
<1>7. CASE PutBody
  BY AfterValues, <1>7 DEF PutBody, Write, GoTo
<1>8. CASE PutTxs
  <2>1. applying \in Blocks
    BY <1>8 DEF PutTxs, Write
  <2>2. BlockTxs[applying] \subseteq AllTxs
    BY <2>1 DEF AllTxs
  <2> QED
    BY AfterValues, <1>8, <2>2 DEF PutTxs, Write, GoTo
<1>9. CASE PutHeight
  <2>1. applying \in Blocks /\ BlockHeight[applying] \in Heights
    BY <1>9, StoreAssumption DEF PutHeight, Write
  <2> QED
    BY AfterValues, <1>9, <2>1 DEF PutHeight, Write, GoTo
<1>10. CASE PutIndex
  <2>1. applying \in Blocks /\ BlockHeight[applying] \in Heights
    BY <1>10, StoreAssumption DEF PutIndex, Write
  <2> QED
    BY AfterValues, <1>10, <2>1 DEF PutIndex, Write, GoTo
<1> QED
  BY <1>1, <1>2, <1>3, <1>4, <1>5, <1>6, <1>7, <1>8, <1>9, <1>10 DEF ApplyStep

LEMMA StepTyped == TypeOK /\ [Next]_vars => TypeOK'
<1> SUFFICES ASSUME TypeOK, [Next]_vars PROVE TypeOK'
  OBVIOUS
<1> USE DEF TypeOK, applyVars, chainVars, treeVars, pruneVars, counters, Steps
<1>1. ASSUME NEW b \in Blocks, Begin(b) PROVE TypeOK'
  <2>1. BlockOps[b] \in Seq(Ops)
    BY StoreAssumption
  <2> QED
    BY <1>1, <2>1, StoreAssumption DEF Begin
<1>2. CASE ApplyStep
  BY <1>2, ApplyTyped
<1>3. CASE PruneBegin
  BY <1>3, StoreAssumption DEF PruneBegin, NotApply, Heights
<1>4. CASE PruneIndex
  <2>1. index[pruneNext] \in Blocks \cup {NoBlock}
    BY <1>4 DEF PruneIndex
  <2>2. pruneNext + 1 \in Heights
    BY <1>4, StoreAssumption DEF PruneIndex, Heights
  <2> QED
    BY <1>4, <2>1, <2>2 DEF PruneIndex, NotApply
<1>5. CASE PruneTxs
  BY <1>5 DEF PruneTxs, NotApply
<1>6. CASE PruneBody
  BY <1>6 DEF PruneBody, NotApply
<1>7. CASE Crash
  <2>1. tree' \in Trees /\ crashes' \in Nat
    BY <1>7 DEF Crash, Trees
  <2>2. /\ applying' = NoBlock /\ step' = "idle" /\ ops' \in Seq(Ops)
        /\ pruneNext' \in Heights /\ pruneEnd' \in Heights /\ victim' = NoBlock
    BY <1>7, StoreAssumption DEF Crash, Heights
  <2> QED
    BY <1>7, <2>1, <2>2 DEF Crash
<1>8. CASE UNCHANGED vars
  BY <1>8 DEF vars
<1> QED
  BY <1>1, <1>2, <1>3, <1>4, <1>5, <1>6, <1>7, <1>8 DEF Next

\* Every variable keeps its type (StateStore and NoteCommitmentTree).
THEOREM StoreTypeCorrect == Spec => []TypeOK
BY InitTyped, StepTyped, PTL DEF Spec

---------------------------------------------------------------------------
(* The index and the bodies.                                               *)

LEMMA InitStoreInv == Init => StoreInv
BY InitTyped, StoreAssumption DEF Init, StoreInv, Heights

\* The steps of apply_block that write neither the height, the index nor a body.
Inner ==
  \/ Spend \/ Output \/ StoreFrontier \/ StoreSize \/ StoreAnchor \/ StoreContracts
  \/ PutTxs

LEMMA InnerKeeps ==
  ASSUME TypeOK, Inner
  PROVE  /\ UNCHANGED <<chainVars, index, bodies, pruneVars>>
         /\ step' # "index" /\ step # "index" /\ step # "idle"
         /\ step' # "idle" => applying' = applying
         /\ step' \in {"txs", "height"} => step = "txs"
<1> USE DEF applyVars, pruneVars, counters
<1>1. CASE Spend
  BY <1>1 DEF Spend, At, GoTo
<1>2. CASE Output
  BY <1>2 DEF Output, At, GoTo
<1>3. CASE StoreFrontier
  BY <1>3, AfterValues DEF StoreFrontier, Write, GoTo
<1>4. CASE StoreSize
  BY <1>4, AfterValues DEF StoreSize, Write, GoTo
<1>5. CASE StoreAnchor
  BY <1>5, AfterValues DEF StoreAnchor, GoTo
<1>6. CASE StoreContracts
  BY <1>6, AfterValues DEF StoreContracts, Write, GoTo
<1>7. CASE PutTxs
  BY <1>7, AfterValues DEF PutTxs, Write, GoTo
<1> QED
  BY <1>1, <1>2, <1>3, <1>4, <1>5, <1>6, <1>7 DEF Inner

LEMMA ApplyKeepsStoreInv == StoreInv /\ ApplyStep => StoreInv'
<1> SUFFICES ASSUME StoreInv, ApplyStep PROVE StoreInv'
  OBVIOUS
<1>0. TypeOK /\ TypeOK' /\ (applying # NoBlock <=> step # "idle")
  BY ApplyTyped DEF StoreInv, TypeOK
<1>1. CASE Inner
  <2>1. /\ UNCHANGED <<chainVars, index, bodies, pruneVars>>
        /\ step' # "index" /\ step # "index" /\ step # "idle"
        /\ step' # "idle" => applying' = applying
        /\ step' \in {"txs", "height"} => step = "txs"
    BY <1>0, <1>1, InnerKeeps
  <2> QED
    BY <1>0, <2>1 DEF StoreInv, chainVars, pruneVars
<1>2. CASE PutBody
  <2>1. /\ step = "body" /\ step' = "txs" /\ applying' = applying
        /\ bodies' = bodies \cup {applying}
        /\ UNCHANGED <<chainVars, index, pruneVars>>
    BY <1>2, AfterValues DEF PutBody, Write, GoTo
  <2> QED
    BY <1>0, <2>1 DEF StoreInv, chainVars, pruneVars
<1>3. CASE PutHeight
  <2>1. /\ step = "height" /\ step' = "index" /\ applying' = applying
        /\ tip' = BlockHeight[applying] /\ applied' = Append(applied, applying)
        /\ UNCHANGED <<index, bodies, pruneVars>>
    BY <1>3, AfterValues DEF PutHeight, Write, GoTo
  <2>2. /\ applying \in Blocks /\ BlockHeight[applying] \in Heights
        /\ tip \in Int /\ tip' = tip + 1 /\ KeepLast \in Nat
    BY <1>0, <2>1, StoreAssumption DEF StoreInv, TypeOK, Heights
  <2>3. index[tip'] = NoBlock
    BY <2>1, <2>2 DEF StoreInv
  <2>4. ASSUME NEW i \in DOMAIN applied', BlockHeight[applied'[i]] >= tip' - KeepLast
        PROVE  applied'[i] \in bodies'
    <3>1. applied \in Seq(Blocks)
      BY <1>0 DEF TypeOK
    <3>2. CASE i = Len(applied) + 1
      BY <2>1, <2>2, <3>1, <3>2 DEF StoreInv
    <3>3. CASE i # Len(applied) + 1
      <4>1. i \in DOMAIN applied /\ applied'[i] = applied[i]
        BY <2>1, <2>2, <3>1, <3>3
      <4>2. BlockHeight[applied[i]] \in Int
        BY <3>1, <4>1, StoreAssumption DEF Heights
      <4> QED
        BY <2>1, <2>2, <2>4, <4>1, <4>2 DEF StoreInv
    <3> QED
      BY <3>2, <3>3
  <2>5. \A h \in Heights : index'[h] # NoBlock =>
          h <= tip' /\ BlockHeight[index'[h]] = h /\ index'[h] \in bodies'
    BY <2>1, <2>2 DEF StoreInv, Heights
  <2>6. victim' # NoBlock => /\ BlockHeight[victim'] < tip' - KeepLast
                             /\ index'[BlockHeight[victim']] = NoBlock
    <3>1. SUFFICES ASSUME victim # NoBlock
                   PROVE  BlockHeight[victim] < tip' - KeepLast
      BY <2>1 DEF StoreInv, pruneVars
    <3>2. victim \in Blocks /\ BlockHeight[victim] \in Int
      BY <1>0, <3>1, StoreAssumption DEF TypeOK, Heights
    <3> QED
      BY <2>2, <3>1, <3>2 DEF StoreInv
  <2>7. pruneEnd' > 0 => pruneEnd' <= tip' - KeepLast
    BY <1>0, <2>1, <2>2 DEF StoreInv, pruneVars, TypeOK, Heights
  <2> QED
    BY <1>0, <2>1, <2>2, <2>3, <2>4, <2>5, <2>6, <2>7 DEF StoreInv
<1>4. CASE PutIndex
  <2>1. /\ step = "index" /\ step' = "idle"
        /\ index' = [index EXCEPT ![BlockHeight[applying]] = applying]
        /\ UNCHANGED <<chainVars, bodies, pruneVars>>
    BY <1>4, AfterValues DEF PutIndex, Write, GoTo
  <2>2. /\ applying \in Blocks /\ BlockHeight[applying] = tip /\ tip \in Heights
        /\ applying \in bodies /\ KeepLast \in Nat
    BY <1>0, <2>1, StoreAssumption DEF StoreInv, TypeOK, Heights
  <2>3. \A h \in Heights : index'[h] # NoBlock =>
          h <= tip' /\ BlockHeight[index'[h]] = h /\ index'[h] \in bodies'
    BY <1>0, <2>1, <2>2 DEF StoreInv, TypeOK, Heights, chainVars
  <2>4. victim # NoBlock => index'[BlockHeight[victim]] = NoBlock
    <3>1. SUFFICES ASSUME victim # NoBlock PROVE index'[BlockHeight[victim]] = NoBlock
      OBVIOUS
    <3>2. victim \in Blocks /\ BlockHeight[victim] \in Heights
      BY <1>0, <3>1, StoreAssumption DEF TypeOK
    <3>3. BlockHeight[victim] # tip
      BY <2>2, <3>1, <3>2 DEF StoreInv, Heights
    <3> QED
      BY <1>0, <2>1, <2>2, <3>1, <3>2, <3>3 DEF StoreInv, TypeOK
  <2> QED
    BY <1>0, <2>1, <2>3, <2>4 DEF StoreInv, chainVars, pruneVars
<1> QED
  BY <1>1, <1>2, <1>3, <1>4 DEF ApplyStep, Inner

LEMMA StepKeepsStoreInv == StoreInv /\ [Next]_vars => StoreInv'
<1> SUFFICES ASSUME StoreInv, [Next]_vars PROVE StoreInv'
  OBVIOUS
<1>0. /\ TypeOK /\ TypeOK' /\ KeepLast \in Nat /\ tip \in Int
      /\ \A b \in Blocks : BlockHeight[b] \in Heights
  <2>1. TypeOK /\ TypeOK'
    BY StepTyped DEF StoreInv
  <2>2. tip \in Int
    BY <2>1, StoreAssumption DEF TypeOK, Heights
  <2>3. \A b \in Blocks : BlockHeight[b] \in Heights
    BY StoreAssumption
  <2> QED
    BY <2>1, <2>2, <2>3, StoreAssumption
<1>1. ASSUME NEW b \in Blocks, Begin(b) PROVE StoreInv'
  BY <1>0, <1>1 DEF Begin, ExpectedHeight, StoreInv, chainVars, pruneVars
<1>2. CASE ApplyStep
  BY <1>2, ApplyKeepsStoreInv
<1>3. CASE PruneBegin
  BY <1>0, <1>3 DEF PruneBegin, NotApply, StoreInv, chainVars, applyVars
<1>4. CASE PruneIndex
  <2>1. /\ UNCHANGED <<chainVars, applyVars, bodies, pruneEnd>>
        /\ victim' = index[pruneNext]
        /\ index' = [index EXCEPT ![pruneNext] = NoBlock]
        /\ pruneNext \in Heights /\ pruneNext < pruneEnd /\ pruneEnd \in Nat
    BY <1>0, <1>4 DEF PruneIndex, NotApply, TypeOK, Heights
  <2>2. pruneNext < tip - KeepLast
    BY <1>0, <2>1 DEF StoreInv, Heights
  <2>3. \A h \in Heights : index'[h] = index[h] \/ index'[h] = NoBlock
    BY <1>0, <2>1 DEF TypeOK
  <2>4. victim' # NoBlock => /\ BlockHeight[victim'] < tip' - KeepLast
                             /\ index'[BlockHeight[victim']] = NoBlock
    BY <1>0, <2>1, <2>2 DEF StoreInv, chainVars, TypeOK
  <2>5. \A h \in Heights : index'[h] # NoBlock =>
          h <= tip' /\ BlockHeight[index'[h]] = h /\ index'[h] \in bodies'
    BY <2>1, <2>3 DEF StoreInv, chainVars
  <2>6. step = "index" => tip \in Heights
    BY <1>0 DEF StoreInv, TypeOK
  <2> QED
    BY <1>0, <2>1, <2>3, <2>4, <2>5, <2>6 DEF StoreInv, chainVars, applyVars
<1>5. CASE PruneTxs
  BY <1>0, <1>5 DEF PruneTxs, NotApply, StoreInv, chainVars, applyVars, pruneVars
<1>6. CASE PruneBody
  <2>1. /\ UNCHANGED <<chainVars, applyVars, index, pruneEnd>>
        /\ victim \in Blocks /\ victim' = NoBlock /\ bodies' = bodies \ {victim}
    BY <1>0, <1>6 DEF PruneBody, NotApply, TypeOK
  <2>2. BlockHeight[victim] \in Int /\ BlockHeight[victim] < tip - KeepLast
    <3>1. victim # NoBlock
      BY <1>6 DEF PruneBody
    <3> QED
      BY <1>0, <2>1, <3>1 DEF StoreInv, Heights
  <2>3. \A h \in Heights : index[h] # NoBlock => index[h] # victim
    BY <1>0, <1>6 DEF StoreInv, PruneBody
  <2>4. step \in {"txs", "height", "index"} => applying # victim
    BY <1>0, <2>2 DEF StoreInv
  <2> QED
    BY <1>0, <2>1, <2>2, <2>3, <2>4 DEF StoreInv, chainVars, applyVars
<1>7. CASE Crash
  BY <1>0, <1>7 DEF Crash, StoreInv, chainVars
<1>8. CASE UNCHANGED vars
  BY <1>0, <1>8 DEF vars, StoreInv, chainVars, applyVars, pruneVars
<1> QED
  BY <1>1, <1>2, <1>3, <1>4, <1>5, <1>6, <1>7, <1>8 DEF Next

LEMMA StoreInvHolds == Spec => []StoreInv
BY InitStoreInv, StepKeepsStoreInv, PTL DEF Spec

\* What get_block_by_height finds is stored and has that height, beside the
\* pruning task and after any crash.
THEOREM IndexNeverDanglingHolds == Spec => []IndexNeverDangling
<1>1. StoreInv => IndexNeverDangling
  BY DEF StoreInv, IndexNeverDangling
<1> QED
  BY <1>1, StoreInvHolds, PTL

\* Pruning never deletes one of the last KeepLast + 1 blocks of the chain.
THEOREM RecentBlocksStoredHolds == Spec => []RecentBlocksStored
<1>1. StoreInv => RecentBlocksStored
  BY DEF StoreInv, RecentBlocksStored
<1> QED
  BY <1>1, StoreInvHolds, PTL

---------------------------------------------------------------------------
(* The index is a Ledger: PutHeight extends it, PutIndex records the block, *)
(* PruneIndex forgets a height, and every other step leaves it alone.      *)

LEMMA StepIsLedgerStep == StoreInv /\ [Next]_vars => [L!Next]_(L!vars)
<1> SUFFICES ASSUME StoreInv, [Next]_vars PROVE L!Next \/ UNCHANGED <<tip, index>>
  BY DEF L!vars
<1>0. TypeOK
  BY DEF StoreInv
<1>1. ASSUME NEW b \in Blocks, Begin(b) PROVE UNCHANGED <<tip, index>>
  BY <1>1 DEF Begin, chainVars
<1>2. CASE Inner
  BY <1>0, <1>2, InnerKeeps DEF chainVars
<1>3. CASE PutBody
  BY <1>3 DEF PutBody, chainVars
<1>4. CASE PutHeight
  <2>1. step = "height" /\ tip' = BlockHeight[applying] /\ UNCHANGED index
    BY <1>4 DEF PutHeight, Write
  <2>2. L!Extend
    BY <2>1 DEF StoreInv, L!Extend
  <2> QED
    BY <2>2 DEF L!Next
<1>5. CASE PutIndex
  <2>1. /\ step = "index" /\ UNCHANGED tip
        /\ index' = [index EXCEPT ![BlockHeight[applying]] = applying]
    BY <1>5 DEF PutIndex, Write, chainVars
  <2>2. applying \in Blocks /\ BlockHeight[applying] = tip /\ index[tip] = NoBlock
    BY <1>0, <2>1 DEF StoreInv, TypeOK
  <2>3. tip \in Heights
    BY <2>2, StoreAssumption
  <2>4. L!Record(applying)
    BY <2>1, <2>2, <2>3 DEF L!Record
  <2> QED
    BY <2>2, <2>4 DEF L!Next
<1>6. CASE PruneBegin
  BY <1>6 DEF PruneBegin, NotApply, chainVars
<1>7. CASE PruneIndex
  <2>1. /\ UNCHANGED tip /\ index' = [index EXCEPT ![pruneNext] = NoBlock]
        /\ pruneNext \in Heights /\ pruneEnd \in Nat /\ pruneNext < pruneEnd
    BY <1>0, <1>7 DEF PruneIndex, NotApply, chainVars, TypeOK, Heights
  <2>2. tip \in Int /\ KeepLast \in Nat
    BY <1>0, StoreAssumption DEF TypeOK, Heights
  <2>3. pruneNext < tip
    BY <2>1, <2>2 DEF StoreInv, Heights
  <2>4. L!Forget(pruneNext)
    BY <2>1, <2>3 DEF L!Forget
  <2> QED
    BY <2>1, <2>4 DEF L!Next
<1>8. CASE PruneTxs
  BY <1>8 DEF PruneTxs, NotApply, chainVars
<1>9. CASE PruneBody
  BY <1>9 DEF PruneBody, NotApply, chainVars
<1>10. CASE Crash
  BY <1>10 DEF Crash, chainVars
<1>11. CASE UNCHANGED vars
  BY <1>11 DEF vars, chainVars
<1> QED
  BY <1>1, <1>2, <1>3, <1>4, <1>5, <1>6, <1>7, <1>8, <1>9, <1>10, <1>11
     DEF Next, ApplyStep, Inner

\* The store's block index implements the abstract Ledger: the height rises by
\* one at a time and no height is ever given a second block.
THEOREM StoreImplementsLedger == Spec => LedgerSpec
<1>1. Init => L!Init
  BY DEF Init, L!Init
<1> QED
  BY <1>1, StepIsLedgerStep, StoreInvHolds, PTL DEF Spec, LedgerSpec, L!Spec
---------------------------------------------------------------------------
(* The transactions.                                                       *)

LEMMA InnerKeepsTxs == ASSUME Inner, ~PutTxs PROVE UNCHANGED <<txs, bodies>>
BY DEF Inner, Spend, Output, StoreFrontier, StoreSize, StoreAnchor, StoreContracts

LEMMA StepKeepsTxs ==
  ASSUME StoreInv, TxsHaveBlock, [Next]_vars PROVE TxsHaveBlock'
<1> USE DEF TxsHaveBlock
<1>1. ASSUME NEW b \in Blocks, Begin(b) PROVE TxsHaveBlock'
  BY <1>1 DEF Begin
<1>2. CASE PutTxs
  <2>1. applying \in bodies
    BY <1>2 DEF PutTxs, Write, StoreInv
  <2> QED
    BY <1>2, <2>1 DEF PutTxs
<1>3. CASE Inner /\ ~PutTxs
  BY <1>3, InnerKeepsTxs
<1>4. CASE PutBody \/ PutHeight \/ PutIndex
  BY <1>4 DEF PutBody, PutHeight, PutIndex
<1>5. CASE PruneBegin \/ PruneIndex
  BY <1>5 DEF PruneBegin, PruneIndex
<1>6. CASE PruneTxs
  BY <1>6 DEF PruneTxs
<1>7. CASE PruneBody
  <2>1. txs' = txs /\ bodies' = bodies \ {victim}
        /\ (victim \in bodies => txs \cap BlockTxs[victim] = {})
    BY <1>7 DEF PruneBody
  <2>2. ASSUME NEW t \in txs PROVE t \in UNION {BlockTxs[b] : b \in bodies'}
    <3>1. PICK b \in bodies : t \in BlockTxs[b]
      OBVIOUS
    <3>2. b # victim
      BY <2>1, <3>1
    <3> QED
      BY <2>1, <3>1, <3>2
  <2> QED
    BY <2>1, <2>2
<1>8. CASE Crash
  BY <1>8 DEF Crash
<1>9. CASE UNCHANGED vars
  BY <1>9 DEF vars
<1> QED
  BY <1>1, <1>2, <1>3, <1>4, <1>5, <1>6, <1>7, <1>8, <1>9 DEF Next, ApplyStep, Inner

\* A transaction that get_transaction finds is of a stored block: a body is
\* stored before its transactions and deleted after them, wherever a crash falls.
THEOREM TxsHaveBlockHolds == Spec => []TxsHaveBlock
<1>1. Init => TxsHaveBlock
  BY DEF Init, TxsHaveBlock
<1> QED
  BY <1>1, StoreInvHolds, StepKeepsTxs, PTL DEF Spec

---------------------------------------------------------------------------
(* Nullifiers.                                                             *)

\* The operations of its block that apply_block has done.
Done == Len(BlockOps[applying]) - Len(ops)
DoneSpends == {k \in Spends(applying) : k <= Done}

\* What the chain has spent is in the store, and so is what the running block has
\* spent so far, which was in neither before.
ChainSpent ==
  \A i \in DOMAIN applied : \A k \in Spends(applied[i]) : BlockOps[applied[i]][k][2] \in spent
Remaining ==
  /\ Len(ops) <= Len(BlockOps[applying])
  /\ \A k \in 1 .. Len(ops) : ops[k] = BlockOps[applying][Done + k]
DoneSpent ==
  /\ \A k \in DoneSpends : BlockOps[applying][k][2] \in spent
  /\ \A k, m \in DoneSpends : BlockOps[applying][k] = BlockOps[applying][m] => k = m
  /\ \A k \in DoneSpends : \A i \in DOMAIN applied : \A m \in Spends(applied[i]) :
       BlockOps[applied[i]][m] # BlockOps[applying][k]
SpendInv ==
  /\ ChainSpent /\ SpentOnce
  /\ step \notin {"idle", "index"} => Remaining /\ DoneSpent
  /\ step \in {"contracts", "body", "txs", "height"} => ops = <<>>

LEMMA SpendInitial == Init => SpendInv
BY DEF Init, SpendInv, ChainSpent, SpentOnce

\* A step that leaves the chain, the nullifiers and what is left of the block.
LEMMA SpendsAlone ==
  ASSUME SpendInv, UNCHANGED <<spent, applied>>,
         step' \notin {"idle", "index"} =>
           /\ step \notin {"idle", "index"} /\ UNCHANGED <<applying, ops>>,
         step' \in {"contracts", "body", "txs", "height"} => ops = <<>>
  PROVE  SpendInv'
<1>1. ChainSpent' /\ SpentOnce'
  BY DEF SpendInv, ChainSpent, SpentOnce
<1>2. ASSUME step' \notin {"idle", "index"} PROVE Remaining' /\ DoneSpent'
  <2>1. Done' = Done /\ DoneSpends' = DoneSpends /\ applying' = applying /\ ops' = ops
    BY <1>2 DEF Done, DoneSpends
  <2>2. Remaining /\ DoneSpent
    BY <1>2 DEF SpendInv
  <2> QED
    BY <2>1, <2>2 DEF Remaining, DoneSpent
<1> QED
  BY <1>1, <1>2 DEF SpendInv

\* The operation the loop is at.
LEMMA AtHead ==
  ASSUME TypeOK, SpendInv, step = "ops", ops # <<>>
  PROVE  /\ applying \in Blocks /\ BlockOps[applying] \in Seq(Ops) /\ Done \in Nat
         /\ Done + 1 \in DOMAIN BlockOps[applying] /\ BlockOps[applying][Done + 1] = Head(ops)
         /\ Head(ops) \in Ops /\ Head(ops) = <<Head(ops)[1], Head(ops)[2]>>
         /\ Len(Tail(ops)) = Len(ops) - 1 /\ Len(ops) \in Nat
         /\ \A k \in 1 .. Len(Tail(ops)) : Tail(ops)[k] = BlockOps[applying][Done + 1 + k]
         /\ Len(ops) <= Len(BlockOps[applying])
<1>1. applying \in Blocks /\ BlockOps[applying] \in Seq(Ops) /\ ops \in Seq(Ops)
  BY StoreAssumption DEF TypeOK
<1>2. Remaining
  BY DEF SpendInv
<1>3. /\ Len(ops) \in Nat \ {0} /\ Len(BlockOps[applying]) \in Nat
      /\ Len(Tail(ops)) = Len(ops) - 1 /\ Head(ops) = ops[1]
      /\ \A k \in 1 .. Len(Tail(ops)) : Tail(ops)[k] = ops[k + 1]
  BY <1>1
<1>4. Head(ops) \in Ops
  BY <1>1
<1>5. Head(ops) = <<Head(ops)[1], Head(ops)[2]>>
  BY <1>4 DEF Ops
<1>6. Done \in Nat /\ Done + 1 \in 1 .. Len(BlockOps[applying])
  BY <1>2, <1>3 DEF Remaining, Done
<1>7. BlockOps[applying][Done + 1] = Head(ops)
  BY <1>2, <1>3 DEF Remaining
<1>8. ASSUME NEW k \in 1 .. Len(Tail(ops)) PROVE Tail(ops)[k] = BlockOps[applying][Done + 1 + k]
  <2>1. k + 1 \in 1 .. Len(ops) /\ Tail(ops)[k] = ops[k + 1]
    BY <1>3
  <2>2. Done + (k + 1) = Done + 1 + k
    BY <1>6
  <2> QED
    BY <1>2, <2>1, <2>2 DEF Remaining
<1> QED
  BY <1>1, <1>2, <1>3, <1>4, <1>5, <1>6, <1>7, <1>8 DEF Remaining

\* One operation further in the loop.
LEMMA LoopMoves ==
  ASSUME TypeOK, SpendInv, step = "ops", ops # <<>>, ops' = Tail(ops), applying' = applying
  PROVE  /\ Remaining' /\ Done' = Done + 1
         /\ DoneSpends' = DoneSpends \cup (IF Head(ops)[1] = "spend" THEN {Done + 1} ELSE {})
<1>1. Done' = Done + 1
  BY AtHead DEF Done
<1>2. Remaining'
  BY <1>1, AtHead DEF Remaining
<1>3. Spends(applying)' = Spends(applying)
  BY DEF Spends
<1>4. \A k \in Spends(applying) : k \in Nat /\ BlockOps[applying][k][1] = "spend"
  BY AtHead DEF Spends
<1>5. Done + 1 \in Spends(applying) <=> Head(ops)[1] = "spend"
  BY AtHead DEF Spends
<1>6. \A k \in Spends(applying) : k <= Done + 1 <=> k <= Done \/ k = Done + 1
  BY <1>4, AtHead
<1> QED
  BY <1>1, <1>2, <1>3, <1>5, <1>6, AtHead DEF DoneSpends

LEMMA SpendKeepsSpends == ASSUME TypeOK, SpendInv, Spend PROVE SpendInv'
<1>0. step = "ops" /\ ops # <<>> /\ Head(ops)[1] = "spend" /\ UNCHANGED applied
  BY DEF Spend, At, chainVars
<1>1. CASE Arg \in spent
  <2>1. step' = "idle" /\ UNCHANGED spent
    BY <1>1 DEF Spend, GoTo
  <2> QED
    BY <1>0, <2>1, SpendsAlone
<1>2. CASE Arg \notin spent
  <2>0. spent' = spent \cup {Arg} /\ ops' = Tail(ops) /\ applying' = applying /\ step' = step
    BY <1>2 DEF Spend
  <2>1. Remaining' /\ DoneSpends' = DoneSpends \cup {Done + 1}
    BY <1>0, <2>0, LoopMoves
  <2>2. BlockOps[applying][Done + 1][2] = Arg
    BY <1>0, AtHead DEF Arg
  <2>3. ChainSpent' /\ SpentOnce'
    BY <1>0, <2>0 DEF SpendInv, ChainSpent, SpentOnce
  <2>4. ChainSpent /\ DoneSpent
    BY <1>0 DEF SpendInv
  <2>5. \A k \in DoneSpends : BlockOps[applying][k] # BlockOps[applying][Done + 1]
    BY <1>2, <2>2, <2>4 DEF DoneSpent
  <2>6. \A i \in DOMAIN applied : \A m \in Spends(applied[i]) :
          BlockOps[applied[i]][m] # BlockOps[applying][Done + 1]
    BY <1>2, <2>2, <2>4 DEF ChainSpent
  <2>7. /\ \A k \in DoneSpends' : BlockOps[applying][k][2] \in spent'
        /\ \A k, m \in DoneSpends' : BlockOps[applying][k] = BlockOps[applying][m] => k = m
        /\ \A k \in DoneSpends' : \A i \in DOMAIN applied : \A m \in Spends(applied[i]) :
             BlockOps[applied[i]][m] # BlockOps[applying][k]
    <3>1. \A k \in DoneSpends' : BlockOps[applying][k][2] \in spent'
      BY <2>0, <2>1, <2>2, <2>4 DEF DoneSpent
    <3>2. \A k, m \in DoneSpends' : BlockOps[applying][k] = BlockOps[applying][m] => k = m
      BY <2>1, <2>4, <2>5 DEF DoneSpent
    <3>3. \A k \in DoneSpends' : \A i \in DOMAIN applied : \A m \in Spends(applied[i]) :
             BlockOps[applied[i]][m] # BlockOps[applying][k]
      BY <2>1, <2>4, <2>6 DEF DoneSpent
    <3> QED
      BY <3>1, <3>2, <3>3
  <2>8. DoneSpent'
    BY <1>0, <2>0, <2>7 DEF DoneSpent
  <2> QED
    BY <1>0, <2>0, <2>1, <2>3, <2>8 DEF SpendInv
<1> QED
  BY <1>1, <1>2

LEMMA OutputKeepsSpends == ASSUME TypeOK, SpendInv, Output PROVE SpendInv'
<1>0. /\ step = "ops" /\ ops # <<>> /\ Head(ops)[1] = "output" /\ UNCHANGED <<applied, spent>>
      /\ ops' = Tail(ops) /\ applying' = applying /\ step' = "frontier"
  BY DEF Output, At, GoTo, chainVars
<1>1. Remaining' /\ DoneSpends' = DoneSpends
  BY <1>0, LoopMoves
<1>2. ChainSpent' /\ SpentOnce'
  BY <1>0 DEF SpendInv, ChainSpent, SpentOnce
<1>3. DoneSpent
  BY <1>0 DEF SpendInv
<1>4. DoneSpent'
  BY <1>0, <1>1, <1>3 DEF DoneSpent
<1> QED
  BY <1>0, <1>1, <1>2, <1>4 DEF SpendInv

\* The block joins the chain: all its operations are done.
LEMMA HeightKeepsSpends == ASSUME TypeOK, SpendInv, PutHeight PROVE SpendInv'
<1>0. /\ step = "height" /\ step' = "index" /\ applied' = Append(applied, applying)
      /\ UNCHANGED spent /\ applying \in Blocks /\ applied \in Seq(Blocks)
  BY AfterValues DEF PutHeight, Write, GoTo, TypeOK
<1>1. ops = <<>> /\ DoneSpent /\ ChainSpent /\ SpentOnce
  BY <1>0 DEF SpendInv
<1>2. DoneSpends = Spends(applying)
  <2>1. BlockOps[applying] \in Seq(Ops)
    BY <1>0, StoreAssumption
  <2>2. Done = Len(BlockOps[applying])
    BY <1>1, <2>1 DEF Done
  <2> QED
    BY <2>1, <2>2 DEF DoneSpends, Spends
<1>3. /\ \A k \in Spends(applying) : BlockOps[applying][k][2] \in spent
      /\ \A k, m \in Spends(applying) : BlockOps[applying][k] = BlockOps[applying][m] => k = m
      /\ \A k \in Spends(applying) : \A i \in DOMAIN applied : \A m \in Spends(applied[i]) :
           BlockOps[applied[i]][m] # BlockOps[applying][k]
  BY <1>1, <1>2 DEF DoneSpent
<1>4. \A i \in DOMAIN applied' :
        \/ i = Len(applied) + 1 /\ applied'[i] = applying
        \/ i \in DOMAIN applied /\ i # Len(applied) + 1 /\ applied'[i] = applied[i]
  BY <1>0
<1>5. ChainSpent'
  <2> SUFFICES ASSUME NEW i \in DOMAIN applied', NEW k \in Spends(applied'[i])
               PROVE  BlockOps[applied'[i]][k][2] \in spent'
    BY DEF ChainSpent, Spends
  <2> QED
    BY <1>0, <1>1, <1>3, <1>4 DEF ChainSpent
<1>6. SpentOnce'
  <2> SUFFICES ASSUME NEW i \in DOMAIN applied', NEW j \in DOMAIN applied',
                      NEW k \in Spends(applied'[i]), NEW m \in Spends(applied'[j]),
                      BlockOps[applied'[i]][k] = BlockOps[applied'[j]][m]
               PROVE  i = j /\ k = m
    BY DEF SpentOnce, Spends
  <2>1. CASE applied'[i] = applying /\ i = Len(applied) + 1
    BY <1>3, <1>4, <2>1
  <2>2. CASE i \in DOMAIN applied /\ applied'[i] = applied[i] /\ i # Len(applied) + 1
    <3>1. CASE j = Len(applied) + 1 /\ applied'[j] = applying
      BY <1>3, <2>2, <3>1
    <3>2. CASE j \in DOMAIN applied /\ applied'[j] = applied[j]
      BY <1>1, <2>2, <3>2 DEF SpentOnce
    <3> QED
      BY <1>4, <3>1, <3>2
  <2> QED
    BY <1>4, <2>1, <2>2
<1> QED
  BY <1>0, <1>5, <1>6 DEF SpendInv

LEMMA StepKeepsSpends == ASSUME TypeOK, SpendInv, [Next]_vars PROVE SpendInv'
<1> USE DEF chainVars, applyVars, counters, pruneVars
<1>1. ASSUME NEW b \in Blocks, Begin(b) PROVE SpendInv'
  <2>0. /\ step' = "ops" /\ applying' = b /\ ops' = BlockOps[b] /\ UNCHANGED <<spent, applied>>
        /\ BlockOps[b] \in Seq(Ops)
    BY <1>1, StoreAssumption DEF Begin
  <2>1. ChainSpent' /\ SpentOnce'
    BY <2>0 DEF SpendInv, ChainSpent, SpentOnce
  <2>2. Done' = 0
    BY <2>0 DEF Done
  <2>3. Remaining'
    BY <2>0, <2>2 DEF Remaining
  <2>4. DoneSpends' = {}
    <3>1. \A k \in Spends(b) : k > 0
      BY <2>0 DEF Spends
    <3> QED
      BY <2>0, <2>2, <3>1 DEF DoneSpends, Spends
  <2>5. DoneSpent'
    BY <2>4 DEF DoneSpent
  <2> QED
    BY <2>0, <2>1, <2>3, <2>5 DEF SpendInv
<1>2. CASE StoreFrontier \/ StoreSize
  <2>1. step \in {"frontier", "size"} /\ step' \in {"size", "ops"}
        /\ UNCHANGED <<spent, applied, applying, ops>>
    BY <1>2, AfterValues DEF StoreFrontier, StoreSize, Write, GoTo
  <2> QED
    BY <2>1, SpendsAlone
<1>3. CASE StoreAnchor
  <2>1. step = "ops" /\ step' = "contracts" /\ ops = <<>> /\ UNCHANGED <<spent, applied, applying, ops>>
    BY <1>3, AfterValues DEF StoreAnchor, GoTo
  <2> QED
    BY <2>1, SpendsAlone
<1>4. CASE StoreContracts \/ PutBody \/ PutTxs
  <2>1. step \in {"contracts", "body", "txs"} /\ step' \in {"body", "txs", "height"}
        /\ UNCHANGED <<spent, applied, applying, ops>>
    BY <1>4, AfterValues DEF StoreContracts, PutBody, PutTxs, Write, GoTo
  <2>2. ops = <<>>
    BY <2>1 DEF SpendInv
  <2> QED
    BY <2>1, <2>2, SpendsAlone
<1>5. CASE PutIndex
  <2>1. step' = "idle" /\ UNCHANGED <<spent, applied>>
    BY <1>5, AfterValues DEF PutIndex, Write, GoTo
  <2> QED
    BY <2>1, SpendsAlone
<1>6. CASE PruneBegin \/ PruneIndex \/ PruneTxs \/ PruneBody \/ UNCHANGED vars
  <2>1. UNCHANGED <<spent, applied, applying, ops, step>>
    BY <1>6 DEF PruneBegin, PruneIndex, PruneTxs, PruneBody, NotApply, vars
  <2>2. step \in {"contracts", "body", "txs", "height"} => ops = <<>>
    BY DEF SpendInv
  <2> QED
    BY <2>1, <2>2, SpendsAlone
<1>7. CASE Crash
  <2>1. step' = "idle" /\ UNCHANGED <<spent, applied>>
    BY <1>7 DEF Crash
  <2> QED
    BY <2>1, SpendsAlone
<1> QED
  BY <1>1, <1>2, <1>3, <1>4, <1>5, <1>6, <1>7, SpendKeepsSpends, OutputKeepsSpends,
     HeightKeepsSpends DEF Next, ApplyStep

\* No nullifier is spent twice by the chain: a block reaches the height only when
\* each of its spends was unknown when it was reached.
THEOREM SpentOnceHolds == Spec => []SpentOnce
<1>1. SpendInv => SpentOnce
  BY DEF SpendInv
<1> QED
  BY <1>1, SpendInitial, StepKeepsSpends, StoreTypeCorrect, PTL DEF Spec
---------------------------------------------------------------------------
(* The tree.                                                               *)

\* The leaves the tree in memory counts are stored, and never fewer than the
\* stored size says; until a crash the two trees differ only between the writes
\* of one append.
TreeInv ==
  /\ size <= tree.size
  /\ \A i \in 0 .. tree.size - 1 : \E l \in leaves : l[1] = i
  /\ crashes = 0 =>
       /\ Len(tree.frontier) = tree.size
       /\ leaves = {<<i - 1, tree.frontier[i]>> : i \in 1 .. tree.size}
       /\ step # "frontier" => frontier = tree.frontier
       /\ step \notin {"frontier", "size"} => size = tree.size

LEMMA TreeInitial == Init => TreeInv
BY DEF Init, TreeInv, EmptyTree

LEMMA TreeAlone ==
  ASSUME TreeInv, UNCHANGED <<treeVars, crashes>>,
         step' = step \/ step \notin {"frontier", "size"}
  PROVE  TreeInv'
BY DEF TreeInv, treeVars

\* One more leaf folded in.
LEMMA LeavesOfOneMore ==
  ASSUME NEW f, NEW n \in Nat
  PROVE  {<<i - 1, f[i]>> : i \in 1 .. n + 1} = {<<i - 1, f[i]>> : i \in 1 .. n} \cup {<<n, f[n + 1]>>}
<1>1. 1 .. n + 1 = (1 .. n) \cup {n + 1} /\ n + 1 - 1 = n
  OBVIOUS
<1> DEFINE P(i) == <<i - 1, f[i]>>
<1>2. P(n + 1) = <<n, f[n + 1]>>
  BY <1>1
<1> HIDE DEF P
<1>3. {P(i) : i \in 1 .. n + 1} = {P(i) : i \in 1 .. n} \cup {P(n + 1)}
  BY <1>1
<1> QED
  BY <1>2, <1>3 DEF P

LEMMA OutputKeepsTree == ASSUME TypeOK, TreeInv, Output PROVE TreeInv'
<1>0. /\ leaves' = {l \in leaves : l[1] # tree.size} \cup {<<tree.size, Arg>>}
      /\ tree' = [frontier |-> Append(tree.frontier, Arg), size |-> tree.size + 1]
      /\ step = "ops" /\ step' = "frontier" /\ UNCHANGED <<frontier, size, crashes>>
  BY DEF Output, At, GoTo, AppendLeaf, counters
<1>1. /\ tree.size \in Nat /\ tree.frontier \in Seq(Commitments) /\ size \in Nat
      /\ Arg \in Commitments
  BY OpsTyped DEF TypeOK, Trees, Output, At, Arg
<1>2. \A i \in 0 .. tree'.size - 1 : \E l \in leaves' : l[1] = i
  <2> TAKE i \in 0 .. tree'.size - 1
  <2>1. CASE i = tree.size
    <3>1. <<tree.size, Arg>> \in leaves' /\ <<tree.size, Arg>>[1] = i
      BY <1>0, <2>1
    <3> QED
      BY <3>1
  <2>2. CASE i # tree.size
    <3>1. i \in 0 .. tree.size - 1
      BY <1>0, <1>1, <2>2
    <3>2. PICK l \in leaves : l[1] = i
      BY <3>1 DEF TreeInv
    <3> QED
      BY <1>0, <2>2, <3>2
  <2> QED
    BY <2>1, <2>2
<1>3. ASSUME crashes = 0
      PROVE /\ Len(tree'.frontier) = tree'.size
            /\ leaves' = {<<i - 1, tree'.frontier[i]>> : i \in 1 .. tree'.size}
  <2>1. Len(tree.frontier) = tree.size /\ leaves = {<<i - 1, tree.frontier[i]>> : i \in 1 .. tree.size}
    BY <1>3 DEF TreeInv
  <2>2. /\ Len(tree'.frontier) = tree'.size /\ tree'.frontier[tree.size + 1] = Arg
        /\ \A i \in 1 .. tree.size : tree'.frontier[i] = tree.frontier[i]
    BY <1>0, <1>1, <2>1
  <2>3. {l \in leaves : l[1] # tree.size} = leaves
    BY <1>1, <2>1
  <2>4. {<<i - 1, tree'.frontier[i]>> : i \in 1 .. tree'.size}
          = {<<i - 1, tree'.frontier[i]>> : i \in 1 .. tree.size} \cup {<<tree.size, Arg>>}
    <3>1. {<<i - 1, tree'.frontier[i]>> : i \in 1 .. tree.size + 1}
            = {<<i - 1, tree'.frontier[i]>> : i \in 1 .. tree.size}
                \cup {<<tree.size, tree'.frontier[tree.size + 1]>>}
      BY <1>1, LeavesOfOneMore
    <3> QED
      BY <1>0, <2>2, <3>1
  <2>5. {<<i - 1, tree'.frontier[i]>> : i \in 1 .. tree.size} = leaves
    BY <2>1, <2>2
  <2> QED
    BY <1>0, <2>2, <2>3, <2>4, <2>5
<1>4. size' <= tree'.size
  BY <1>0, <1>1 DEF TreeInv
<1>5. crashes' = crashes /\ step' = "frontier"
  BY <1>0
<1> QED
  BY <1>2, <1>3, <1>4, <1>5 DEF TreeInv

LEMMA StepKeepsTree == ASSUME TypeOK, TreeInv, [Next]_vars PROVE TreeInv'
<1> USE DEF chainVars, applyVars, counters, pruneVars
<1>0. size \in Nat /\ tree.size \in Nat /\ tree.frontier \in Seq(Commitments)
  BY DEF TypeOK, Trees
<1>1. ASSUME NEW b \in Blocks, Begin(b) PROVE TreeInv'
  BY <1>1, TreeAlone DEF Begin
<1>2. CASE Spend
  BY <1>2, TreeAlone DEF Spend, At
<1>3. CASE StoreFrontier
  <2>1. step = "frontier" /\ step' = "size" /\ frontier' = tree.frontier
        /\ UNCHANGED <<leaves, size, tree, crashes>>
    BY <1>3, AfterValues DEF StoreFrontier, Write, GoTo
  <2> QED
    BY <2>1 DEF TreeInv
<1>4. CASE StoreSize
  <2>1. step = "size" /\ step' = "ops" /\ size' = tree.size
        /\ UNCHANGED <<leaves, frontier, tree, crashes>>
    BY <1>4, AfterValues DEF StoreSize, Write, GoTo
  <2> QED
    BY <1>0, <2>1 DEF TreeInv
<1>5. CASE StoreAnchor
  BY <1>5, TreeAlone DEF StoreAnchor
<1>6. CASE StoreContracts \/ PutBody \/ PutTxs \/ PutHeight \/ PutIndex
  BY <1>6, TreeAlone DEF StoreContracts, PutBody, PutTxs, PutHeight, PutIndex, Write
<1>7. CASE PruneBegin \/ PruneIndex \/ PruneTxs \/ PruneBody \/ UNCHANGED vars
  BY <1>7, TreeAlone DEF PruneBegin, PruneIndex, PruneTxs, PruneBody, NotApply, vars
<1>8. CASE Crash
  <2>1. /\ tree' = [frontier |-> frontier, size |-> size] /\ crashes' = crashes + 1
        /\ UNCHANGED <<leaves, size>> /\ crashes \in Nat
    BY <1>8 DEF Crash, TypeOK
  <2>2. \A i \in 0 .. size - 1 : \E l \in leaves : l[1] = i
    BY <1>0 DEF TreeInv
  <2> QED
    BY <1>0, <2>1, <2>2 DEF TreeInv
<1> QED
  BY <1>1, <1>2, <1>3, <1>4, <1>5, <1>6, <1>7, <1>8, OutputKeepsTree DEF Next, ApplyStep

\* Every leaf the stored tree counts is stored, after any crash, and until one the
\* stored tree is the tree in memory between two appends.
THEOREM TreeMatchesStoreHolds == Spec => []TreeMatchesStore
<1>1. TypeOK /\ TreeInv => TreeMatchesStore
  <2> SUFFICES ASSUME TypeOK, TreeInv PROVE TreeMatchesStore
    OBVIOUS
  <2>1. size \in Nat /\ tree.size \in Nat /\ size <= tree.size
    BY DEF TypeOK, Trees, TreeInv
  <2>2. \A i \in 0 .. size - 1 : \E l \in leaves : l[1] = i
    BY <2>1 DEF TreeInv
  <2>3. ASSUME crashes = 0, step \notin {"frontier", "size"}
        PROVE  /\ frontier = tree.frontier /\ size = tree.size
               /\ leaves = {<<i - 1, frontier[i]>> : i \in 1 .. size}
    BY <2>3 DEF TreeInv
  <2> QED
    BY <2>2, <2>3 DEF TreeMatchesStore
<1> QED
  BY <1>1, TreeInitial, StepKeepsTree, StoreTypeCorrect, PTL DEF Spec
=============================================================================
