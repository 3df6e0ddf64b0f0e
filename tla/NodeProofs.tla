----------------------------- MODULE NodeProofs -----------------------------
(***************************************************************************)
(* Proofs about Node, for any nodes, transactions, bounds and chain from   *)
(* elsewhere.  Three facts carry them: proposals rise one above what their *)
(* validator has, which is sealed; apply_block fails on a conflict         *)
(* wherever in the block it is; and a block holds all of its selection,    *)
(* which AlgorithmsProofs shows.                                           *)
(***************************************************************************)
EXTENDS Node, AlgorithmsProofs

Sealed == Len(Provisioned)

\* The parts of the state these proofs need, with their types.
Shape ==
  /\ DOMAIN store = Nodes /\ DOMAIN pool = Nodes
  /\ restarts \in Nat
  /\ \A n \in Nodes : store[n].tip \in Int
  /\ \A b \in blocks : b.height \in Int

\* A validator only holds sealed blocks, so no block is higher than one above.
Heights ==
  /\ \A n \in Nodes : store[n].tip <= Sealed
  /\ \A v \in Validators : store[v].tip <= Sealed - 1
  /\ \A b \in blocks : b.height <= Sealed /\ (b.sealed => b.height <= Sealed - 1)

NodeInvariant == Shape /\ Heights

\* The chain from elsewhere has a length.
LEMMA SealedLength == Sealed \in Nat
  BY NodeAssumption DEF NodeAssumption, Sealed

\* Data directories hold blocks from elsewhere only, and not the last.
LEMMA NodeInitial == Init => NodeInvariant
<1> SUFFICES ASSUME Init PROVE NodeInvariant
  OBVIOUS
<1>1. \A n \in Nodes : \E k \in 0 .. Sealed - 1 : store[n] = StoreAfter[k]
  BY DEF Init, Sealed
<1>2. \A n \in Nodes : store[n].tip \in Int /\ store[n].tip <= Sealed - 2
  <2> TAKE n \in Nodes
  <2>1. PICK k \in 0 .. Sealed - 1 : store[n] = StoreAfter[k]
    BY <1>1
  <2>2. StoreAfter[k].tip = k - 1
    BY SealedLength, ChainAssumption DEF ChainAssumption, Sealed
  <2> QED
    BY <2>1, <2>2, SealedLength
<1>3. \A b \in blocks : b.height \in Int /\ b.height <= Sealed - 1
  <2> SUFFICES ASSUME NEW k \in 1 .. Sealed
               PROVE SealedBlock(k, StoreAfter[k - 1]).height \in Int
                     /\ SealedBlock(k, StoreAfter[k - 1]).height <= Sealed - 1
    BY DEF Init, SealedBlocks, Sealed
  <2> QED
    BY SealedLength DEF SealedBlock
<1>4. Validators \subseteq Nodes
  BY DEF Nodes
<1> QED
  BY <1>2, <1>3, <1>4, SealedLength DEF Init, NodeInvariant, Shape, Heights

\* Each step preserves the invariant; only Execute writes to a store.
LEMMA NodeStep == ASSUME NodeInvariant, [Next]_vars PROVE NodeInvariant'
<1> USE DEF NodeInvariant, Shape, Heights
<1>0. Validators \subseteq Nodes /\ Sealed \in Nat /\ Sealed' = Sealed
  BY SealedLength DEF Nodes, Sealed
<1>1. ASSUME NEW n \in Nodes, NEW t \in Txs, Submit(n, t) PROVE NodeInvariant'
  BY <1>1 DEF Submit, Insert, Sealed
<1>2. ASSUME NEW n \in Nodes, Propose(n) PROVE NodeInvariant'
  <2>1. PICK selected : blocks' = blocks \cup {Built(n, selected)}
    BY <1>2 DEF Propose
  <2>2. Built(n, selected).height = store[n].tip + 1 /\ Built(n, selected).sealed = FALSE
    BY DEF Built
  <2>3. n \in Validators /\ UNCHANGED <<store, pool, pending, restarts>>
    BY <1>2 DEF Propose
  <2> QED
    BY <1>0, <2>1, <2>2, <2>3
<1>3. ASSUME NEW n \in Nodes, NEW b \in blocks, Execute(n, b) PROVE NodeInvariant'
  <2>1. store' = [store EXCEPT ![n] = AppliedTo(store[n], b)] /\ blocks' = blocks /\ restarts' = restarts
    BY <1>3 DEF Execute
  <2>2. AppliedTo(store[n], b).tip \in {store[n].tip, b.height}
    BY DEF AppliedTo
  <2>3. n \in Validators => b.sealed
    BY <1>3 DEF Execute, Accepts
  <2>4. DOMAIN pool' = Nodes
    BY <1>3 DEF Execute
  <2>5. \A m \in Nodes : store'[m].tip \in Int /\ store'[m].tip <= Sealed
                         /\ (m \in Validators => store'[m].tip <= Sealed - 1)
    BY <1>0, <2>1, <2>2, <2>3
  <2> QED
    BY <1>0, <2>1, <2>4, <2>5
<1>4. ASSUME NEW n \in Nodes, Restart(n) PROVE NodeInvariant'
  BY <1>0, <1>4 DEF Restart
<1>5. CASE UNCHANGED vars
  BY <1>0, <1>5 DEF vars
<1> QED
  BY <1>1, <1>2, <1>3, <1>4, <1>5 DEF Next

\* The invariant of every behaviour.
THEOREM NodeInvariantHolds == Spec => []NodeInvariant
  BY NodeInitial, NodeStep, PTL DEF Spec

\* OneBlockAboveSealed: however many blocks validators build from their pools,
\* nobody's chain is more than one block above the sealed one (block_builder.rs
\* 88-95 against engine.rs 98-101).
THEOREM OneBlockAboveSealedHolds == Spec => []OneBlockAboveSealed
<1>1. NodeInvariant => OneBlockAboveSealed
  BY DEF NodeInvariant, Heights, OneBlockAboveSealed, Sealed
<1> QED
  BY <1>1, NodeInvariantHolds, PTL

\* EmptyStoreStays: no sequence of blocks gets an empty store its first one
\* (engine.rs 263 against state.rs 67-80).
THEOREM EmptyStoreStaysHolds == Spec => EmptyStoreStays
<1>1. ASSUME NodeInvariant, [Next]_vars
      PROVE \A n \in Nodes : store[n].tip = -1 => store'[n].tip = -1
  <2> USE DEF NodeInvariant, Shape
  <2> SUFFICES ASSUME NEW n \in Nodes, store[n].tip = -1 PROVE store'[n].tip = -1
    OBVIOUS
  <2>1. ASSUME NEW m \in Nodes, NEW b \in blocks, Execute(m, b) PROVE store'[n].tip = -1
    <3>1. store' = [store EXCEPT ![m] = AppliedTo(store[m], b)]
      BY <2>1 DEF Execute
    <3>2. CASE m = n
      <4>1. EngineHeight(n) = 1
        BY DEF EngineHeight
      <4>2. b.height >= 1
        BY <2>1, <3>2, <4>1 DEF Execute
      <4>3. b.height # store[n].tip + 1
        BY <1>1, <4>2
      <4>4. AppliedTo(store[n], b).tip = store[n].tip
        BY <4>3 DEF AppliedTo, Failed
      <4> QED
        BY <1>1, <3>1, <3>2, <4>4
    <3>3. CASE m # n
      BY <1>1, <3>1, <3>3
    <3> QED
      BY <3>2, <3>3
  <2>2. CASE ~\E m \in Nodes, b \in blocks : Execute(m, b)
    <3>1. store' = store
      BY <1>1, <2>2 DEF Next, Submit, Propose, Restart, vars
    <3> QED
      BY <3>1
  <2> QED
    BY <2>1, <2>2
<1> QED
  BY <1>1, NodeInvariantHolds, PTL DEF Spec, EmptyStoreStays

\* A block with a transaction whose note is known as spent is not applied.
LEMMA StaleBlockFails ==
  ASSUME NEW s, NEW b, NEW t \in ToSet(b.transactions), Nullifiers(t) \cap s.spent # {}
  PROVE Failed(s, b)
<1>1. PICK k \in DOMAIN b.transactions : t = b.transactions[k]
  BY DEF ToSet
<1>2. PICK m \in DOMAIN t.spends : t.spends[m] \in s.spent
  BY DEF Nullifiers, ToSet
<1>3. <<k, m>> \in Spends(b.transactions)
  BY <1>1 DEF Spends
<1>4. NullifierAt(b.transactions, <<k, m>>) \in s.spent
  BY <1>1, <1>2 DEF NullifierAt
<1>5. Conflicts(s, b.transactions) # {}
  BY <1>3, <1>4 DEF Conflicts
<1> QED
  BY <1>5 DEF Failed

\* StaleStaysPooled: only a restart rids a pool of a transaction whose note is
\* spent (pool.rs 117-124, engine.rs 226-249).
THEOREM StaleStaysPooledHolds == Spec => StaleStaysPooled
<1>1. ASSUME NodeInvariant, [Next]_vars, NEW n \in Nodes, NEW t \in pool[n],
             Nullifiers(t) \cap store[n].spent # {}
      PROVE t \in pool'[n] \/ Restarted(n)
  <2> USE <1>1 DEF NodeInvariant, Shape
  <2>1. ASSUME NEW m \in Nodes, NEW u \in Txs, Submit(m, u) PROVE t \in pool'[n]
    BY <2>1 DEF Submit, Insert
  <2>2. ASSUME NEW m \in Nodes, Propose(m) PROVE t \in pool'[n]
    BY <2>2 DEF Propose
  <2>3. ASSUME NEW m \in Nodes, NEW b \in blocks, Execute(m, b) PROVE t \in pool'[n]
    <3>1. CASE Cleans(m, b)
      <4>1. pool' = [pool EXCEPT ![m] = pool[m] \ ToSet(b.transactions)]
        BY <2>3, <3>1 DEF Execute
      <4>2. m = n => t \notin ToSet(b.transactions)
        BY <3>1, StaleBlockFails DEF Cleans
      <4> QED
        BY <4>1, <4>2
    <3>2. CASE ~Cleans(m, b)
      BY <2>3, <3>2 DEF Execute
    <3> QED
      BY <3>1, <3>2
  <2>4. ASSUME NEW m \in Nodes, Restart(m) PROVE t \in pool'[n] \/ Restarted(n)
    BY <2>4 DEF Restart, Restarted
  <2>5. CASE UNCHANGED vars
    BY <2>5 DEF vars
  <2> QED
    BY <2>1, <2>2, <2>3, <2>4, <2>5 DEF Next
<1>2. NodeInvariant /\ [Next]_vars =>
        \A n \in Nodes : \A t \in pool[n] :
          Nullifiers(t) \cap store[n].spent # {} => t \in pool'[n] \/ Restarted(n)
  BY <1>1
<1> QED
  BY <1>2, NodeInvariantHolds, PTL DEF Spec, StaleStaysPooled

---------------------------------------------------------------------------
\* A pool holds what was submitted, one by one.
PoolsFinite == \A n \in Nodes : pool[n] \subseteq Txs /\ IsFiniteSet(pool[n])

LEMMA PoolsFiniteHolds == Spec => []PoolsFinite
<1>1. Init => PoolsFinite
  BY FS_EmptySet DEF Init, PoolsFinite
<1>2. NodeInvariant /\ PoolsFinite /\ [Next]_vars => PoolsFinite'
  <2> SUFFICES ASSUME NodeInvariant, PoolsFinite, [Next]_vars, NEW n \in Nodes
               PROVE  pool'[n] \subseteq Txs /\ IsFiniteSet(pool'[n])
    BY DEF PoolsFinite
  <2>1. pool[n] \subseteq Txs /\ IsFiniteSet(pool[n]) /\ DOMAIN pool = Nodes
    BY DEF PoolsFinite, NodeInvariant, Shape
  <2>2. ASSUME NEW m \in Nodes, NEW t \in Txs, Submit(m, t)
        PROVE  pool'[n] \in {pool[n], pool[n] \cup {t}}
    BY <2>1, <2>2 DEF Submit, Insert
  <2>3. ASSUME NEW m \in Nodes, NEW b \in blocks, Execute(m, b)
        PROVE  pool'[n] \in {pool[n], pool[n] \ ToSet(b.transactions)}
    BY <2>1, <2>3 DEF Execute
  <2>4. ASSUME NEW m \in Nodes, Restart(m) PROVE pool'[n] \in {pool[n], {}}
    BY <2>1, <2>4 DEF Restart
  <2>5. ASSUME NEW m \in Nodes, Propose(m) PROVE pool'[n] = pool[n]
    BY <2>5 DEF Propose
  <2>6. CASE UNCHANGED vars
    BY <2>1, <2>6 DEF vars
  <2>7. ASSUME NEW t \in Txs PROVE IsFiniteSet(pool[n] \cup {t})
    BY <2>1, FS_AddElement
  <2>8. \A p \in SUBSET pool[n] : p \subseteq Txs /\ IsFiniteSet(p)
    BY <2>1, FS_Subset
  <2> QED
    BY <2>1, <2>2, <2>3, <2>4, <2>5, <2>6, <2>7, <2>8 DEF Next
<1> QED
  BY <1>1, <1>2, NodeInvariantHolds, PTL DEF Spec

\* ProposerPoisoned: what every selection takes is in every block built, a
\* block with a bad proof is accepted nowhere, and only accepted blocks take
\* transactions out of a pool (pool.rs 34-77 against engine.rs 119-135).
THEOREM ProposerPoisonedHolds == Spec => ProposerPoisoned
<1>1. ASSUME NodeInvariant, PoolsFinite, [Next]_vars, NEW v \in Validators, NEW t \in Poison(v)
      PROVE  t \in pool'[v] \/ Restarted(v)
  <2>1. /\ t \in pool[v] /\ ~t.proven /\ t.spends # <<>>
        /\ v \in Nodes /\ DOMAIN pool = Nodes /\ restarts \in Nat
    BY <1>1 DEF Poison, Nodes, NodeInvariant, Shape
  <2>2. ASSUME NEW m \in Nodes, NEW u \in Txs, Submit(m, u) PROVE t \in pool'[v]
    BY <2>1, <2>2 DEF Submit, Insert
  <2>3. ASSUME NEW m \in Nodes, Propose(m) PROVE t \in pool'[v]
    BY <2>1, <2>3 DEF Propose
  <2>4. ASSUME NEW m \in Nodes, NEW b \in blocks, Execute(m, b) PROVE t \in pool'[v]
    <3>1. t \notin ToSet(b.transactions)
      BY <2>1, <2>4 DEF Execute, Accepts, ToSet
    <3>2. pool' = pool \/ pool' = [pool EXCEPT ![m] = pool[m] \ ToSet(b.transactions)]
      BY <2>4 DEF Execute
    <3> QED
      BY <2>1, <3>1, <3>2
  <2>5. ASSUME NEW m \in Nodes, Restart(m) PROVE t \in pool'[v] \/ Restarted(v)
    BY <2>1, <2>5 DEF Restart, Restarted
  <2>6. CASE UNCHANGED vars
    BY <2>1, <2>6 DEF vars
  <2> QED
    BY <1>1, <2>2, <2>3, <2>4, <2>5, <2>6 DEF Next
<1>2. ASSUME NodeInvariant, PoolsFinite, [Next]_vars, NEW v \in Validators, Poison(v) # {},
             NEW b \in blocks' \ blocks, b.proposer = v, NEW n \in Nodes
      PROVE  ~Accepts(n, b)
  <2>1. PICK t : t \in Poison(v)
    BY <1>2
  <2>2. PICK m \in Nodes : Propose(m)
    BY <1>2 DEF Next, Submit, Execute, Restart, vars
  <2>3. PICK selected \in SelectForBlock(pool[m]) : b = Built(m, selected)
    BY <1>2, <2>2 DEF Propose, Candidates
  <2>4. m = v
    BY <1>2, <2>3 DEF Built
  <2>5. ~t.proven /\ t.spends # <<>> /\ t \in ToSet(selected)
    BY <2>1, <2>3, <2>4 DEF Poison
  <2>6. b.transactions = selected
    <3>1. IsFiniteSet(pool[m]) /\ \A u \in pool[m] : u.gas \in Nat
      BY <1>2, NodeAssumption DEF PoolsFinite
    <3>2. BuildBlock(selected).transactions = selected
      BY <2>3, <3>1, BuiltWhole
    <3> QED
      BY <2>3, <3>2 DEF Built
  <2> QED
    BY <2>5, <2>6 DEF Accepts, ToSet
<1>3. NodeInvariant /\ PoolsFinite /\ [Next]_vars =>
        \A v \in Validators : Poison(v) # {} =>
          /\ Poison(v) \subseteq pool'[v] \/ Restarted(v)
          /\ \A b \in blocks' \ blocks : b.proposer = v => \A n \in Nodes : ~Accepts(n, b)
  BY <1>1, <1>2
<1> QED
  BY <1>3, NodeInvariantHolds, PoolsFiniteHolds, PTL DEF Spec, ProposerPoisoned
=============================================================================
