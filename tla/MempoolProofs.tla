--------------------------- MODULE MempoolProofs ---------------------------
(***************************************************************************)
(* Proofs about Mempool, for any transactions, callers and size.           *)
(***************************************************************************)
EXTENDS Mempool, FiniteSetTheorems, TLAPS

\* The callers inside insert.
Active == {i \in Inserters : pc[i] # "idle"}

\* The spends inserter i has seen free, and those it has reserved, when it is in
\* the loop that does so or past it.
SeenFree(i) ==
  IF pc[i] \in {"store", "pool"} THEN {SpendsOf[job[i]][k] : k \in 1 .. at[i] - 1}
  ELSE IF pc[i] \in {"reserve", "put"} THEN Spends(job[i])
  ELSE {}
HasReserved(i) ==
  IF pc[i] = "reserve" THEN {SpendsOf[job[i]][k] : k \in 1 .. at[i] - 1}
  ELSE IF pc[i] = "put" THEN Spends(job[i])
  ELSE {}

\* What the consensus task has yet to do: it frees only what is spent or about
\* to be, and a transaction before its spends.
Removal ==
  /\ \A n \in Nullifiers : <<"spend", n>> \in removing => n \in spent \cup writing
  /\ \A t \in Txs : <<"tx", t>> \in removing => \A n \in Spends(t) : <<"spend", n>> \in removing

\* What an inserter reserved stays reserved until it is spent.
Kept == \A i \in Inserters : \A n \in HasReserved(i) \ spent : pending[n] # NoTx

\* Callers at work on different transactions with a common note have raced.
ActiveRaced ==
  \A i, j \in Inserters :
    /\ job[i] # NoTx /\ job[j] # NoTx /\ job[i] # job[j]
    /\ Spends(job[i]) \cap Spends(job[j]) # {}
    => {job[i], job[j]} \in raced

\* An inserter that did not race with a pooled transaction has not got past an
\* unspent note of it.
LateStopped ==
  \A i \in Inserters, t \in txs :
    job[i] \notin {t, NoTx} /\ {t, job[i]} \notin raced =>
      SeenFree(i) \cap Spends(t) \subseteq spent

\* A reservation has an owner: in the pool, on its way, or being cleaned up.
Owned ==
  \A n \in Nullifiers :
    pending[n] # NoTx =>
      /\ n \in Spends(pending[n])
      /\ \/ pending[n] \in txs
         \/ \E i \in Inserters : job[i] = pending[n] /\ pc[i] \in {"reserve", "put"}
         \/ <<"spend", n>> \in removing

\* Only what passed the first checks gets past them.
Screened ==
  \A i \in Inserters : pc[i] \in {"store", "pool", "reserve", "put"} => job[i] \in Acceptable

PoolInvariant ==
  /\ TypeOK /\ Screened /\ Removal
  /\ UnspentReserved /\ Kept /\ ActiveRaced /\ LateStopped /\ DoubleSpendsRaced

---------------------------------------------------------------------------
(* Types.                                                                  *)

LEMMA SpendsAreNullifiers ==
  ASSUME NEW t \in Txs
  PROVE /\ Spends(t) \subseteq Nullifiers /\ Len(SpendsOf[t]) \in Nat
        /\ DOMAIN SpendsOf[t] = 1 .. Len(SpendsOf[t])
  BY MempoolAssumption DEF MempoolAssumption, Spends

LEMMA TypeInitial == Init => TypeOK
  BY MempoolAssumption DEF Init, TypeOK, Locations, MempoolAssumption

\* A step of inserter i leaves the others where they are.
Others(i) ==
  \A j \in Inserters \ {i} : job'[j] = job[j] /\ pc'[j] = pc[j] /\ at'[j] = at[j]

LEMMA GotoMoves ==
  ASSUME TypeOK, NEW i \in Inserters, NEW l \in Locations, NEW k \in Nat, Goto(i, l, k)
  PROVE /\ pc'[i] = l /\ at'[i] = k
        /\ \A j \in Inserters \ {i} : pc'[j] = pc[j] /\ at'[j] = at[j]
        /\ pc' \in [Inserters -> Locations] /\ at' \in [Inserters -> Nat]
  BY DEF Goto, TypeOK

\* Where inserter i goes, with the same transaction or with none.
Moves(i, l, k) ==
  /\ pc' \in [Inserters -> Locations] /\ at' \in [Inserters -> Nat]
  /\ Others(i) /\ job' = job /\ pc'[i] = l /\ at'[i] = k
Leaves(i) ==
  /\ pc' \in [Inserters -> Locations] /\ at' \in [Inserters -> Nat]
  /\ job' \in [Inserters -> Txs \cup {NoTx}]
  /\ Others(i) /\ job'[i] = NoTx /\ pc'[i] = "idle"

LEMMA ReturnLeaves ==
  ASSUME TypeOK, NEW i \in Inserters, Return(i) PROVE Leaves(i)
<1>1. Goto(i, "idle", 1) /\ job' = [job EXCEPT ![i] = NoTx]
  BY DEF Return
<1>2. "idle" \in Locations
  BY DEF Locations
<1>3. job' \in [Inserters -> Txs \cup {NoTx}] /\ job'[i] = NoTx
      /\ \A j \in Inserters \ {i} : job'[j] = job[j]
  BY <1>1 DEF TypeOK
<1> QED
  BY <1>1, <1>2, <1>3, GotoMoves DEF Leaves, Others

LEMMA GotoIsMove ==
  ASSUME TypeOK, NEW i \in Inserters, NEW l \in Locations, NEW k \in Nat, Goto(i, l, k), job' = job
  PROVE Moves(i, l, k)
  BY GotoMoves DEF Moves, Others

\* Each step of an inserter that keeps its transaction, and where it leads.
LEMMA CheckKnownMoves ==
  ASSUME TypeOK, NEW i \in Inserters, CheckKnown(i)
  PROVE \/ Leaves(i)
        \/ job[i] \in Acceptable /\ 1 \in DOMAIN SpendsOf[job[i]] /\ Moves(i, "store", 1)
        \/ job[i] \in Acceptable /\ Spends(job[i]) = {} /\ Moves(i, "put", 1)
<1>1. CASE Return(i)
  BY <1>1, ReturnLeaves
<1>2. CASE ~Return(i)
  <2>1. job[i] \in Acceptable /\ Loop(i, "store", 1, "put") /\ job' = job
    BY <1>2 DEF CheckKnown
  <2>2. job[i] \in Txs
    BY <2>1, MempoolAssumption DEF MempoolAssumption
  <2>3. CASE 1 <= Len(SpendsOf[job[i]])
    <3>1. Goto(i, "store", 1)
      BY <2>1, <2>3 DEF Loop
    <3> QED
      BY <2>1, <2>2, <2>3, <3>1, GotoIsMove, SpendsAreNullifiers DEF Locations
  <2>4. CASE ~(1 <= Len(SpendsOf[job[i]]))
    <3>1. Goto(i, "put", 1)
      BY <2>1, <2>4 DEF Loop
    <3>2. Spends(job[i]) = {}
      BY <2>2, <2>4, SpendsAreNullifiers DEF Spends
    <3> QED
      BY <2>1, <3>1, <3>2, GotoIsMove DEF Locations
  <2> QED
    BY <2>3, <2>4
<1> QED
  BY <1>1, <1>2

LEMMA CheckStoreMoves ==
  ASSUME TypeOK, NEW i \in Inserters, CheckStore(i)
  PROVE Leaves(i) \/ Moves(i, "pool", at[i])
<1>1. at[i] \in Nat
  BY DEF TypeOK
<1> QED
  BY <1>1, ReturnLeaves, GotoIsMove DEF CheckStore, Locations

\* The transaction of an inserter in a loop, and the spend it looks at.
LEMMA InLoop ==
  ASSUME TypeOK, NEW i \in Inserters, pc[i] \in {"store", "pool", "reserve"}
  PROVE /\ job[i] \in Txs /\ at[i] \in 1 .. Len(SpendsOf[job[i]]) /\ Len(SpendsOf[job[i]]) \in Nat
        /\ Nullifier(i) \in Spends(job[i]) /\ Nullifier(i) \in Nullifiers
<1>1. job[i] \in Txs
  BY DEF TypeOK
<1>2. at[i] \in DOMAIN SpendsOf[job[i]]
  BY DEF TypeOK
<1> QED
  BY <1>1, <1>2, SpendsAreNullifiers DEF Nullifier, Spends

LEMMA CheckPoolMoves ==
  ASSUME TypeOK, NEW i \in Inserters, CheckPool(i)
  PROVE \/ Leaves(i)
        \/ /\ pending[Nullifier(i)] = NoTx
           /\ \/ at[i] < Len(SpendsOf[job[i]]) /\ Moves(i, "store", at[i] + 1)
              \/ at[i] = Len(SpendsOf[job[i]]) /\ Moves(i, "reserve", 1)
<1>0. pc[i] = "pool"
  BY DEF CheckPool
<1>1. at[i] \in 1 .. Len(SpendsOf[job[i]]) /\ Len(SpendsOf[job[i]]) \in Nat
  BY <1>0, InLoop
<1>2. CASE pending[Nullifier(i)] # NoTx
  BY <1>2, ReturnLeaves DEF CheckPool
<1>3. CASE pending[Nullifier(i)] = NoTx
  <2>1. Loop(i, "store", at[i] + 1, "reserve") /\ job' = job
    BY <1>3 DEF CheckPool
  <2>2. CASE at[i] + 1 <= Len(SpendsOf[job[i]])
    <3>1. Goto(i, "store", at[i] + 1)
      BY <2>1, <2>2 DEF Loop
    <3> QED
      BY <1>1, <1>3, <2>1, <2>2, <3>1, GotoIsMove DEF Locations
  <2>3. CASE ~(at[i] + 1 <= Len(SpendsOf[job[i]]))
    <3>1. Goto(i, "reserve", 1)
      BY <2>1, <2>3 DEF Loop
    <3> QED
      BY <1>1, <1>3, <2>1, <2>3, <3>1, GotoIsMove DEF Locations
  <2> QED
    BY <2>2, <2>3
<1> QED
  BY <1>2, <1>3

LEMMA ReserveMoves ==
  ASSUME TypeOK, NEW i \in Inserters, Reserve(i)
  PROVE \/ at[i] < Len(SpendsOf[job[i]]) /\ Moves(i, "reserve", at[i] + 1)
        \/ at[i] = Len(SpendsOf[job[i]]) /\ Moves(i, "put", 1)
<1>0. pc[i] = "reserve" /\ Loop(i, "reserve", at[i] + 1, "put") /\ job' = job
  BY DEF Reserve
<1>1. at[i] \in 1 .. Len(SpendsOf[job[i]]) /\ Len(SpendsOf[job[i]]) \in Nat
  BY <1>0, InLoop
<1>2. CASE at[i] + 1 <= Len(SpendsOf[job[i]])
  <2>1. Goto(i, "reserve", at[i] + 1)
    BY <1>0, <1>2 DEF Loop
  <2> QED
    BY <1>0, <1>1, <1>2, <2>1, GotoIsMove DEF Locations
<1>3. CASE ~(at[i] + 1 <= Len(SpendsOf[job[i]]))
  <2>1. Goto(i, "put", 1)
    BY <1>0, <1>3 DEF Loop
  <2> QED
    BY <1>0, <1>1, <1>3, <2>1, GotoIsMove DEF Locations
<1> QED
  BY <1>2, <1>3

\* What TypeOK and Screened say of the callers.
CallersTyped ==
  /\ job \in [Inserters -> Txs \cup {NoTx}] /\ pc \in [Inserters -> Locations]
  /\ at \in [Inserters -> Nat]
  /\ \A i \in Inserters :
       /\ job[i] = NoTx <=> pc[i] = "idle"
       /\ pc[i] \in {"store", "pool", "reserve"} => at[i] \in DOMAIN SpendsOf[job[i]]
       /\ pc[i] \in {"store", "pool", "reserve", "put"} => job[i] \in Acceptable

LEMMA LeavesTyped ==
  ASSUME TypeOK, Screened, NEW i \in Inserters, Leaves(i) PROVE CallersTyped'
  BY DEF TypeOK, Screened, Leaves, Others, CallersTyped

LEMMA MovesTyped ==
  ASSUME TypeOK, Screened, NEW i \in Inserters, NEW l \in {"store", "pool", "reserve", "put"},
         NEW k, Moves(i, l, k), job[i] \in Acceptable,
         l # "put" => k \in DOMAIN SpendsOf[job[i]]
  PROVE CallersTyped'
<1>1. job[i] # NoTx
  BY MempoolAssumption DEF MempoolAssumption
<1> QED
  BY <1>1 DEF TypeOK, Screened, Moves, Others, CallersTyped

\* TypeOK is inductive once it is known who is screened.
LEMMA TypeStep == ASSUME TypeOK, Screened, [Next]_vars PROVE TypeOK' /\ Screened'
<1>1. ASSUME CallersTyped', txs' \subseteq Acceptable, pending' \in [Nullifiers -> Txs \cup {NoTx}],
             spent' \subseteq Nullifiers, writing' \subseteq Nullifiers, raced' \subseteq SUBSET Txs,
             removing' \subseteq ({"tx"} \X Txs) \cup ({"spend"} \X Nullifiers)
      PROVE TypeOK' /\ Screened'
  BY <1>1 DEF CallersTyped, TypeOK, Screened
<1>2. ASSUME UNCHANGED <<job, pc, at>> PROVE CallersTyped'
  BY <1>2 DEF CallersTyped, TypeOK, Screened
<1>3. ASSUME NEW i \in Inserters, NEW t \in Txs, Enter(i, t) PROVE TypeOK' /\ Screened'
  <2>1. job' = [job EXCEPT ![i] = t] /\ Goto(i, "known", 1) /\ raced' = raced \cup Racing(t)
    BY <1>3 DEF Enter
  <2>2. t # NoTx
    BY MempoolAssumption DEF MempoolAssumption
  <2>3. "known" \in Locations
    BY DEF Locations
  <2>4. CallersTyped'
    BY <2>1, <2>2, <2>3, GotoMoves DEF CallersTyped, TypeOK, Screened
  <2>5. Racing(t) \subseteq SUBSET Txs
    BY DEF Racing, TypeOK
  <2> QED
    BY <1>1, <1>3, <2>1, <2>4, <2>5 DEF Enter, TypeOK, consensusVars
<1>4. ASSUME NEW i \in Inserters, CheckKnown(i) PROVE TypeOK' /\ Screened'
  <2>1. CallersTyped'
    BY <1>4, CheckKnownMoves, LeavesTyped, MovesTyped
  <2> QED
    BY <1>1, <1>4, <2>1 DEF CheckKnown, TypeOK, consensusVars
<1>5. ASSUME NEW i \in Inserters, CheckStore(i) PROVE TypeOK' /\ Screened'
  <2>1. pc[i] = "store"
    BY <1>5 DEF CheckStore
  <2>2. at[i] \in DOMAIN SpendsOf[job[i]] /\ job[i] \in Acceptable
    BY <2>1 DEF TypeOK, Screened
  <2>3. CallersTyped'
    BY <1>5, <2>2, CheckStoreMoves, LeavesTyped, MovesTyped
  <2> QED
    BY <1>1, <1>5, <2>3 DEF CheckStore, TypeOK, consensusVars
<1>6. ASSUME NEW i \in Inserters, CheckPool(i) PROVE TypeOK' /\ Screened'
  <2>1. pc[i] = "pool"
    BY <1>6 DEF CheckPool
  <2>2. /\ at[i] \in 1 .. Len(SpendsOf[job[i]]) /\ Len(SpendsOf[job[i]]) \in Nat
        /\ DOMAIN SpendsOf[job[i]] = 1 .. Len(SpendsOf[job[i]]) /\ job[i] \in Acceptable
    BY <2>1, InLoop, SpendsAreNullifiers DEF Screened
  <2>3. /\ 1 \in DOMAIN SpendsOf[job[i]]
        /\ at[i] < Len(SpendsOf[job[i]]) => at[i] + 1 \in DOMAIN SpendsOf[job[i]]
    BY <2>2
  <2>4. CallersTyped'
    BY <1>6, <2>2, <2>3, CheckPoolMoves, LeavesTyped, MovesTyped
  <2> QED
    BY <1>1, <1>6, <2>4 DEF CheckPool, TypeOK, consensusVars
<1>7. ASSUME NEW i \in Inserters, Reserve(i) PROVE TypeOK' /\ Screened'
  <2>1. pc[i] = "reserve" /\ pending' = [pending EXCEPT ![Nullifier(i)] = job[i]]
    BY <1>7 DEF Reserve
  <2>2. /\ at[i] \in 1 .. Len(SpendsOf[job[i]]) /\ Len(SpendsOf[job[i]]) \in Nat
        /\ DOMAIN SpendsOf[job[i]] = 1 .. Len(SpendsOf[job[i]]) /\ job[i] \in Acceptable
        /\ job[i] \in Txs
    BY <2>1, InLoop, SpendsAreNullifiers DEF Screened
  <2>3. at[i] < Len(SpendsOf[job[i]]) => at[i] + 1 \in DOMAIN SpendsOf[job[i]]
    BY <2>2
  <2>4. CallersTyped'
    BY <1>7, <2>2, <2>3, ReserveMoves, MovesTyped
  <2>5. pending' \in [Nullifiers -> Txs \cup {NoTx}]
    BY <2>1, <2>2 DEF TypeOK
  <2> QED
    BY <1>1, <1>7, <2>4, <2>5 DEF Reserve, TypeOK, consensusVars
<1>8. ASSUME NEW i \in Inserters, Put(i) PROVE TypeOK' /\ Screened'
  <2>1. job[i] \in Acceptable
    BY <1>8 DEF Put, Screened
  <2>2. CallersTyped'
    BY <1>8, ReturnLeaves, LeavesTyped DEF Put
  <2> QED
    BY <1>1, <1>8, <2>1, <2>2 DEF Put, TypeOK, consensusVars
<1>9. ASSUME NEW b \in SUBSET Txs, ApplyBlock(b) PROVE TypeOK' /\ Screened'
  <2>1. UNION {Spends(t) : t \in b} \subseteq Nullifiers
    BY SpendsAreNullifiers
  <2>2. Entries(b) \subseteq ({"tx"} \X Txs) \cup ({"spend"} \X Nullifiers)
    BY <2>1 DEF Entries
  <2> QED
    BY <1>1, <1>2, <1>9, <2>1, <2>2 DEF ApplyBlock, TypeOK, inserterVars
<1>10. ASSUME NEW n \in writing, WriteNullifier(n) PROVE TypeOK' /\ Screened'
  BY <1>1, <1>2, <1>10 DEF WriteNullifier, TypeOK, inserterVars
<1>11. ASSUME NEW e \in removing, RemoveMined(e) PROVE TypeOK' /\ Screened'
  <2>1. pending' \in [Nullifiers -> Txs \cup {NoTx}]
    BY <1>11 DEF RemoveMined, TypeOK
  <2>2. txs' \subseteq Acceptable
    BY <1>11 DEF RemoveMined, TypeOK
  <2> QED
    BY <1>1, <1>2, <1>11, <2>1, <2>2 DEF RemoveMined, TypeOK, inserterVars
<1>12. CASE UNCHANGED vars
  BY <1>1, <1>2, <1>12 DEF vars, inserterVars, consensusVars, TypeOK
<1> QED
  BY <1>3, <1>4, <1>5, <1>6, <1>7, <1>8, <1>9, <1>10, <1>11, <1>12
  DEF Next, InsertStep, ConsensusStep

\* TypeOK: the maps and the callers keep their types, and only acceptable
\* transactions are pooled.
THEOREM PoolTypeCorrect == Spec => []TypeOK
<1>1. Init => TypeOK /\ Screened
  BY TypeInitial DEF Init, Screened
<1>2. (TypeOK /\ Screened) /\ [Next]_vars => (TypeOK /\ Screened)'
  BY TypeStep
<1> QED
  BY <1>1, <1>2, PTL DEF Spec

---------------------------------------------------------------------------
(* What inserters have seen and reserved, step by step.                    *)

LEMMA OthersStay ==
  ASSUME NEW i \in Inserters, Others(i), NEW j \in Inserters \ {i}
  PROVE SeenFree(j)' = SeenFree(j) /\ HasReserved(j)' = HasReserved(j)
  BY DEF Others, SeenFree, HasReserved

LEMMA LeavesForgets ==
  ASSUME NEW i \in Inserters, Leaves(i) PROVE SeenFree(i)' = {} /\ HasReserved(i)' = {}
  BY DEF Leaves, SeenFree, HasReserved

LEMMA SeenAreSpends ==
  ASSUME TypeOK, NEW i \in Inserters PROVE SeenFree(i) \subseteq Spends(job[i])
<1>1. CASE pc[i] \in {"store", "pool"}
  <2>1. at[i] \in 1 .. Len(SpendsOf[job[i]]) /\ Len(SpendsOf[job[i]]) \in Nat /\ job[i] \in Txs
    BY <1>1, InLoop
  <2>2. \A k \in 1 .. at[i] - 1 : k \in DOMAIN SpendsOf[job[i]]
    BY <2>1, SpendsAreNullifiers
  <2> QED
    BY <1>1, <2>2 DEF SeenFree, Spends
<1>2. CASE pc[i] \notin {"store", "pool"}
  BY <1>2 DEF SeenFree
<1> QED
  BY <1>1, <1>2

\* A loop that goes one further has looked at one more spend.
LEMMA OneFurther ==
  ASSUME NEW t \in Txs, NEW k \in 1 .. Len(SpendsOf[t])
  PROVE /\ {SpendsOf[t][j] : j \in 1 .. (k + 1) - 1} = {SpendsOf[t][j] : j \in 1 .. k - 1} \cup {SpendsOf[t][k]}
        /\ k = Len(SpendsOf[t]) => Spends(t) = {SpendsOf[t][j] : j \in 1 .. k - 1} \cup {SpendsOf[t][k]}
<1>1. Len(SpendsOf[t]) \in Nat /\ DOMAIN SpendsOf[t] = 1 .. Len(SpendsOf[t])
  BY SpendsAreNullifiers
<1>2. 1 .. (k + 1) - 1 = (1 .. k - 1) \cup {k}
  BY <1>1
<1> QED
  BY <1>1, <1>2 DEF Spends

LEMMA CheckKnownSees ==
  ASSUME TypeOK, NEW i \in Inserters, CheckKnown(i)
  PROVE Others(i) /\ SeenFree(i)' = {} /\ HasReserved(i)' = {}
<1>1. CASE Leaves(i)
  BY <1>1, LeavesForgets DEF Leaves
<1>2. CASE Moves(i, "store", 1)
  BY <1>2 DEF Moves, SeenFree, HasReserved
<1>3. CASE Spends(job[i]) = {} /\ Moves(i, "put", 1)
  BY <1>3 DEF Moves, SeenFree, HasReserved
<1> QED
  BY <1>1, <1>2, <1>3, CheckKnownMoves

LEMMA CheckStoreSees ==
  ASSUME TypeOK, NEW i \in Inserters, CheckStore(i)
  PROVE Others(i) /\ SeenFree(i)' \subseteq SeenFree(i) /\ HasReserved(i)' = {}
<1>1. CASE Leaves(i)
  BY <1>1, LeavesForgets DEF Leaves
<1>2. CASE Moves(i, "pool", at[i])
  BY <1>2 DEF CheckStore, Moves, SeenFree, HasReserved
<1> QED
  BY <1>1, <1>2, CheckStoreMoves

LEMMA CheckPoolSees ==
  ASSUME TypeOK, NEW i \in Inserters, CheckPool(i)
  PROVE /\ Others(i) /\ HasReserved(i)' = {}
        /\ \/ SeenFree(i)' = {}
           \/ /\ pending[Nullifier(i)] = NoTx /\ job' = job
              /\ SeenFree(i)' = SeenFree(i) \cup {Nullifier(i)}
<1>0. pc[i] = "pool"
  BY DEF CheckPool
<1>1. job[i] \in Txs /\ at[i] \in 1 .. Len(SpendsOf[job[i]]) /\ Len(SpendsOf[job[i]]) \in Nat
  BY <1>0, InLoop
<1>2. CASE Leaves(i)
  BY <1>2, LeavesForgets DEF Leaves
<1>3. CASE pending[Nullifier(i)] = NoTx /\ Moves(i, "store", at[i] + 1)
  <2>1. SeenFree(i)' = {SpendsOf[job[i]][k] : k \in 1 .. (at[i] + 1) - 1}
    BY <1>3 DEF Moves, SeenFree
  <2>2. SeenFree(i) = {SpendsOf[job[i]][k] : k \in 1 .. at[i] - 1}
    BY <1>0 DEF SeenFree
  <2>3. SeenFree(i)' = SeenFree(i) \cup {Nullifier(i)}
    BY <1>1, <2>1, <2>2, OneFurther DEF Nullifier
  <2>4. HasReserved(i)' = {}
    BY <1>3 DEF Moves, HasReserved
  <2> QED
    BY <1>3, <2>3, <2>4 DEF Moves
<1>4. CASE /\ pending[Nullifier(i)] = NoTx
           /\ at[i] = Len(SpendsOf[job[i]]) /\ Moves(i, "reserve", 1)
  <2>1. SeenFree(i)' = Spends(job[i])
    BY <1>4 DEF Moves, SeenFree
  <2>2. SeenFree(i) = {SpendsOf[job[i]][k] : k \in 1 .. at[i] - 1}
    BY <1>0 DEF SeenFree
  <2>3. SeenFree(i)' = SeenFree(i) \cup {Nullifier(i)}
    BY <1>1, <1>4, <2>1, <2>2, OneFurther DEF Nullifier
  <2>4. HasReserved(i)' = {}
    BY <1>4 DEF Moves, HasReserved
  <2> QED
    BY <1>4, <2>3, <2>4 DEF Moves
<1> QED
  BY <1>2, <1>3, <1>4, CheckPoolMoves

LEMMA ReserveSees ==
  ASSUME TypeOK, NEW i \in Inserters, Reserve(i)
  PROVE /\ Others(i) /\ SeenFree(i)' = SeenFree(i) /\ pc'[i] \in {"reserve", "put"} /\ job' = job
        /\ HasReserved(i)' = HasReserved(i) \cup {Nullifier(i)}
<1>0. pc[i] = "reserve"
  BY DEF Reserve
<1>1. job[i] \in Txs /\ at[i] \in 1 .. Len(SpendsOf[job[i]]) /\ Len(SpendsOf[job[i]]) \in Nat
  BY <1>0, InLoop
<1>2. SeenFree(i) = Spends(job[i]) /\ HasReserved(i) = {SpendsOf[job[i]][k] : k \in 1 .. at[i] - 1}
  BY <1>0 DEF SeenFree, HasReserved
<1>3. CASE Moves(i, "reserve", at[i] + 1)
  <2>1. SeenFree(i)' = Spends(job[i])
        /\ HasReserved(i)' = {SpendsOf[job[i]][k] : k \in 1 .. (at[i] + 1) - 1}
    BY <1>3 DEF Moves, SeenFree, HasReserved
  <2>2. HasReserved(i)' = HasReserved(i) \cup {Nullifier(i)}
    BY <1>1, <1>2, <2>1, OneFurther DEF Nullifier
  <2> QED
    BY <1>2, <1>3, <2>1, <2>2 DEF Moves
<1>4. CASE at[i] = Len(SpendsOf[job[i]]) /\ Moves(i, "put", 1)
  <2>1. SeenFree(i)' = Spends(job[i]) /\ HasReserved(i)' = Spends(job[i])
    BY <1>4 DEF Moves, SeenFree, HasReserved
  <2>2. HasReserved(i)' = HasReserved(i) \cup {Nullifier(i)}
    BY <1>1, <1>2, <1>4, <2>1, OneFurther DEF Nullifier
  <2> QED
    BY <1>2, <1>4, <2>1, <2>2 DEF Moves
<1> QED
  BY <1>3, <1>4, ReserveMoves

\* Entering, and any step of the consensus task.
LEMMA EnterSees ==
  ASSUME TypeOK, NEW i \in Inserters, NEW t \in Txs, Enter(i, t)
  PROVE Others(i) /\ job'[i] = t /\ SeenFree(i)' = {} /\ HasReserved(i)' = {}
<1>1. "known" \in Locations
  BY DEF Locations
<1>2. pc'[i] = "known" /\ job' = [job EXCEPT ![i] = t] /\ Goto(i, "known", 1)
  BY <1>1, GotoMoves DEF Enter
<1> QED
  BY <1>1, <1>2, GotoMoves DEF TypeOK, Others, SeenFree, HasReserved

LEMMA StillSees ==
  ASSUME UNCHANGED <<job, pc, at>>, NEW i \in Inserters
  PROVE SeenFree(i)' = SeenFree(i) /\ HasReserved(i)' = HasReserved(i)
  BY DEF SeenFree, HasReserved

---------------------------------------------------------------------------
(* The steps that leave the maps alone, and the parts of the invariant.    *)

\* Steps of one inserter before it writes: nothing but it moves.
Looks(i) == CheckKnown(i) \/ CheckStore(i) \/ CheckPool(i)

LEMMA LooksSees ==
  ASSUME TypeOK, NEW i \in Inserters, Looks(i)
  PROVE /\ Others(i) /\ HasReserved(i)' = {} /\ job'[i] \in {job[i], NoTx}
        /\ UNCHANGED <<txs, pending, spent, raced, writing, removing>>
        /\ SeenFree(i)' \subseteq SeenFree(i) \cup {n \in Nullifiers : pending[n] = NoTx}
<1>1. CASE CheckKnown(i)
  <2>1. job'[i] \in {job[i], NoTx}
    BY <1>1, CheckKnownMoves DEF Leaves, Moves
  <2> QED
    BY <1>1, <2>1, CheckKnownSees DEF CheckKnown, consensusVars
<1>2. CASE CheckStore(i)
  <2>1. job'[i] \in {job[i], NoTx}
    BY <1>2, CheckStoreMoves DEF Leaves, Moves
  <2> QED
    BY <1>2, <2>1, CheckStoreSees DEF CheckStore, consensusVars
<1>3. CASE CheckPool(i)
  <2>1. job'[i] \in {job[i], NoTx}
    BY <1>3, CheckPoolMoves DEF Leaves, Moves
  <2>2. Nullifier(i) \in Nullifiers
    BY <1>3, InLoop DEF CheckPool
  <2> QED
    BY <1>3, <2>1, <2>2, CheckPoolSees DEF CheckPool, consensusVars
<1> QED
  BY <1>1, <1>2, <1>3 DEF Looks

LEMMA PutSees ==
  ASSUME TypeOK, NEW i \in Inserters, Put(i)
  PROVE /\ Others(i) /\ HasReserved(i)' = {} /\ SeenFree(i)' = {} /\ job'[i] = NoTx
        /\ SeenFree(i) = Spends(job[i]) /\ HasReserved(i) = Spends(job[i])
        /\ txs' = txs \cup {job[i]} /\ UNCHANGED <<pending, spent, raced, writing, removing>>
<1>1. Leaves(i) /\ pc[i] = "put"
  BY ReturnLeaves DEF Put
<1> QED
  BY <1>1, LeavesForgets DEF Put, Leaves, SeenFree, HasReserved, consensusVars

\* What the consensus task takes out: a transaction, or a reservation whose
\* note is spent.
LEMMA RemoveTakes ==
  ASSUME TypeOK, Removal, NEW e \in removing, RemoveMined(e)
  PROVE /\ UNCHANGED <<job, pc, at, spent, raced, writing>> /\ removing' = removing \ {e}
        /\ \/ \E t \in Txs : e = <<"tx", t>> /\ txs' = txs \ {t} /\ pending' = pending
           \/ \E n \in spent : /\ e = <<"spend", n>> /\ pending' = [pending EXCEPT ![n] = NoTx]
                               /\ txs' = txs
                               /\ \A t \in Txs : n \in Spends(t) => <<"tx", t>> \notin removing
<1>1. CASE \E t \in Txs : e = <<"tx", t>>
  BY <1>1 DEF RemoveMined, inserterVars
<1>2. CASE \E n \in Nullifiers : e = <<"spend", n>>
  <2>1. PICK n \in Nullifiers : e = <<"spend", n>>
    BY <1>2
  <2>2. n \in spent
    BY <2>1 DEF Removal, RemoveMined
  <2> QED
    BY <2>1, <2>2 DEF RemoveMined, inserterVars
<1> QED
  BY <1>1, <1>2 DEF TypeOK

LEMMA RemovalStep == ASSUME TypeOK, Removal, [Next]_vars PROVE Removal'
<1>1. ASSUME NEW b \in SUBSET Txs, ApplyBlock(b) PROVE Removal'
  <2>1. writing' = UNION {Spends(t) : t \in b} /\ spent' = spent
    BY <1>1 DEF ApplyBlock
  <2>2. CASE removing' = {}
    BY <2>2 DEF Removal
  <2>3. CASE removing' = Entries(b)
    <3>1. \A n \in Nullifiers : <<"spend", n>> \in Entries(b) => n \in UNION {Spends(t) : t \in b}
      BY DEF Entries
    <3>2. \A t \in Txs : <<"tx", t>> \in Entries(b) => t \in b
      BY DEF Entries
    <3>3. \A t \in b : \A n \in Spends(t) : <<"spend", n>> \in Entries(b)
      BY DEF Entries
    <3> QED
      BY <2>1, <2>3, <3>1, <3>2, <3>3 DEF Removal
  <2> QED
    BY <1>1, <2>2, <2>3 DEF ApplyBlock
<1>2. ASSUME NEW n \in writing, WriteNullifier(n) PROVE Removal'
  BY <1>2 DEF WriteNullifier, Removal
<1>3. ASSUME NEW e \in removing, RemoveMined(e) PROVE Removal'
  <2>1. CASE \E t \in Txs : e = <<"tx", t>>
    BY <1>3, <2>1 DEF RemoveMined, Removal
  <2>2. CASE \E n \in Nullifiers : e = <<"spend", n>>
    BY <1>3, <2>2 DEF RemoveMined, Removal
  <2> QED
    BY <2>1, <2>2 DEF TypeOK
<1>4. ASSUME UNCHANGED <<spent, writing, removing>> PROVE Removal'
  BY <1>4 DEF Removal
<1>5. ASSUME NEW i \in Inserters, InsertStep(i) PROVE UNCHANGED <<spent, writing, removing>>
  BY <1>5 DEF InsertStep, Enter, CheckKnown, CheckStore, CheckPool, Reserve, Put, consensusVars
<1> QED
  BY <1>1, <1>2, <1>3, <1>4, <1>5 DEF Next, ConsensusStep, vars, consensusVars

\* The steps of the consensus task, as far as the callers and the maps are
\* concerned: spent grows, and a reservation goes only when its note is spent.
Mines ==
  /\ UNCHANGED <<job, pc, at, raced>> /\ txs' \subseteq txs /\ spent \subseteq spent'
  /\ \A n \in Nullifiers : pending'[n] = pending[n] \/ (pending'[n] = NoTx /\ n \in spent)

LEMMA ConsensusMines == ASSUME TypeOK, Removal, ConsensusStep PROVE Mines
<1>1. ASSUME NEW e \in removing, RemoveMined(e) PROVE Mines
  <2>1. ASSUME NEW t \in Txs, txs' = txs \ {t}, pending' = pending,
               UNCHANGED <<job, pc, at, spent, raced, writing>>
        PROVE Mines
    BY <2>1 DEF Mines
  <2>2. ASSUME NEW n \in spent, pending' = [pending EXCEPT ![n] = NoTx], txs' = txs,
               UNCHANGED <<job, pc, at, spent, raced, writing>>
        PROVE Mines
    BY <2>2 DEF Mines, TypeOK
  <2> QED
    BY <1>1, <2>1, <2>2, RemoveTakes
<1>2. ASSUME NEW b \in SUBSET Txs, ApplyBlock(b) PROVE Mines
  BY <1>2 DEF ApplyBlock, Mines, inserterVars
<1>3. ASSUME NEW n \in writing, WriteNullifier(n) PROVE Mines
  BY <1>3 DEF WriteNullifier, Mines, inserterVars
<1> QED
  BY <1>1, <1>2, <1>3 DEF ConsensusStep

\* Reserving a spend fills one reservation and empties none.
LEMMA ReserveFills ==
  ASSUME TypeOK, NEW i \in Inserters, Reserve(i)
  PROVE /\ job[i] \in Txs /\ job[i] # NoTx /\ Nullifier(i) \in Spends(job[i])
        /\ pending'[Nullifier(i)] = job[i]
        /\ \A n \in Nullifiers \ {Nullifier(i)} : pending'[n] = pending[n]
        /\ UNCHANGED <<txs, spent, raced, writing, removing>>
<1>1. job[i] \in Txs /\ Nullifier(i) \in Spends(job[i]) /\ Nullifier(i) \in Nullifiers
  BY InLoop DEF Reserve
<1>2. job[i] # NoTx
  BY <1>1, MempoolAssumption DEF MempoolAssumption
<1> QED
  BY <1>1, <1>2 DEF Reserve, TypeOK, consensusVars

---------------------------------------------------------------------------
(* The parts of the invariant, each over all steps.                        *)

LEMMA ReservedStep ==
  ASSUME TypeOK, Removal, UnspentReserved, Kept, [Next]_vars PROVE UnspentReserved' /\ Kept'
<1>0. /\ \A t \in txs : t \in Txs /\ Spends(t) \subseteq Nullifiers
      /\ \A i \in Inserters : HasReserved(i) \subseteq Nullifiers
  <2>1. \A t \in txs : t \in Txs /\ Spends(t) \subseteq Nullifiers
    BY MempoolAssumption, SpendsAreNullifiers DEF TypeOK, MempoolAssumption
  <2>2. ASSUME NEW i \in Inserters PROVE HasReserved(i) \subseteq Nullifiers
    <3>1. CASE pc[i] = "reserve"
      <4>1. job[i] \in Txs /\ at[i] \in 1 .. Len(SpendsOf[job[i]]) /\ Len(SpendsOf[job[i]]) \in Nat
        BY <3>1, InLoop
      <4>2. \A k \in 1 .. at[i] - 1 : k \in DOMAIN SpendsOf[job[i]]
        BY <4>1, SpendsAreNullifiers
      <4> QED
        BY <3>1, <4>1, <4>2, SpendsAreNullifiers DEF HasReserved, Spends
    <3>2. CASE pc[i] = "put"
      <4>1. job[i] \in Txs
        BY <3>2 DEF TypeOK
      <4> QED
        BY <3>2, <4>1, SpendsAreNullifiers DEF HasReserved
    <3> QED
      BY <3>1, <3>2 DEF HasReserved
  <2> QED
    BY <2>1, <2>2
<1>1. ASSUME NEW i \in Inserters, NEW t \in Txs, Enter(i, t) PROVE UnspentReserved' /\ Kept'
  <2>1. /\ \A j \in Inserters : HasReserved(j)' \in {{}, HasReserved(j)}
        /\ UNCHANGED <<txs, pending, spent>>
    BY <1>1, EnterSees, OthersStay DEF Enter
  <2> QED
    BY <2>1 DEF UnspentReserved, Kept, Spends
<1>2. ASSUME NEW i \in Inserters, Looks(i) PROVE UnspentReserved' /\ Kept'
  <2>1. /\ \A j \in Inserters : HasReserved(j)' \in {{}, HasReserved(j)}
        /\ UNCHANGED <<txs, pending, spent>>
    BY <1>2, LooksSees, OthersStay
  <2> QED
    BY <2>1 DEF UnspentReserved, Kept, Spends
<1>3. ASSUME NEW i \in Inserters, Reserve(i) PROVE UnspentReserved' /\ Kept'
  <2>1. \A n \in Nullifiers : pending[n] # NoTx => pending'[n] # NoTx
    BY <1>3, ReserveFills
  <2>2. \A j \in Inserters \ {i} : HasReserved(j)' = HasReserved(j)
    BY <1>3, ReserveSees, OthersStay
  <2>3. HasReserved(i)' = HasReserved(i) \cup {Nullifier(i)} /\ pending'[Nullifier(i)] # NoTx
    BY <1>3, ReserveSees, ReserveFills
  <2>4. txs' = txs /\ spent' = spent
    BY <1>3, ReserveFills
  <2>5. UnspentReserved'
    BY <1>0, <2>1, <2>4 DEF UnspentReserved, Spends
  <2>6. Kept'
    BY <1>0, <2>1, <2>2, <2>3, <2>4 DEF Kept
  <2> QED
    BY <2>5, <2>6
<1>4. ASSUME NEW i \in Inserters, Put(i) PROVE UnspentReserved' /\ Kept'
  <2>1. \A j \in Inserters : HasReserved(j)' \in {{}, HasReserved(j)}
    BY <1>4, PutSees, OthersStay
  <2>2. HasReserved(i) = Spends(job[i]) /\ txs' = txs \cup {job[i]} /\ UNCHANGED <<pending, spent>>
    BY <1>4, PutSees
  <2> QED
    BY <2>1, <2>2 DEF UnspentReserved, Kept, Spends
<1>5. CASE ConsensusStep
  <2>1. Mines
    BY <1>5, ConsensusMines
  <2>2. \A j \in Inserters : HasReserved(j)' = HasReserved(j)
    BY <2>1, StillSees DEF Mines
  <2> QED
    BY <1>0, <2>1, <2>2 DEF Mines, UnspentReserved, Kept, Spends
<1>6. CASE UNCHANGED vars
  <2>1. \A j \in Inserters : HasReserved(j)' = HasReserved(j)
    BY <1>6, StillSees DEF vars, inserterVars
  <2> QED
    BY <1>6, <2>1 DEF vars, UnspentReserved, Kept, Spends
<1> QED
  BY <1>1, <1>2, <1>3, <1>4, <1>5, <1>6 DEF Next, InsertStep, Looks

LEMMA ActiveRacedStep == ASSUME TypeOK, Removal, ActiveRaced, [Next]_vars PROVE ActiveRaced'
<1>1. ASSUME NEW i \in Inserters, NEW t \in Txs, Enter(i, t) PROVE ActiveRaced'
  <2>1. Others(i) /\ job'[i] = t /\ raced' = raced \cup Racing(t)
    BY <1>1, EnterSees DEF Enter
  <2>2. ASSUME NEW j \in Inserters \ {i}, job[j] \notin {t, NoTx}, Spends(t) \cap Spends(job[j]) # {}
        PROVE {t, job[j]} \in Racing(t)
    BY <2>2 DEF Racing
  <2>3. \A j \in Inserters \ {i} : job'[j] = job[j]
    BY <2>1 DEF Others
  <2>4. \A j \in Inserters \ {i} :
          job[j] \notin {t, NoTx} /\ Spends(t) \cap Spends(job[j]) # {} =>
            {t, job[j]} \in raced' /\ {job[j], t} \in raced'
    <3>1. \A j : {t, job[j]} = {job[j], t}
      OBVIOUS
    <3> QED
      BY <2>1, <2>2, <3>1
  <2>5. ASSUME NEW a \in Inserters, NEW b \in Inserters, job'[a] # NoTx, job'[b] # NoTx,
               job'[a] # job'[b], Spends(job'[a]) \cap Spends(job'[b]) # {}
        PROVE {job'[a], job'[b]} \in raced'
    <3>1. CASE a = i
      <4>1. b # i /\ job'[b] = job[b] /\ job'[a] = t
        BY <2>1, <2>3, <2>5, <3>1
      <4> QED
        BY <2>4, <2>5, <4>1
    <3>2. CASE b = i
      <4>1. a # i /\ job'[a] = job[a] /\ job'[b] = t
        BY <2>1, <2>3, <2>5, <3>2
      <4>2. Spends(t) \cap Spends(job[a]) # {}
        BY <2>5, <4>1
      <4> QED
        BY <2>4, <2>5, <4>1, <4>2
    <3>3. CASE a # i /\ b # i
      BY <2>1, <2>3, <2>5, <3>3 DEF ActiveRaced
    <3> QED
      BY <3>1, <3>2, <3>3
  <2> QED
    BY <2>5 DEF ActiveRaced
<1>2. ASSUME NEW i \in Inserters, Others(i), job'[i] \in {job[i], NoTx}, raced' = raced
      PROVE ActiveRaced'
  <2>1. \A j \in Inserters : job'[j] \in {job[j], NoTx}
    BY <1>2 DEF Others
  <2> QED
    BY <1>2, <2>1 DEF ActiveRaced, Spends
<1>3. ASSUME UNCHANGED <<job, raced>> PROVE ActiveRaced'
  BY <1>3 DEF ActiveRaced, Spends
<1>4. CASE ConsensusStep
  BY <1>3, <1>4, ConsensusMines DEF Mines
<1>5. ASSUME NEW i \in Inserters, Looks(i) PROVE ActiveRaced'
  BY <1>2, <1>5, LooksSees
<1>6. ASSUME NEW i \in Inserters, Reserve(i) PROVE ActiveRaced'
  BY <1>3, <1>6, ReserveSees, ReserveFills
<1>7. ASSUME NEW i \in Inserters, Put(i) PROVE ActiveRaced'
  BY <1>2, <1>7, PutSees
<1> QED
  BY <1>1, <1>3, <1>4, <1>5, <1>6, <1>7 DEF Next, InsertStep, Looks, vars, inserterVars
LEMMA LateStoppedStep ==
  ASSUME TypeOK, Removal, UnspentReserved, ActiveRaced, LateStopped, [Next]_vars
  PROVE LateStopped'
<1>0. \A t \in txs : t \in Txs /\ Spends(t) \subseteq Nullifiers
  BY MempoolAssumption, SpendsAreNullifiers DEF TypeOK, MempoolAssumption
<1>1. ASSUME txs' \subseteq txs, spent \subseteq spent', raced \subseteq raced',
             NEW i \in Inserters, Others(i),
             \/ SeenFree(i)' = {}
             \/ job'[i] = NoTx
             \/ job'[i] = job[i] /\ SeenFree(i)' \subseteq SeenFree(i) \cup {n \in Nullifiers : pending[n] = NoTx}
      PROVE LateStopped'
  <2>1. \A j \in Inserters \ {i} : job'[j] = job[j] /\ SeenFree(j)' = SeenFree(j)
    BY <1>1, OthersStay DEF Others
  <2>2. \A t \in txs : \A n \in Spends(t) : pending[n] = NoTx => n \in spent
    BY DEF UnspentReserved
  <2>3. ASSUME NEW j \in Inserters, NEW t \in txs', job'[j] \notin {t, NoTx}, {t, job'[j]} \notin raced'
        PROVE SeenFree(j)' \cap Spends(t) \subseteq spent'
    <3>1. CASE j # i
      <4>1. SeenFree(j) \cap Spends(t) \subseteq spent
        BY <1>1, <2>1, <2>3, <3>1 DEF LateStopped
      <4> QED
        BY <1>1, <2>1, <3>1, <4>1
    <3>2. CASE j = i /\ SeenFree(i)' # {}
      <4>1. /\ job'[i] = job[i]
            /\ SeenFree(i)' \subseteq SeenFree(i) \cup {n \in Nullifiers : pending[n] = NoTx}
        BY <1>1, <2>3, <3>2
      <4>2. SeenFree(i) \cap Spends(t) \subseteq spent
        BY <1>1, <2>3, <3>2, <4>1 DEF LateStopped
      <4>3. t \in txs
        BY <1>1, <2>3
      <4> QED
        BY <1>1, <2>2, <3>2, <4>1, <4>2, <4>3
    <3>3. CASE j = i /\ SeenFree(i)' = {}
      BY <3>3
    <3> QED
      BY <3>1, <3>2, <3>3
  <2> QED
    BY <2>3 DEF LateStopped, Spends
<1>2. ASSUME NEW i \in Inserters, NEW t \in Txs, Enter(i, t) PROVE LateStopped'
  BY <1>1, <1>2, EnterSees DEF Enter
<1>3. ASSUME NEW i \in Inserters, Looks(i) PROVE LateStopped'
  <2>1. job'[i] \in {job[i], NoTx} /\ Others(i) /\ UNCHANGED <<txs, pending, spent, raced>>
        /\ SeenFree(i)' \subseteq SeenFree(i) \cup {n \in Nullifiers : pending[n] = NoTx}
    BY <1>3, LooksSees
  <2> QED
    BY <1>1, <2>1
<1>4. ASSUME NEW i \in Inserters, Reserve(i) PROVE LateStopped'
  <2>1. job' = job /\ Others(i) /\ UNCHANGED <<txs, spent, raced>> /\ SeenFree(i)' = SeenFree(i)
    BY <1>4, ReserveSees, ReserveFills
  <2> QED
    BY <1>1, <2>1
<1>5. ASSUME NEW i \in Inserters, Put(i) PROVE LateStopped'
  <2>1. /\ Others(i) /\ job'[i] = NoTx /\ txs' = txs \cup {job[i]} /\ spent' = spent /\ raced' = raced
    BY <1>5, PutSees
  <2>2. \A j \in Inserters \ {i} : job'[j] = job[j] /\ SeenFree(j)' = SeenFree(j)
    BY <2>1, OthersStay DEF Others
  <2>3. job[i] # NoTx
    BY <1>5 DEF Put, TypeOK
  <2>4. ASSUME NEW j \in Inserters, NEW t \in txs', job'[j] \notin {t, NoTx}, {t, job'[j]} \notin raced'
        PROVE SeenFree(j)' \cap Spends(t) \subseteq spent'
    <3>1. j # i /\ job'[j] = job[j] /\ SeenFree(j)' = SeenFree(j)
      BY <2>1, <2>2, <2>4
    <3>2. CASE t \in txs
      BY <2>1, <2>4, <3>1, <3>2 DEF LateStopped
    <3>3. CASE t = job[i]
      <4>1. Spends(job[i]) \cap Spends(job[j]) = {}
        BY <2>1, <2>3, <2>4, <3>1, <3>3 DEF ActiveRaced
      <4> QED
        BY <3>1, <3>3, <4>1, SeenAreSpends
    <3> QED
      BY <2>1, <2>4, <3>2, <3>3
  <2> QED
    BY <2>4 DEF LateStopped, Spends
<1>6. ASSUME UNCHANGED <<job, pc, at, raced>>, txs' \subseteq txs, spent \subseteq spent' PROVE LateStopped'
  <2>1. \A j \in Inserters : SeenFree(j)' = SeenFree(j)
    BY <1>6, StillSees
  <2>2. ASSUME NEW j \in Inserters, NEW t \in txs', job'[j] \notin {t, NoTx}, {t, job'[j]} \notin raced'
        PROVE SeenFree(j)' \cap Spends(t) \subseteq spent'
    <3>1. SeenFree(j) \cap Spends(t) \subseteq spent
      BY <1>6, <2>2 DEF LateStopped
    <3> QED
      BY <1>6, <2>1, <3>1
  <2> QED
    BY <2>2 DEF LateStopped, Spends
<1>7. CASE ConsensusStep
  BY <1>6, <1>7, ConsensusMines DEF Mines
<1>8. CASE UNCHANGED vars
  BY <1>6, <1>8 DEF vars, inserterVars
<1> QED
  BY <1>2, <1>3, <1>4, <1>5, <1>7, <1>8 DEF Next, InsertStep, Looks

LEMMA DoubleSpendsStep ==
  ASSUME TypeOK, Removal, LateStopped, DoubleSpendsRaced, [Next]_vars
  PROVE DoubleSpendsRaced'
<1>1. ASSUME txs' \subseteq txs, spent \subseteq spent', raced \subseteq raced'
      PROVE DoubleSpendsRaced'
  <2>1. ASSUME NEW t \in txs', NEW u \in txs', t # u, ~(Spends(t) \cap Spends(u) \subseteq spent')
        PROVE {t, u} \in raced'
    BY <1>1, <2>1 DEF DoubleSpendsRaced
  <2> QED
    BY <2>1 DEF DoubleSpendsRaced, Spends
<1>2. ASSUME NEW i \in Inserters, Put(i) PROVE DoubleSpendsRaced'
  <2>1. /\ txs' = txs \cup {job[i]} /\ spent' = spent /\ raced' = raced
        /\ SeenFree(i) = Spends(job[i]) /\ job[i] # NoTx
    BY <1>2, PutSees DEF Put, TypeOK
  <2>2. ASSUME NEW t \in txs, t # job[i], ~(Spends(t) \cap Spends(job[i]) \subseteq spent)
        PROVE {t, job[i]} \in raced
    BY <2>1, <2>2 DEF LateStopped
  <2>3. ASSUME NEW t \in txs', NEW u \in txs', t # u, ~(Spends(t) \cap Spends(u) \subseteq spent')
        PROVE {t, u} \in raced'
    <3>1. CASE t \in txs /\ u \in txs
      BY <2>1, <2>3, <3>1 DEF DoubleSpendsRaced
    <3>2. CASE u = job[i]
      BY <2>1, <2>2, <2>3, <3>2
    <3>3. CASE t = job[i]
      <4>1. u \in txs /\ ~(Spends(u) \cap Spends(job[i]) \subseteq spent)
        BY <2>1, <2>3, <3>3
      <4>2. {u, job[i]} \in raced /\ {u, job[i]} = {t, u}
        BY <2>2, <2>3, <3>3, <4>1
      <4> QED
        BY <2>1, <4>2
    <3> QED
      BY <2>1, <2>3, <3>1, <3>2, <3>3
  <2> QED
    BY <2>3 DEF DoubleSpendsRaced, Spends
<1>3. ASSUME NEW i \in Inserters, NEW t \in Txs, Enter(i, t) PROVE DoubleSpendsRaced'
  BY <1>1, <1>3 DEF Enter
<1>4. ASSUME NEW i \in Inserters, Looks(i) PROVE DoubleSpendsRaced'
  BY <1>1, <1>4, LooksSees
<1>5. ASSUME NEW i \in Inserters, Reserve(i) PROVE DoubleSpendsRaced'
  BY <1>1, <1>5, ReserveFills
<1>6. CASE ConsensusStep
  BY <1>1, <1>6, ConsensusMines DEF Mines
<1>7. CASE UNCHANGED vars
  BY <1>1, <1>7 DEF vars
<1> QED
  BY <1>2, <1>3, <1>4, <1>5, <1>6, <1>7 DEF Next, InsertStep, Looks

LEMMA PoolInvariantHolds == Spec => []PoolInvariant
<1>1. Init => PoolInvariant
  <2>1. ASSUME Init PROVE PoolInvariant
    <3>1. \A i \in Inserters : SeenFree(i) = {} /\ HasReserved(i) = {}
      BY <2>1 DEF Init, SeenFree, HasReserved
    <3>2. TypeOK
      BY <2>1, TypeInitial
    <3> QED
      BY <2>1, <3>1, <3>2
      DEF Init, PoolInvariant, Screened, Removal, UnspentReserved, Kept, ActiveRaced,
          LateStopped, DoubleSpendsRaced
  <2> QED
    BY <2>1
<1>2. PoolInvariant /\ [Next]_vars => PoolInvariant'
  BY TypeStep, RemovalStep, ReservedStep, ActiveRacedStep, LateStoppedStep, DoubleSpendsStep
  DEF PoolInvariant
<1> QED
  BY <1>1, <1>2, PTL DEF Spec

\* UnspentReserved: no second owner and no cleaning after another's block frees
\* an unspent note of a pooled transaction.
THEOREM UnspentReservedHolds == Spec => []UnspentReserved
  BY PoolInvariantHolds, PTL DEF PoolInvariant

\* DoubleSpendsRaced: only inserts that overlap put two spenders of one unspent
\* note in the pool.
THEOREM DoubleSpendsRacedHolds == Spec => []DoubleSpendsRaced
  BY PoolInvariantHolds, PTL DEF PoolInvariant

---------------------------------------------------------------------------
(* Who owns the reservations.                                              *)

LEMMA OwnedStep == ASSUME TypeOK, Removal, Owned, [Next]_vars PROVE Owned'
<1>1. ASSUME NEW i \in Inserters, Others(i), pc[i] \notin {"reserve", "put"},
             UNCHANGED <<txs, pending, removing>>
      PROVE Owned'
  <2>1. \A j \in Inserters : pc[j] \in {"reserve", "put"} => pc'[j] = pc[j] /\ job'[j] = job[j]
    BY <1>1 DEF Others
  <2> QED
    BY <1>1, <2>1 DEF Owned, Spends
<1>2. ASSUME NEW i \in Inserters, InsertStep(i) PROVE Owned'
  <2>1. ASSUME NEW t \in Txs, Enter(i, t) PROVE Owned'
    BY <1>1, <2>1, EnterSees DEF Enter, consensusVars
  <2>2. CASE CheckKnown(i) \/ CheckStore(i) \/ CheckPool(i)
    <3>1. pc[i] \notin {"reserve", "put"}
      BY <2>2 DEF CheckKnown, CheckStore, CheckPool
    <3> QED
      BY <1>1, <2>2, <3>1, LooksSees DEF Looks
  <2>3. CASE Reserve(i)
    <3>1. /\ job' = job /\ pc'[i] \in {"reserve", "put"} /\ Others(i) /\ pc[i] = "reserve"
          /\ UNCHANGED <<txs, removing>>
      BY <2>3, ReserveSees, ReserveFills DEF Reserve
    <3>2. \A j \in Inserters : pc[j] \in {"reserve", "put"} => pc'[j] \in {"reserve", "put"}
      BY <3>1 DEF Others
    <3>3. ASSUME NEW n \in Nullifiers, pending'[n] # NoTx
          PROVE /\ n \in Spends(pending'[n])
                /\ \/ pending'[n] \in txs'
                   \/ \E j \in Inserters : job'[j] = pending'[n] /\ pc'[j] \in {"reserve", "put"}
                   \/ <<"spend", n>> \in removing'
      <4>1. CASE n = Nullifier(i)
        BY <2>3, <3>1, <4>1, ReserveFills
      <4>2. CASE n # Nullifier(i)
        <5>1. pending'[n] = pending[n]
          BY <2>3, <4>2, ReserveFills
        <5> QED
          BY <3>1, <3>2, <3>3, <5>1 DEF Owned
      <4> QED
        BY <4>1, <4>2
    <3> QED
      BY <3>3 DEF Owned, Spends
  <2>4. CASE Put(i)
    <3>1. txs' = txs \cup {job[i]} /\ Others(i) /\ UNCHANGED <<pending, removing>>
      BY <2>4, PutSees
    <3>2. \A j \in Inserters : (job[j] = job'[j] /\ pc[j] = pc'[j]) \/ job[j] \in txs'
      BY <3>1 DEF Others
    <3> QED
      BY <3>1, <3>2 DEF Owned, Spends
  <2> QED
    BY <1>2, <2>1, <2>2, <2>3, <2>4 DEF InsertStep
<1>3. ASSUME NEW e \in removing, RemoveMined(e) PROVE Owned'
  <2>0. UNCHANGED <<job, pc>> /\ removing' = removing \ {e}
    BY <1>3, RemoveTakes
  <2>1. ASSUME NEW t \in Txs, e = <<"tx", t>>, txs' = txs \ {t}, pending' = pending PROVE Owned'
    <3>1. \A n \in Nullifiers : pending[n] = t /\ n \in Spends(t) => <<"spend", n>> \in removing'
      BY <2>0, <2>1 DEF Removal
    <3>2. \A n \in Nullifiers : <<"spend", n>> \in removing => <<"spend", n>> \in removing'
      BY <2>0, <2>1
    <3> QED
      BY <2>0, <2>1, <3>1, <3>2 DEF Owned, Spends
  <2>2. ASSUME NEW n \in spent, e = <<"spend", n>>, pending' = [pending EXCEPT ![n] = NoTx], txs' = txs
        PROVE Owned'
    <3>1. n \in Nullifiers
      BY DEF TypeOK
    <3>2. pending'[n] = NoTx /\ \A m \in Nullifiers \ {n} : pending'[m] = pending[m]
      BY <2>2, <3>1 DEF TypeOK
    <3>3. \A m \in Nullifiers \ {n} : <<"spend", m>> \in removing => <<"spend", m>> \in removing'
      BY <2>0, <2>2
    <3> QED
      BY <2>0, <2>2, <3>2, <3>3 DEF Owned, Spends
  <2> QED
    BY <1>3, <2>1, <2>2, RemoveTakes
<1>4. ASSUME UNCHANGED <<txs, pending, job, pc>>, removing \subseteq removing' PROVE Owned'
  BY <1>4 DEF Owned, Spends
<1>5. ASSUME NEW b \in SUBSET Txs, ApplyBlock(b) PROVE Owned'
  BY <1>4, <1>5 DEF ApplyBlock, inserterVars
<1>6. ASSUME NEW n \in writing, WriteNullifier(n) PROVE Owned'
  BY <1>4, <1>6 DEF WriteNullifier, inserterVars
<1>7. CASE UNCHANGED vars
  BY <1>4, <1>7 DEF vars, inserterVars, consensusVars
<1> QED
  BY <1>2, <1>3, <1>5, <1>6, <1>7 DEF Next, ConsensusStep

\* NoOrphanReservation: once nobody is at work, no note is locked without a
\* pooled transaction that spends it.
THEOREM NoOrphanReservationHolds == Spec => []NoOrphanReservation
<1>1. Init => TypeOK /\ Screened /\ Removal /\ Owned
  <2>1. Init => Screened /\ Removal /\ Owned
    BY DEF Init, Screened, Removal, Owned
  <2> QED
    BY <2>1, TypeInitial
<1>2. (TypeOK /\ Screened /\ Removal /\ Owned) /\ [Next]_vars => (TypeOK /\ Screened /\ Removal /\ Owned)'
  BY TypeStep, RemovalStep, OwnedStep
<1>3. Owned => NoOrphanReservation
  BY DEF Owned, NoOrphanReservation
<1> QED
  BY <1>1, <1>2, <1>3, PTL DEF Spec

---------------------------------------------------------------------------
(* The size.                                                               *)

\* A caller inside insert may still add a transaction; those inside together with
\* those pooled stay within the bound.
Bounded ==
  /\ IsFiniteSet(txs)
  /\ Cardinality(txs) + Cardinality(Active) <= MaxSize + Cardinality(Inserters) - 1

LEMMA ActiveFinite ==
  /\ IsFiniteSet(Active) /\ Cardinality(Active) \in Nat
  /\ Cardinality(Inserters) \in Nat /\ Cardinality(Active) <= Cardinality(Inserters)
<1>1. Active \subseteq Inserters /\ IsFiniteSet(Inserters)
  BY MempoolAssumption DEF Active, MempoolAssumption
<1> QED
  BY <1>1, FS_Subset, FS_CardinalityType

LEMMA BoundedShrinks ==
  ASSUME Bounded, txs' \subseteq txs, Active' \subseteq Active PROVE Bounded'
<1>1. /\ IsFiniteSet(txs') /\ Cardinality(txs') <= Cardinality(txs)
      /\ Cardinality(txs) \in Nat /\ Cardinality(txs') \in Nat
  BY FS_Subset, FS_CardinalityType DEF Bounded
<1>2. /\ Cardinality(Active') <= Cardinality(Active) /\ Cardinality(Active) \in Nat
      /\ Cardinality(Active') \in Nat /\ Cardinality(Inserters) \in Nat
  BY ActiveFinite, FS_Subset, FS_CardinalityType
<1>3. MaxSize \in Nat
  BY MempoolAssumption DEF MempoolAssumption
<1>4. Cardinality(txs') + Cardinality(Active') <= MaxSize + Cardinality(Inserters) - 1
  BY <1>1, <1>2, <1>3 DEF Bounded
<1> QED
  BY <1>1, <1>4 DEF Bounded

LEMMA BoundedStep == ASSUME TypeOK, Removal, Bounded, [Next]_vars PROVE Bounded'
<1>0. MaxSize \in Nat /\ Cardinality(txs) \in Nat
  BY MempoolAssumption, FS_CardinalityType DEF MempoolAssumption, Bounded
<1>1. ASSUME NEW i \in Inserters, NEW t \in Txs, Enter(i, t) PROVE Bounded'
  <2>1. Cardinality(txs) < MaxSize /\ txs' = txs
    BY <1>1 DEF Enter
  <2>2. Active' \subseteq Inserters
    BY DEF Active
  <2>3. Cardinality(Active') <= Cardinality(Inserters) /\ Cardinality(Active') \in Nat
        /\ Cardinality(Inserters) \in Nat
    BY <2>2, ActiveFinite, MempoolAssumption, FS_Subset, FS_CardinalityType DEF MempoolAssumption
  <2>4. Cardinality(txs') + Cardinality(Active') <= MaxSize + Cardinality(Inserters) - 1
    BY <1>0, <2>1, <2>3
  <2> QED
    BY <2>1, <2>4 DEF Bounded
<1>2. ASSUME NEW i \in Inserters, pc[i] # "idle", Others(i), txs' \subseteq txs PROVE Bounded'
  <2>1. Active' \subseteq Active
    BY <1>2 DEF Others, Active
  <2> QED
    BY <1>2, <2>1, BoundedShrinks
<1>3. ASSUME NEW i \in Inserters, Looks(i) PROVE Bounded'
  <2>1. pc[i] # "idle"
    BY <1>3 DEF Looks, CheckKnown, CheckStore, CheckPool
  <2> QED
    BY <1>2, <1>3, <2>1, LooksSees
<1>4. ASSUME NEW i \in Inserters, Reserve(i) PROVE Bounded'
  <2>1. pc[i] # "idle"
    BY <1>4 DEF Reserve
  <2> QED
    BY <1>2, <1>4, <2>1, ReserveSees, ReserveFills
<1>5. ASSUME NEW i \in Inserters, Put(i) PROVE Bounded'
  <2>1. Others(i) /\ pc'[i] = "idle" /\ pc[i] = "put" /\ txs' = txs \cup {job[i]}
    BY <1>5, ReturnLeaves DEF Put, Leaves
  <2>2. Active' = Active \ {i} /\ i \in Active
    BY <2>1 DEF Active, Others
  <2>3. Cardinality(Active') = Cardinality(Active) - 1
    BY <2>2, ActiveFinite, FS_RemoveElement
  <2>4. IsFiniteSet(txs') /\ Cardinality(txs') <= Cardinality(txs) + 1 /\ Cardinality(txs') \in Nat
    BY <1>0, <2>1, FS_AddElement, FS_CardinalityType DEF Bounded
  <2>5. Cardinality(txs') + Cardinality(Active') <= MaxSize + Cardinality(Inserters) - 1
    BY <1>0, <2>3, <2>4, ActiveFinite DEF Bounded
  <2> QED
    BY <2>4, <2>5 DEF Bounded
<1>6. ASSUME UNCHANGED pc, txs' \subseteq txs PROVE Bounded'
  BY <1>6, BoundedShrinks DEF Active
<1>7. CASE ConsensusStep
  BY <1>6, <1>7, ConsensusMines DEF Mines
<1>8. CASE UNCHANGED vars
  BY <1>6, <1>8 DEF vars, inserterVars
<1> QED
  BY <1>1, <1>3, <1>4, <1>5, <1>7, <1>8 DEF Next, InsertStep, Looks

\* SizeOverrunBounded: callers that read the size before it was reached overrun
\* it by at most one each.
THEOREM SizeOverrunBoundedHolds == Spec => []SizeOverrunBounded
<1>0. MaxSize \in Nat \ {0} /\ Cardinality(Inserters) \in Nat
  BY MempoolAssumption, ActiveFinite DEF MempoolAssumption
<1>1. Init => TypeOK /\ Screened /\ Removal /\ Bounded
  <2>1. Init => Screened /\ Removal
    BY DEF Init, Screened, Removal
  <2>2. Init => txs = {} /\ Active = {}
    BY DEF Init, Active
  <2>3. ASSUME Init PROVE Bounded
    <3>1. IsFiniteSet({}) /\ Cardinality({}) = 0
      BY FS_EmptySet
    <3>2. 0 + 0 <= MaxSize + Cardinality(Inserters) - 1
      BY <1>0
    <3>3. txs = {} /\ Active = {}
      BY <2>2, <2>3
    <3> QED
      BY <3>1, <3>2, <3>3 DEF Bounded
  <2> QED
    BY <2>1, <2>3, TypeInitial
<1>2. (TypeOK /\ Screened /\ Removal /\ Bounded) /\ [Next]_vars => (TypeOK /\ Screened /\ Removal /\ Bounded)'
  BY TypeStep, RemovalStep, BoundedStep
<1>3. Bounded => SizeOverrunBounded
  <2>1. Bounded => Cardinality(txs) \in Nat
    BY FS_CardinalityType DEF Bounded
  <2> QED
    BY <1>0, <2>1, ActiveFinite DEF Bounded, SizeOverrunBounded
<1> QED
  BY <1>1, <1>2, <1>3, PTL DEF Spec
=============================================================================
