------------------------------ MODULE Mempool ------------------------------
(***************************************************************************)
(* PrivateMempool of noirnet-mempool.  Its two maps are concurrent: each   *)
(* call on a map is atomic, nothing spans two calls.  The callers of       *)
(* insert are the RPC handlers and the task fed by gossip; the consensus   *)
(* task applies a block to the store and then calls remove_mined.          *)
(***************************************************************************)
EXTENDS Integers, Sequences, FiniteSets

CONSTANTS
  Txs, Nullifiers,
  SpendsOf,   \* nullifiers of a transaction, in order
  Acceptable, \* those that pass validate_format and pay MIN_FEE
  Inserters,  \* concurrent callers of insert
  MaxSize,    \* MAX_MEMPOOL_SIZE (10000 in the code)
  NoTx

ASSUME MempoolAssumption ==
  /\ SpendsOf \in [Txs -> Seq(Nullifiers)]
  /\ Acceptable \subseteq Txs
  /\ MaxSize \in Nat \ {0} /\ IsFiniteSet(Inserters)
  /\ NoTx \notin Txs

VARIABLES
  txs, pending, \* the two maps: transactions; the owner of each nullifier
  spent,        \* CF_NULLIFIERS of the store
  job, pc, at,  \* of each inserter: its transaction, where it is, which spend
  raced,        \* history: pairs of transactions whose inserts overlapped
  writing, removing \* the consensus task: nullifiers apply_block has yet to
                    \* write, entries remove_mined has yet to take out

inserterVars == <<job, pc, at>>
consensusVars == <<writing, removing>>
vars == <<txs, pending, spent, inserterVars, raced, consensusVars>>

Spends(t) == {SpendsOf[t][k] : k \in DOMAIN SpendsOf[t]}

---------------------------------------------------------------------------
(* insert.                                                                 *)

Nullifier(i) == SpendsOf[job[i]][at[i]]
Goto(i, l, k) == pc' = [pc EXCEPT ![i] = l] /\ at' = [at EXCEPT ![i] = k]

\* Over the spends of a transaction: loop `l' from spend k on, or what follows it.
Loop(i, l, k, after) ==
  IF k <= Len(SpendsOf[job[i]]) THEN Goto(i, l, k) ELSE Goto(i, after, 1)

\* Return from insert, with an error or without.
Return(i) == Goto(i, "idle", 1) /\ job' = [job EXCEPT ![i] = NoTx]

\* The transactions being inserted when t comes that want one of its notes.
Racing(t) ==
  {{t, job[j]} : j \in {k \in Inserters :
     job[k] \notin {t, NoTx} /\ Spends(t) \cap Spends(job[k]) # {}}}

\* Mutant: the size is not read.
EnterUnbounded(i, t) ==
  /\ pc[i] = "idle"
  /\ job' = [job EXCEPT ![i] = t] /\ Goto(i, "known", 1)
  /\ raced' = raced \cup Racing(t)
  /\ UNCHANGED <<txs, pending, spent, consensusVars>>

\* The size is read first; a full pool refuses without a trace.
Enter(i, t) ==
  /\ pc[i] = "idle"
  /\ Cardinality(txs) < MaxSize
  /\ job' = [job EXCEPT ![i] = t] /\ Goto(i, "known", 1)
  /\ raced' = raced \cup Racing(t)
  /\ UNCHANGED <<txs, pending, spent, consensusVars>>

CheckKnown(i) ==
  /\ pc[i] = "known"
  /\ IF job[i] \in txs \/ job[i] \notin Acceptable
     THEN Return(i)
     ELSE Loop(i, "store", 1, "put") /\ UNCHANGED job
  /\ UNCHANGED <<txs, pending, spent, raced, consensusVars>>

CheckStore(i) ==
  /\ pc[i] = "store"
  /\ IF Nullifier(i) \in spent
     THEN Return(i)
     ELSE Goto(i, "pool", at[i]) /\ UNCHANGED job
  /\ UNCHANGED <<txs, pending, spent, raced, consensusVars>>

\* Mutants: the nullifier is reserved as soon as it is found free, before the
\* other spends are looked at; or the map is not asked at all.
CheckPoolReserving(i) ==
  /\ pc[i] = "pool"
  /\ IF pending[Nullifier(i)] # NoTx
     THEN Return(i) /\ UNCHANGED pending
     ELSE /\ pending' = [pending EXCEPT ![Nullifier(i)] = job[i]]
          /\ IF at[i] < Len(SpendsOf[job[i]])
             THEN Goto(i, "store", at[i] + 1) ELSE Goto(i, "reserve", 1)
          /\ UNCHANGED job
  /\ UNCHANGED <<txs, spent, raced, consensusVars>>
CheckPoolSkipped(i) ==
  /\ pc[i] = "pool"
  /\ IF at[i] < Len(SpendsOf[job[i]])
     THEN Goto(i, "store", at[i] + 1) ELSE Goto(i, "reserve", 1)
  /\ UNCHANGED <<job, txs, pending, spent, raced, consensusVars>>

CheckPool(i) ==
  /\ pc[i] = "pool"
  /\ IF pending[Nullifier(i)] # NoTx
     THEN Return(i)
     ELSE Loop(i, "store", at[i] + 1, "reserve") /\ UNCHANGED job
  /\ UNCHANGED <<txs, pending, spent, raced, consensusVars>>

\* A second owner overwrites the first.
Reserve(i) ==
  /\ pc[i] = "reserve"
  /\ pending' = [pending EXCEPT ![Nullifier(i)] = job[i]]
  /\ Loop(i, "reserve", at[i] + 1, "put")
  /\ UNCHANGED <<job, txs, spent, raced, consensusVars>>

Put(i) ==
  /\ pc[i] = "put"
  /\ txs' = txs \cup {job[i]}
  /\ Return(i)
  /\ UNCHANGED <<pending, spent, raced, consensusVars>>

---------------------------------------------------------------------------
(* The consensus task.                                                     *)

\* A block of transactions that the store will take, of this pool or not.
Mineable(b) ==
  /\ b \subseteq Acceptable
  /\ \A t \in b : Spends(t) \cap spent = {}
                  /\ Cardinality(Spends(t)) = Len(SpendsOf[t])
  /\ \A t, u \in b : t # u => Spends(t) \cap Spends(u) = {}

Entries(b) == {<<"tx", t>> : t \in b} \cup {<<"spend", n>> : n \in UNION {Spends(t) : t \in b}}

\* apply_block starts.  The pool is cleaned afterwards unless the root that
\* results is not the header's.
ApplyBlock(b) ==
  /\ writing = {} /\ removing = {}
  /\ Mineable(b)
  /\ writing' = UNION {Spends(t) : t \in b}
  /\ \/ removing' = Entries(b)
     \/ removing' = {}
  /\ UNCHANGED <<txs, pending, spent, raced, inserterVars>>

WriteNullifier(n) ==
  /\ n \in writing
  /\ spent' = spent \cup {n} /\ writing' = writing \ {n}
  /\ UNCHANGED <<txs, pending, raced, inserterVars, removing>>

\* Mutant: the pool is cleaned while the block is still being applied.
RemoveMinedEarly(e) ==
  /\ e \in removing
  /\ IF e[1] = "tx"
     THEN txs' = txs \ {e[2]} /\ UNCHANGED pending
     ELSE pending' = [pending EXCEPT ![e[2]] = NoTx] /\ UNCHANGED txs
  /\ removing' = removing \ {e}
  /\ UNCHANGED <<spent, raced, inserterVars, writing>>

\* remove_mined: one entry of one of the maps, a transaction before its spends.
\* A reservation goes whoever owns it.
RemoveMined(e) ==
  /\ writing = {} /\ e \in removing
  /\ IF e[1] = "tx"
     THEN txs' = txs \ {e[2]} /\ UNCHANGED pending
     ELSE /\ \A t \in Txs : e[2] \in Spends(t) => <<"tx", t>> \notin removing
          /\ pending' = [pending EXCEPT ![e[2]] = NoTx] /\ UNCHANGED txs
  /\ removing' = removing \ {e}
  /\ UNCHANGED <<spent, raced, inserterVars, writing>>

---------------------------------------------------------------------------
Init ==
  /\ txs = {} /\ spent = {}
  /\ pending = [n \in Nullifiers |-> NoTx]
  /\ job = [i \in Inserters |-> NoTx]
  /\ pc = [i \in Inserters |-> "idle"] /\ at = [i \in Inserters |-> 1]
  /\ raced = {} /\ writing = {} /\ removing = {}

InsertStep(i) ==
  \/ \E t \in Txs : Enter(i, t)
  \/ CheckKnown(i) \/ CheckStore(i) \/ CheckPool(i) \/ Reserve(i) \/ Put(i)

ConsensusStep ==
  \/ \E b \in SUBSET Txs : ApplyBlock(b)
  \/ \E n \in writing : WriteNullifier(n)
  \/ \E e \in removing : RemoveMined(e)

Next == (\E i \in Inserters : InsertStep(i)) \/ ConsensusStep

Spec == Init /\ [][Next]_vars

---------------------------------------------------------------------------
(* Properties.                                                             *)

Locations == {"idle", "known", "store", "pool", "reserve", "put"}

TypeOK ==
  /\ txs \subseteq Acceptable
  /\ pending \in [Nullifiers -> Txs \cup {NoTx}]
  /\ spent \subseteq Nullifiers /\ writing \subseteq Nullifiers
  /\ removing \subseteq ({"tx"} \X Txs) \cup ({"spend"} \X Nullifiers)
  /\ job \in [Inserters -> Txs \cup {NoTx}] /\ pc \in [Inserters -> Locations]
  /\ at \in [Inserters -> Nat]
  /\ raced \subseteq SUBSET Txs
  /\ \A i \in Inserters :
       /\ job[i] = NoTx <=> pc[i] = "idle"
       /\ pc[i] \in {"store", "pool", "reserve"} => at[i] \in DOMAIN SpendsOf[job[i]]

\* The callers that read the size before it was reached can overrun it, by one
\* each and no more (pool.rs 35 against 75).
SizeOverrunBounded == Cardinality(txs) <= MaxSize + Cardinality(Inserters) - 1

\* An unspent nullifier of a pooled transaction is reserved: neither a second
\* owner nor the cleaning after another's block frees it (pool.rs 117-124).
UnspentReserved ==
  \A t \in txs : \A n \in Spends(t) \ spent : pending[n] # NoTx

\* When nobody is at work, each reservation is owned by a pooled transaction:
\* no refused insert and no mined block locks a note for good (pool.rs 70-73).
NoOrphanReservation ==
  (\A i \in Inserters : pc[i] = "idle") /\ removing = {} =>
    \A n \in Nullifiers : pending[n] # NoTx => pending[n] \in txs

\* Two pooled transactions that want one unspent note were inserted at the same
\* time: callers that wait for each other never double spend, whatever blocks
\* were applied and cleaned up meanwhile (pool.rs 54-73 and 117-124).
DoubleSpendsRaced ==
  \A t, u \in txs :
    t # u /\ ~(Spends(t) \cap Spends(u) \subseteq spent) => {t, u} \in raced
=============================================================================
