-------------------------------- MODULE Node --------------------------------
(***************************************************************************)
(* Nodes put together: RPC and gossip fill the pools, a validator builds a *)
(* block from its pool and its store, and execute_and_apply_block takes a  *)
(* block to the store and the mined transactions out of the pool.  Which   *)
(* block is executed when is BftEngine's; here any block may reach any     *)
(* node, by agreement or by sync, and again.  The writes of one            *)
(* apply_block are StateStore's, the calls of one insert Mempool's; here   *)
(* each is one step.                                                       *)
(***************************************************************************)
EXTENDS BlockSelection

CONSTANTS
  Validators,   \* nodes started with a BLS key
  Observers,    \* the others
  Txs,          \* well-formed: [id, fee, gas, spends, outputs, proven]; a spend is its
                \* nullifier
  Provisioned,  \* transactions of the sealed blocks of a chain from elsewhere,
                \* from height 0; data directories may hold some of them
  MaxBlocks, MaxRestarts \* bounds of the model

Nodes == Validators \cup Observers

ASSUME NodeAssumption ==
  /\ Validators \cap Observers = {}
  /\ \A t \in Txs : t.gas \in Nat /\ t.outputs \in Nat /\ t.proven \in BOOLEAN
  /\ Provisioned \in Seq(Seq(Txs))
  /\ MaxBlocks \in Nat /\ MaxRestarts \in Nat

VARIABLES
  store,    \* of each node: tip (-1 when empty), spent nullifiers, leaves
  pool,     \* of each node: the transactions
  pending,  \* of each node: the nullifiers reserved
  blocks,   \* proposed so far, and those from elsewhere
  restarts

vars == <<store, pool, pending, blocks, restarts>>

---------------------------------------------------------------------------
(* The store.  The state root is the tree of the leaves, so two roots are  *)
(* equal when the leaves are.                                              *)

EmptyStore == [tip |-> -1, spent |-> {}, leaves |-> <<>>]

Leaves(txs) ==
  FlattenSeq([k \in DOMAIN txs |-> [m \in 1 .. txs[k].outputs |-> <<txs[k].id, m>>]])

Nullifiers(t) == ToSet(t.spends)

\* The spends of a block: by transaction, then by place in it.
Spends(txs) == UNION {{k} \X DOMAIN txs[k].spends : k \in DOMAIN txs}
NullifierAt(txs, p) == txs[p[1]].spends[p[2]]
Before(p, q) == p[1] < q[1] \/ (p[1] = q[1] /\ p[2] < q[2])

\* Those whose nullifier the store knows as spent, from before the block or
\* since an earlier spend of it.
Conflicts(s, txs) ==
  {p \in Spends(txs) : \/ NullifierAt(txs, p) \in s.spent
                       \/ \E q \in Spends(txs) : Before(q, p) /\ NullifierAt(txs, q) = NullifierAt(txs, p)}

\* apply_block: the first conflict ends it, and what was written stays: the
\* spends before it, and the outputs of the transactions before its own.
Failed(s, b) == b.height # s.tip + 1 \/ Conflicts(s, b.transactions) # {}
Spent(s, b) ==
  {NullifierAt(b.transactions, p) :
     p \in {q \in Spends(b.transactions) :
              /\ b.height = s.tip + 1
              /\ \A c \in Conflicts(s, b.transactions) : Before(q, c)}}
Written(s, b) ==
  LET whole == {k \in DOMAIN b.transactions : \A c \in Conflicts(s, b.transactions) : k < c[1]}
  IN IF b.height # s.tip + 1 THEN <<>> ELSE SubSeq(b.transactions, 1, Cardinality(whole))

\* What apply_block leaves.
AppliedTo(s, b) ==
  [tip |-> IF Failed(s, b) THEN s.tip ELSE b.height,
   spent |-> s.spent \cup Spent(s, b),
   leaves |-> s.leaves \o Leaves(Written(s, b))]

\* The chain from elsewhere: its proposers seal, and name the root after the
\* block.
SealedBlock(k, s) ==
  [height |-> k - 1, transactions |-> Provisioned[k], sealed |-> TRUE, proposer |-> "elsewhere",
   root |-> s.leaves \o Leaves(Provisioned[k])]
StoreAfter[k \in 0 .. Len(Provisioned)] ==
  IF k = 0 THEN EmptyStore ELSE AppliedTo(StoreAfter[k - 1], SealedBlock(k, StoreAfter[k - 1]))

ASSUME ChainAssumption == \A k \in 0 .. Len(Provisioned) : StoreAfter[k].tip = k - 1

SealedBlocks == {SealedBlock(k, StoreAfter[k - 1]) : k \in 1 .. Len(Provisioned)}

---------------------------------------------------------------------------
(* The pool.                                                               *)

\* insert, for a transaction that is well formed.
Inserted(n, t) ==
  t \notin pool[n] /\ Nullifiers(t) \cap (store[n].spent \cup pending[n]) = {}

Insert(n, t) ==
  /\ pool' = [pool EXCEPT ![n] = @ \cup {t}]
  /\ pending' = [pending EXCEPT ![n] = @ \cup Nullifiers(t)]

\* send_transaction of RPC, and a transaction that gossip brings to the pool.
Submit(n, t) ==
  /\ Inserted(n, t)
  /\ Insert(n, t)
  /\ UNCHANGED <<store, blocks, restarts>>

---------------------------------------------------------------------------
(* The engine.                                                             *)

\* Mutant: an empty store waits for height 0.
EngineHeightFromTip(n) == store[n].tip + 1

\* get_chain_height is 0 for a store without blocks.
EngineHeight(n) == (IF store[n].tip = -1 THEN 0 ELSE store[n].tip) + 1

\* Mutant: a proposer leaves out what it cannot verify.
CandidatesProven(n) == {t \in pool[n] : t.proven}

Candidates(n) == pool[n]

\* The builder reads the height and the root of the store itself; nothing
\* fills in the aggregate signature.
Built(n, selected) ==
  [height |-> store[n].tip + 1, transactions |-> BuildBlock(selected).transactions,
   sealed |-> FALSE, proposer |-> n, root |-> store[n].leaves]

Propose(n) ==
  /\ n \in Validators
  /\ Cardinality(blocks) < MaxBlocks + Len(Provisioned)
  /\ \E selected \in SelectForBlock(Candidates(n)) : blocks' = blocks \cup {Built(n, selected)}
  /\ UNCHANGED <<store, pool, pending, restarts>>

\* Mutants: the signature is not asked for; mined transactions are taken out
\* whatever the root.
AcceptsUnsealed(n, b) ==
  \A k \in DOMAIN b.transactions :
    (b.transactions[k].spends = <<>> \/ b.transactions[k].proven) /\ b.transactions[k].gas <= MaxTxGas
CleansAlways(n, b) == TRUE

\* What is checked before contracts run: the seal, by validators, and proof
\* and format of each transaction.
Accepts(n, b) ==
  /\ n \in Validators => b.sealed
  /\ \A k \in DOMAIN b.transactions :
       /\ b.transactions[k].spends = <<>> \/ b.transactions[k].proven
       /\ WellFormed(b.transactions[k])

\* remove_mined runs only after a block that was applied and has the root the
\* store then has.
Cleans(n, b) ==
  ~Failed(store[n], b) /\ AppliedTo(store[n], b).leaves = b.root

\* execute_and_apply_block of a block the engine committed to or was sent by
\* sync, at its height or above.  A wrong root is reported after the fact.
Execute(n, b) ==
  /\ b.height >= EngineHeight(n) /\ Accepts(n, b)
  /\ store' = [store EXCEPT ![n] = AppliedTo(@, b)]
  /\ IF Cleans(n, b)
     THEN /\ pool' = [pool EXCEPT ![n] = @ \ ToSet(b.transactions)]
          /\ pending' = [pending EXCEPT ![n] = @ \ UNION {Nullifiers(t) : t \in ToSet(b.transactions)}]
     ELSE UNCHANGED <<pool, pending>>
  /\ UNCHANGED <<blocks, restarts>>

\* The pool is not stored.
Restart(n) ==
  /\ restarts < MaxRestarts /\ pool[n] # {}
  /\ restarts' = restarts + 1
  /\ pool' = [pool EXCEPT ![n] = {}] /\ pending' = [pending EXCEPT ![n] = {}]
  /\ UNCHANGED <<store, blocks>>

---------------------------------------------------------------------------
\* A data directory is new or holds the chain from elsewhere up to some height,
\* but not its last block.
Init ==
  /\ store \in [Nodes -> {StoreAfter[k] : k \in 0 .. Len(Provisioned) - 1}]
  /\ pool = [n \in Nodes |-> {}] /\ pending = [n \in Nodes |-> {}]
  /\ blocks = SealedBlocks
  /\ restarts = 0

Next ==
  \E n \in Nodes :
    \/ \E t \in Txs : Submit(n, t)
    \/ Propose(n)
    \/ \E b \in blocks : Execute(n, b)
    \/ Restart(n)

Spec == Init /\ [][Next]_vars

---------------------------------------------------------------------------
(* Properties.                                                             *)

Restarted(n) == restarts' # restarts /\ pool'[n] = {}

\* The nodes alone never extend a chain by more than one block: what a
\* validator builds no validator applies, so proposals stay one above the
\* sealed chain, however many observers apply them (block_builder.rs 88-95
\* against engine.rs 98-101).
OneBlockAboveSealed == \A n \in Nodes : store[n].tip <= Len(Provisioned)

\* A node that starts with an empty store never gets a block, whatever it is
\* sent (engine.rs 263 against state.rs 67-80).
EmptyStoreStays == [][\A n \in Nodes : store[n].tip = -1 => store'[n].tip = -1]_vars

\* A pooled transaction whose note the store knows as spent stays in the pool
\* until a restart: nothing but a clean application of a block with it takes
\* it out, and no such block applies any more (pool.rs 117-124, engine.rs
\* 226-249).
StaleStaysPooled ==
  [][\A n \in Nodes : \A t \in pool[n] :
       Nullifiers(t) \cap store[n].spent # {} => t \in pool'[n] \/ Restarted(n)]_vars

\* A validator whose pool holds a transaction with a bad proof that every
\* selection takes, as one that pays and fits does, goes on holding it until a
\* restart, and each block it then proposes is one that no node accepts (pool.rs
\* 34-77 against engine.rs 119-135).
Poison(n) ==
  {t \in pool[n] :
     ~t.proven /\ t.spends # <<>> /\ \A selected \in SelectForBlock(pool[n]) : t \in ToSet(selected)}
ProposerPoisoned ==
  [][\A v \in Validators : Poison(v) # {} =>
       /\ Poison(v) \subseteq pool'[v] \/ Restarted(v)
       /\ \A b \in blocks' \ blocks : b.proposer = v => \A n \in Nodes : ~Accepts(n, b)]_vars
=============================================================================
