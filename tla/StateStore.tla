----------------------------- MODULE StateStore -----------------------------
(***************************************************************************)
(* StateStore of noirnet-storage, write by write.  apply_block writes to   *)
(* sled trees one key at a time under the mutex of the commitment tree;    *)
(* prune_history runs in another task and does not take that mutex.  A     *)
(* crash loses what is in memory and keeps the writes made so far (sled    *)
(* recovers a prefix of its log; losing more of the end is an earlier      *)
(* crash).  The transactions of a block are stored, and deleted, at once;  *)
(* I/O errors are left out.                                                *)
(***************************************************************************)
EXTENDS Integers, Sequences

CONSTANTS
  Blocks, BlockHeight,
  BlockOps,     \* spends and outputs of a block, in transaction order
  BlockTxs,     \* ids of its transactions
  NoBlock,
  KeepLast,     \* heights kept by prune_history (1000 in the node)
  MaxHeight, MaxCrashes, MaxRefused \* bounds of the model

Heights == 0 .. MaxHeight
Spends(b) == {i \in DOMAIN BlockOps[b] : BlockOps[b][i][1] = "spend"}
Outputs(b) == {i \in DOMAIN BlockOps[b] : BlockOps[b][i][1] = "output"}
SpentIn(b) == {BlockOps[b][i][2] : i \in Spends(b)}
Nullifiers == UNION {SpentIn(b) : b \in Blocks}
Commitments == UNION {{BlockOps[b][i][2] : i \in Outputs(b)} : b \in Blocks}
Ops == ({"spend"} \X Nullifiers) \cup ({"output"} \X Commitments)
AllTxs == UNION {BlockTxs[b] : b \in Blocks}

ASSUME StoreAssumption ==
  /\ BlockHeight \in [Blocks -> Heights]
  /\ BlockOps \in [Blocks -> Seq(Ops)]
  /\ NoBlock \notin Blocks
  /\ KeepLast \in Nat
  /\ MaxHeight \in Nat /\ MaxCrashes \in Nat /\ MaxRefused \in Nat

VARIABLES
  \* in the database
  spent,        \* CF_NULLIFIERS
  leaves,       \* CF_COMMITMENTS: <<index, commitment>>
  frontier, size, \* CF_TREE: the leaves folded into the stored frontier; the count
  anchors, contracts, \* roots; blocks whose contract changes are written
  bodies, txs,  \* CF_BLOCKS, CF_TXS
  tip,          \* chain_height, -1 when absent
  index,        \* height_hash_*
  \* in memory
  tree,         \* the NoteCommitmentTree behind the mutex
  applying, ops, step, \* apply_block: its block, what is left of it, the write to come
  pruneNext, pruneEnd, victim, \* prune_history's loop and the block it deletes
  crashes, refused, \* counters: processes that died, blocks refused half way
  applied       \* history: blocks whose chain_height was written, in order

chainVars == <<tip, applied>>
treeVars == <<leaves, frontier, size, tree>>
applyVars == <<applying, ops, step>>
pruneVars == <<pruneNext, pruneEnd, victim>>
counters == <<crashes, refused>>
vars == <<spent, treeVars, anchors, contracts, bodies, txs, chainVars, index,
          applyVars, pruneVars, counters>>

EmptyTree == [frontier |-> <<>>, size |-> 0]

\* NoteCommitmentTree::append in memory, and root, which reads both fields.
AppendLeaf(t, c) == [frontier |-> Append(t.frontier, c), size |-> t.size + 1]
Root(t) == t

---------------------------------------------------------------------------
(* apply_block.                                                            *)

ExpectedHeight == tip + 1

\* Mutant: the height and its index are written before the body.
AfterIndexFirst(s) ==
  CASE s = "frontier" -> "size" [] s = "size" -> "ops"
    [] s = "anchor" -> "contracts" [] s = "contracts" -> "height"
    [] s = "height" -> "index" [] s = "index" -> "body"
    [] s = "body" -> "txs" [] OTHER -> "idle"

\* The order of the writes.
After(s) ==
  CASE s = "frontier" -> "size" [] s = "size" -> "ops"
    [] s = "anchor" -> "contracts" [] s = "contracts" -> "body"
    [] s = "body" -> "txs" [] s = "txs" -> "height"
    [] s = "height" -> "index" [] OTHER -> "idle"

\* Leaving apply_block releases the mutex.
GoTo(s) ==
  /\ step' = s
  /\ applying' = IF s = "idle" THEN NoBlock ELSE applying

Write(s) == step = s /\ GoTo(After(s)) /\ UNCHANGED <<ops, pruneVars, counters>>

\* Mutant: the height is not checked.
BeginAnyHeight(b) ==
  /\ step = "idle" /\ refused < MaxRefused
  /\ step' = "ops" /\ applying' = b /\ ops' = BlockOps[b]
  /\ UNCHANGED <<spent, treeVars, anchors, contracts, bodies, txs, chainVars, index,
                 pruneVars, counters>>

\* A block of another height is refused before anything is written.
Begin(b) ==
  /\ step = "idle" /\ refused < MaxRefused
  /\ BlockHeight[b] = ExpectedHeight
  /\ step' = "ops" /\ applying' = b /\ ops' = BlockOps[b]
  /\ UNCHANGED <<spent, treeVars, anchors, contracts, bodies, txs, chainVars, index,
                 pruneVars, counters>>

\* The loop over the spends and outputs is at one of this kind.
At(kind) == step = "ops" /\ ops # <<>> /\ Head(ops)[1] = kind
Arg == Head(ops)[2]

\* Mutant: the nullifier is inserted without looking.
SpendUnchecked ==
  /\ At("spend")
  /\ spent' = spent \cup {Arg}
  /\ ops' = Tail(ops)
  /\ UNCHANGED <<treeVars, anchors, contracts, bodies, txs, chainVars, index, applying,
                 step, pruneVars, counters>>

\* A known nullifier ends apply_block with DoubleSpend and undoes nothing.
Spend ==
  /\ At("spend")
  /\ IF Arg \in spent
     THEN /\ GoTo("idle") /\ ops' = <<>> /\ refused' = refused + 1
          /\ UNCHANGED spent
     ELSE /\ spent' = spent \cup {Arg} /\ ops' = Tail(ops)
          /\ UNCHANGED <<applying, step, refused>>
  /\ UNCHANGED <<treeVars, anchors, contracts, bodies, txs, chainVars, index,
                 pruneVars, crashes>>

\* append: the leaf is stored, the tree in memory updated, then the frontier and
\* the size are stored.  apply_block stores the same leaf again afterwards.
Output ==
  /\ At("output")
  /\ leaves' = {l \in leaves : l[1] # tree.size} \cup {<<tree.size, Arg>>}
  /\ tree' = AppendLeaf(tree, Arg)
  /\ ops' = Tail(ops) /\ GoTo("frontier")
  /\ UNCHANGED <<spent, frontier, size, anchors, contracts, bodies, txs, chainVars,
                 index, pruneVars, counters>>

StoreFrontier ==
  /\ Write("frontier")
  /\ frontier' = tree.frontier
  /\ UNCHANGED <<spent, leaves, size, tree, anchors, contracts, bodies, txs, chainVars, index>>

\* Mutant: stores the index of the leaf instead of the count.
StoreSizeOffByOne ==
  /\ Write("size")
  /\ size' = tree.size - 1
  /\ UNCHANGED <<spent, leaves, frontier, tree, anchors, contracts, bodies, txs, chainVars, index>>

StoreSize ==
  /\ Write("size")
  /\ size' = tree.size
  /\ UNCHANGED <<spent, leaves, frontier, tree, anchors, contracts, bodies, txs, chainVars, index>>

\* The loop has ended: the new root is stored as an anchor.
StoreAnchor ==
  /\ step = "ops" /\ ops = <<>>
  /\ anchors' = anchors \cup {Root(tree)}
  /\ GoTo(After("anchor"))
  /\ UNCHANGED <<spent, treeVars, contracts, bodies, txs, chainVars, index, ops,
                 pruneVars, counters>>

StoreContracts ==
  /\ Write("contracts")
  /\ contracts' = contracts \cup {applying}
  /\ UNCHANGED <<spent, treeVars, anchors, bodies, txs, chainVars, index>>

PutBody ==
  /\ Write("body")
  /\ bodies' = bodies \cup {applying}
  /\ UNCHANGED <<spent, treeVars, anchors, contracts, txs, chainVars, index>>

PutTxs ==
  /\ Write("txs")
  /\ txs' = txs \cup BlockTxs[applying]
  /\ UNCHANGED <<spent, treeVars, anchors, contracts, bodies, chainVars, index>>

PutHeight ==
  /\ Write("height")
  /\ tip' = BlockHeight[applying]
  /\ applied' = Append(applied, applying)
  /\ UNCHANGED <<spent, treeVars, anchors, contracts, bodies, txs, index>>

PutIndex ==
  /\ Write("index")
  /\ index' = [index EXCEPT ![BlockHeight[applying]] = applying]
  /\ UNCHANGED <<spent, treeVars, anchors, contracts, bodies, txs, chainVars>>

ApplyStep ==
  \/ Spend \/ Output \/ StoreFrontier \/ StoreSize \/ StoreAnchor \/ StoreContracts
  \/ PutBody \/ PutTxs \/ PutHeight \/ PutIndex

---------------------------------------------------------------------------
(* prune_history and delete_block.                                         *)

NotApply == UNCHANGED <<spent, treeVars, anchors, contracts, chainVars, applyVars, counters>>

\* The chain height is read once, before the loop over the old heights.
PruneBegin ==
  /\ pruneNext = pruneEnd /\ victim = NoBlock
  /\ tip > KeepLast
  /\ pruneNext' = 0 /\ pruneEnd' = tip - KeepLast
  /\ NotApply /\ UNCHANGED <<bodies, txs, index, victim>>

\* Mutant: the body goes before the index entry that points at it.
PruneIndexLate ==
  /\ pruneNext < pruneEnd /\ victim = NoBlock
  /\ victim' = index[pruneNext]
  /\ pruneNext' = pruneNext + 1
  /\ NotApply /\ UNCHANGED <<bodies, txs, index, pruneEnd>>

PruneIndex ==
  /\ pruneNext < pruneEnd /\ victim = NoBlock
  /\ victim' = index[pruneNext]
  /\ index' = [index EXCEPT ![pruneNext] = NoBlock]
  /\ pruneNext' = pruneNext + 1
  /\ NotApply /\ UNCHANGED <<bodies, txs, pruneEnd>>

PruneTxs ==
  /\ victim \in bodies /\ txs \cap BlockTxs[victim] # {}
  /\ txs' = txs \ BlockTxs[victim]
  /\ NotApply /\ UNCHANGED <<bodies, index, pruneVars>>

\* Mutant: the body goes before the transactions read from it.
PruneBodyFirst ==
  /\ victim # NoBlock
  /\ bodies' = bodies \ {victim}
  /\ victim' = NoBlock
  /\ NotApply /\ UNCHANGED <<txs, index, pruneNext, pruneEnd>>

PruneBody ==
  /\ victim # NoBlock
  /\ victim \in bodies => txs \cap BlockTxs[victim] = {}
  /\ bodies' = bodies \ {victim}
  /\ victim' = NoBlock
  /\ NotApply /\ UNCHANGED <<txs, index, pruneNext, pruneEnd>>

---------------------------------------------------------------------------
\* The process dies; StateStore::open reads the tree back.
Crash ==
  /\ crashes < MaxCrashes
  /\ crashes' = crashes + 1
  /\ tree' = [frontier |-> frontier, size |-> size]
  /\ applying' = NoBlock /\ ops' = <<>> /\ step' = "idle"
  /\ pruneNext' = 0 /\ pruneEnd' = 0 /\ victim' = NoBlock
  /\ UNCHANGED <<spent, leaves, frontier, size, anchors, contracts, bodies, txs,
                 chainVars, index, refused>>

Init ==
  /\ spent = {} /\ leaves = {} /\ frontier = <<>> /\ size = 0 /\ tree = EmptyTree
  /\ anchors = {} /\ contracts = {} /\ bodies = {} /\ txs = {}
  /\ tip = -1 /\ applied = <<>>
  /\ index = [h \in Heights |-> NoBlock]
  /\ applying = NoBlock /\ ops = <<>> /\ step = "idle"
  /\ pruneNext = 0 /\ pruneEnd = 0 /\ victim = NoBlock
  /\ crashes = 0 /\ refused = 0

Next ==
  \/ \E b \in Blocks : Begin(b)
  \/ ApplyStep
  \/ PruneBegin \/ PruneIndex \/ PruneTxs \/ PruneBody
  \/ Crash

Spec == Init /\ [][Next]_vars

---------------------------------------------------------------------------
(* Properties.                                                             *)

Steps == {"idle", "ops", "frontier", "size", "contracts", "body", "txs", "height", "index"}
Trees == [frontier : Seq(Commitments), size : Nat]

TypeOK ==
  /\ spent \subseteq Nullifiers
  /\ leaves \subseteq Nat \X Commitments
  /\ frontier \in Seq(Commitments) /\ size \in Nat
  /\ tree \in Trees /\ anchors \subseteq Trees
  /\ contracts \subseteq Blocks /\ bodies \subseteq Blocks /\ txs \subseteq AllTxs
  /\ tip \in Heights \cup {-1} /\ applied \in Seq(Blocks)
  /\ index \in [Heights -> Blocks \cup {NoBlock}]
  /\ step \in Steps /\ ops \in Seq(Ops)
  /\ applying \in Blocks \cup {NoBlock} /\ (applying = NoBlock <=> step = "idle")
  /\ pruneNext \in Heights /\ pruneEnd \in Heights
  /\ victim \in Blocks \cup {NoBlock}
  /\ crashes \in Nat /\ refused \in Nat

\* A height that get_block_by_height knows leads to a stored block of that
\* height, for a reader that runs beside apply_block and prune_history and
\* after any crash (state.rs 138-150 against 116-122 and 227-231).
IndexNeverDangling ==
  \A h \in Heights :
    index[h] # NoBlock => index[h] \in bodies /\ BlockHeight[index[h]] = h

\* The last KeepLast + 1 blocks are stored, whatever the pruning task's reading
\* of the chain height and a crash did (state.rs 213-240, height after body).
RecentBlocksStored ==
  \A i \in DOMAIN applied :
    BlockHeight[applied[i]] >= tip - KeepLast => applied[i] \in bodies

\* A transaction that get_transaction finds belongs to a block whose body is
\* stored, wherever a crash cuts a put or a deletion short (block_store.rs
\* 23-34 and 57-67).  The block may have left the index.
TxsHaveBlock == txs \subseteq UNION {BlockTxs[b] : b \in bodies}

\* No nullifier is spent twice by the chain, in one block or in two, across
\* refused blocks and crashes (state.rs 86-93).
SpentOnce ==
  \A i, j \in DOMAIN applied :
    \A k \in Spends(applied[i]), m \in Spends(applied[j]) :
      BlockOps[applied[i]][k] = BlockOps[applied[j]][m] => i = j /\ k = m

\* The block index is the ledger its readers expect: the tip rises by one, each
\* height is recorded once and only forgotten below the tip.
L == INSTANCE Ledger WITH tip <- tip, index <- index
LedgerSpec == L!Spec

\* Every leaf the tree counts is stored, after any crash; until a crash, between
\* two appends the stored tree is the tree in memory, and its leaves are the
\* leaves stored, also after a block refused half way (merkle.rs 41-63).
TreeMatchesStore ==
  /\ \A i \in 0 .. size - 1 : \E l \in leaves : l[1] = i
  /\ crashes = 0 /\ step \notin {"frontier", "size"} =>
       /\ frontier = tree.frontier /\ size = tree.size
       /\ leaves = {<<i - 1, frontier[i]>> : i \in 1 .. size}
=============================================================================
