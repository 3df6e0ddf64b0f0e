# Verification of NoirNet

TLA+ specifications of the NoirNet node (Rust workspace under `crates/` and
`bin/`), TLC instances that check them, and theorems about them checked by
TLAPS.

## The system

| Component | State | Operations | Interacts with |
| --- | --- | --- | --- |
| Consensus engine (`noirnet-consensus/src/engine.rs`, `bft.rs`) | height and round of its loops, `BftRoundState`, `current_block` | arms of the `select!` in `run`: proposal, vote, sync request, sync response, timeout; `execute_and_apply_block` | store (apply, read), mempool (select, remove), network (channels) |
| Sync manager (`sync.rs`) | `is_syncing`, `target_height`, `current_request` | `handle_peer_height`, `start_sync`, `check_sync_status` | called by the engine |
| State store (`noirnet-storage/src`) | sled trees: nullifiers, commitments, tree, anchors, contracts, blocks, transactions, metadata; `NoteCommitmentTree` under a mutex | `apply_block`, `prune_history`, readers | engine, pruning task, RPC, mempool |
| Mempool (`noirnet-mempool/src/pool.rs`) | two concurrent maps | `insert`, `select_for_block`, `remove_mined` | RPC handlers, gossip task, engine |
| Fee market (`fee_market.rs`), rewards (`block.rs`) | `base_fee` | `adjust_base_fee`, `split_fee`, `compute_block_reward` | none yet |
| Block builder, leader, epoch, slashing | none, or the validator record | pure functions over the store and the set | engine |
| Network service (`noirnet-network/src/p2p.rs`) | two bounded command channels, five bounded output channels | `run`, `handle_swarm_event`, `handle_command` | engine, mempool task, RPC |
| Dandelion (`dandelion.rs`) | per-transaction phase and deadline, successor | `route_tx`, `flush_expired_stems`, `rotate_successor` | not called by the node |
| VM and token contract | state diff, gas of one call | `execute`, host functions | engine |
| RPC (`noirnet-rpc`) | none | `send_transaction`, `get_sync_status`, readers | mempool, network, store |
| Wallet and CLI (`noirnet-wallet`, `noirnet-cli`) | scanned notes, height of the scan | `scan_block`, the three builders, `send`, `generate-keys` | RPC |
| Cryptography, zk | none | pure functions | all |

`PROJECT.json` lists each with its sources and what is modelled of it.

What is hard here: votes, proposals, timeouts and restarts in any order; a sync
whose answers come late, short or never, under an inner loop that keeps a stale
height; a store written key by key beside a pruning task and without a
transaction; check-then-act over two concurrent maps; bounded channels between
tasks that each wait for the other; what one part takes for granted of another (a seal, a root, a
proof, a height) and no part provides. What makes the parts correct: what is
precommitted or committed rests on a quorum of signatures (engine); the chain only grows (engine, store); a
reader never finds a dangling or second block at a height, and no note is spent
twice (store); the pool is bounded and reserves each note it holds (mempool);
each wait ends unless two tasks wait for each other (network service); a call
that fails leaves nothing, and tokens are conserved (contracts); a stem never
loops and always ends in a broadcast (Dandelion); each validator leads for its
share of the draws (elections); the incremental tree is the full one (store); a
note is read by whom it was sent to, and by nobody else (wallet); what is signed
cannot be changed (transactions).

## Modules

| Module | Models | Composition |
| --- | --- | --- |
| `BftQuorum` | the three quorum rules | used by `BftEngine` |
| `BftEngine` | `ConsensusEngine::run`, `BftRoundState`, `SyncManager`, for a set of nodes | the network is a pair of growing sets |
| `MCBftEngine` | instances | |
| `BftEngineProofs` | theorems about `BftQuorum` and `BftEngine` | |
| `Ledger` | what a reader of the block index may rely on | abstract |
| `StateStore` | `apply_block`, `append`, `put_block`, `prune_history`, `delete_block`, a crash | implements `Ledger` |
| `MCStateStore`, `StateStoreProofs` | instances, theorems | |
| `Mempool` | `insert`, `remove_mined`, the consensus task beside them | |
| `MCMempool`, `MempoolProofs` | instance, theorems | |
| `Node` | proposer, pool, store and engine of several nodes together | takes the selection and the packing from `BlockSelection`; one step where `StateStore`, `Mempool` and `BftEngine` have many |
| `MCNode`, `NodeProofs` | instance, theorems | `NodeProofs` cites `AlgorithmsProofs` for what a selection takes |
| `NetworkChannels` | the service loop and the bounded channels of `main.rs`, with the engine, the mempool's task and the RPC handlers as their ends | `BftEngine` and `Mempool` model what those tasks do with the messages |
| `StatusLine` | what the callers of `get_sync_status` are promised | abstract, implemented by `NetworkChannels` |
| `MCNetworkChannels`, `NetworkChannelsProofs` | instance, theorems | |
| `ContractCalls` | the VM calls of a block, the token contract, what `apply_block` keeps of them | the contract entries that `StateStore` writes as one |
| `MCContractCalls`, `ContractCallsProofs` | instance, theorems | |
| `LeaderElection` | `get_validator_set`, `elect_leader`, `LeaderSelector`, `apply_double_sign_evidence` | the constant `Leader` of `BftEngine` |
| `BlockSelection` | `select_for_block`, the packing of `build_block` | used by `Node` |
| `NoteTree` | `append` and `root` of the note tree | why `StateStore` may represent a frontier by its leaves |
| `ShieldedNotes` | keys, addresses, notes, their encryption, `scan_block` | |
| `ProtocolConstants` | `constants.rs` | used by the next three |
| `WalletTx` | builders, `send` and `generate-keys`, `validate_format`, binding signature, spend proof | extends `ShieldedNotes` |
| `FeeMarket` | `adjust_base_fee`, `split_fee`, `compute_block_reward` | |
| `GossipCodec` | topics, encoding and decoding of a vote | what `BftEngine` takes for granted |
| `MCAlgorithms` | bounded inputs for these modules | |
| `AlgorithmsProofs` | theorems about them | extends `MCAlgorithms`, so that they also speak of its runs |
| `Dandelion` | `DandelionRouter` at several peers | |
| `MCDandelion`, `DandelionProofs` | instance, theorems | |

In every module an operator commented "Mutant" is a plausible wrong version of
the definition that follows; the runs' properties are tested against them.

### BftEngine

The engine is one tokio task. An arm of its `select!` awaits channel sends, but
no other code touches the engine's state meanwhile, so an arm is one action:
`ReceiveProposal` and `ReceiveBlockAhead` (block_rx), `ReceiveVote` (vote_rx),
`ReceiveSyncResponse` (sync_req_rx at the peer and sync_res_rx at the node),
`Timeout`. Leaving the inner loop re-enters the outer one in the same action
(`EnterHeight`), which reads the store, resets the round state and may propose.
`Restart` keeps the store and the messages already sent, and nothing else.

Gossip is the sets `proposed` and `votes`: a message in them may be received at
any later time, again, or never. `External` are blocks broadcast by other
programs.

A vote is checked as `engine.rs:341-351` checks it, and no further. Its signature
covers the block hash and nothing else, so whoever has signed a block in any vote
(`HasSigned`) is counted for it under whatever type, height and round a sender
writes on the vote; the engine's own id is counted like another's. Ids in `Faulty`
sign anything, nobody signs for another, and without a validator set nothing is
checked at all (`Passes`). Two blocks can therefore each have a commit quorum in
one round, and agreement within a round is no property of this code. What holds
is stated instead:
- nothing is precommitted, and no chain grows outside a sync, before a quorum of
  the registered validators has signed a block at all (`PrecommitBacked`,
  `CommitNeedsQuorum`). Of a network without a validator set neither says anything;
- votes cannot be moved to a block nobody has seen proposed: each block voted for
  was prevoted once as a proposal of its own height, unless the faulty validators are
  a quorum by themselves (`VotesStartAtProposal`);
- an engine's own precommits, which no label of others can change, are one per
  round unless it re-runs the height (`OnePrecommit`).

Blocks are model values with a height and a sequence of nullifiers; `Valid` are
those that pass the checks of `execute_and_apply_block`, format and proofs among
them, `Sealed` those that carry an aggregate signature (validators demand one, and
the builder never makes one). The store of a node is the sequence of its blocks
above genesis and the set of nullifiers it holds. `apply_block` refuses a block of
another height, and one that spends a nullifier the store holds or has just got
from the same block; what it wrote before it met the conflict stays, and may get a
later block refused (`Inserted`). In both cases, as after a check of the engine, the
height is run again.

What this takes for granted:
- the messages of an engine decode at its peers. In the code gossip is written
  with `bincode::serialize` (fixed width) and read with
  `bincode::DefaultOptions` (varint), and the topic is picked by its position in
  an iterator; `GossipCodec` shows that so encoded no vote arrives. Votes that never
  arrive are among the model's behaviours, so the safety properties cover it;
- each validator has its own id. `main.rs` gives every devnet node the id
  `[1; 32]`, and nothing in the repository fills the validator tree: the engine
  is modelled for whichever set its store returns, including the empty one;
- a peer has not pruned what it is asked for;
- a sync request goes to `PeerId::random()` (`engine.rs:314`), and its
  `OutboundFailure` is ignored (`p2p.rs:199`): no answer ever comes, which is
  `PeerAddressable = FALSE`. `TRUE` exercises the handler of responses as if requests
  reached a peer, and nothing is claimed of it but safety.

### StateStore

One action per key written, in the order of the code (`After`), under the mutex
that `apply_block` holds from start to end. `prune_history` takes no mutex: its
chain height is read once (`PruneBegin`) and its removals interleave with the
writes. `Crash` keeps every write made so far, since sled recovers a prefix of its log,
and reopens the tree from the stored frontier and size. The frontier is
represented by the sequence of leaves folded into it and the root by the pair of
frontier and size; the transactions of a block are written at once.

`Ledger` is the abstract specification of the index: the tip rises by one, a
height is recorded once, and forgotten only below the tip. `StateStore`
implements it with the identity mapping on `tip` and `index`; the tip and its index entry are
two writes, which is why `Ledger` has them as two steps.

### Mempool

Each call on a `DashMap` or on the store is atomic; `insert` is the sequence of
such calls, so each is an action, with a program counter per caller. The callers
are the task fed by gossip and the RPC handlers. The consensus task applies a
block nullifier by nullifier and then removes its entries in the order of
`remove_mined`; when the resulting root is not the header's the code returns
before the removal (`ApplyBlock`, second alternative). `raced` is history: which
transactions competing for a note were inserted at the same time.

### Node

What the parts assume of each other, for validators and observers that share
blocks. Any node may execute any block at any time its height allows: agreement
and sync, which decide that in the code, are `BftEngine`'s, and less is assumed
here. `Propose` is `select_for_block` and `build_block`; `Execute` is
`execute_and_apply_block` with `apply_block` (`AppliedTo`: the prefix up to the
first conflict is written, within a transaction of several spends too) and `remove_mined` when the root agrees (`Cleans`);
`Submit` is `insert` from RPC or gossip; `Restart` forgets the pool.

A header names the root before its block, since the builder reads it from the
store, and `apply_block` compares with the root after it. A validator accepts
sealed blocks only, and the builder seals none. So a chain can only come from
elsewhere: `Provisioned` are the transactions of a chain whose proposers seal and
name the right root, and a data directory holds some of its blocks or none. Its
last block is held by nobody at first, so that it too can be executed. Left out
of `Accepts` is the comparison of block time with the clock. A state root is the
sequence of leaves; two roots are equal when these are. Observers propose
nothing, because `propose_block` needs a BLS key.

### NetworkChannels

A message is the task that sent it; its content decides nothing here. A send to
a full channel suspends the task, and waiters get free places in the order they
came (`waiting`, as in tokio's mpsc). The service's biased select is `HandleHigh`
before `HandleSwarm` before `HandleLow`; `HandleSwarm` forwards what the network
brings, and for a transaction first sleeps (`EndJitter`). The engine receives
and may send the commands that its arms send (`Commands`); one arm sends one
command, or none. An RPC handler that asked for a status waits at "reply" until
the service has taken its command.

The service and the engine can wait for each other: the service for room in one
of the engine's channels, the engine for room in a lane. Each of the two awaits
without a timeout, so `MutualWait` is reachable; `MutualWaitIsFinal` says it is
never left, and the liveness properties hold up to it.

`StatusLine` is the abstract promise to the callers of `get_sync_status`: one
line, first come first served, nobody in it twice. `NetworkChannels` implements it with
the refinement mapping `StatusRequests`: the handlers' commands in the high lane, then
those suspended in front of it, in order.

### ContractCalls

A call is one step per host function (`HostCall`), which charges its gas first.
Wasm instructions between them, fuel and the deadline of wall-clock time are
`Fail`, which may end a call at any point. A call reads its own writes and the
committed state, not what earlier calls of the block wrote; the block's changes
are merged in order and stored by `apply_block`: code first, then the entries,
the height last, with a crash in between (`CrashInApply`). `reminted` and `torn`
are history: the contract lets anyone call init again, and a torn block is
executed again on what the crash left; both end what `SupplyConserved` claims.
The two accounts are the treasury and one recipient, as in the contract.

### Algorithms

`LeaderElection`, `BlockSelection`, `NoteTree`, `ShieldedNotes`, `WalletTx`,
`FeeMarket` and `GossipCodec` have no state of their own. `MCAlgorithms` has one
step, which picks an input. Each module states what is to hold of its operators:

- elections: a validator's number of draws is its share of the stake, up to the
  last incomplete turn (sorting is by rank: whoever has k others ahead is at k + 1), and evidence takes the accused out of every set;
- selection: a transaction is left out only for better ones that fill the block.
  `build_block` has its own cut at the gas limit, which a selection never meets: it
  fits already;
- the tree: the root is that of the full binary tree. A tree with 2^Depth
  leaves has the root of the empty one, so the reference ends just below;
- notes: hashes, keys and ciphertexts are terms, equal when derived alike, and the
  AEAD opens only what was sealed with the same key and nonce and came whole. A
  note is read by the holder of the X25519 key it was sent to, the sender gets
  back key and randomness, nullifiers and memos open to their owner. The same
  property says which notes are lost: those sent to what `payment_address` hands
  out, which is a hash and no curve point, and those committed with
  `commitment.rs`, whose order of fields is not that of `note.rs`;
- the scan: whatever is scanned, in any order and again, the balance stays 0. A
  compact output keeps 52 bytes, the scan pads them, and no key authenticates that;
- transactions: which arguments of `send` make a transaction that `validate_format`
  admits, and that its proof then does not pass, unless amount and fee sum to 2
  modulo 2^64 (the mock proof multiplies the input by 1 and compares with 2);
  which changes a binding signature on a built transfer, call or deployment notices,
  and which not. Only the tests of `keys.rs` call `verify_binding_sig`: no part of
  the node looks at the signature;
- fees: within twice the target the base fee follows demand by an eighth at
  most, and below 8, its floor included, it does not rise; burned and paid
  parts add to the fee; the reward never rises and never ends. The code computes
  the adjustment in floating point, exact for the targets checked and taken as exact by the theorems. The product of
  base fee and gas in `split_fee` is taken not to overflow;
- gossip: an integer of variable width takes an odd number of bytes, so three of
  them are never the sixteen that a vote was written with, whatever the
  topics' order.

Integers of 64 bits wrap at `Word`, or panic when the build checks overflows
(`checked`). Cryptographic assumptions are in the terms and not examined.

### Dandelion

A `ForwardTo` is a message to the peer it names, who routes it with the sender as
`from`; it may be lost. Every router's successor may change at any time. The coin
may always fall on either side, so a router in its fluff phase (`FluffNodes`)
adds no behaviour, and the run has none. Time is `Expire`: the deadline of an
entry passes at some point. `forwards`, `fluffs` and `public` are history. The
node creates no router; the model has the callers that its comments ask for.

## Runs

| Run | Instance | Shows |
| --- | --- | --- |
| `BftFaulty` | engine n1 and validator f1, who signs anything, both registered; blocks a and b of one height, b refused for its second spend; rounds 0 and 1, one restart | `OnePrecommit`, `VotesStartAtProposal`, `PrecommitBacked`, `RerunOnlyIfRejected` |
| `BftSync` | observer n1 and validator n2, the only one registered; consecutive blocks that spend; gap and limit 1; one restart | `SyncNeverStalls`, `CommitNeedsQuorum`, `RerunOnlyIfRejected` |
| `StoreCrash` | five blocks of heights 0 to 3, two competing, three crashes, three refusals, pruning keeps 1 | `IndexNeverDangling`, `RecentBlocksStored`, `TxsHaveBlock`, `SpentOnce`, `LedgerSpec`; until a crash also `TreeMatchesStore` |
| `PoolInsert` | five transactions over three notes, two callers, size 2 | `SizeOverrunBounded`, `UnspentReserved`, `NoOrphanReservation`, `DoubleSpendsRaced` |
| `ChannelWait` | two RPC handlers, every channel of one place | `ReplyPending`, `StatusLineSpec`, `MutualWaitIsFinal`, `StatusAnsweredUnlessStuck`, `ServiceResumesUnlessStuck` |
| `TokenCalls` | blocks of one or two calls, four heights, one crash; gas that suffices for a call, and one unit less | `SupplyConserved`, `StateNeedsCode`, `BlockEffect` |
| `NodeLife` | validator v and observer o; a transfer of two notes, a rival for the second, one transaction with a bad proof, one call; a sealed chain of two blocks; two proposals, one restart | `OneBlockAboveSealed`, `EmptyStoreStays`, `StaleStaysPooled`, `ProposerPoisoned` |
| `Algorithms` | the inputs named in `MCAlgorithms` | `LeaderShares`, `SelectionGreedy`, `TreeRoot`, `NoteReaders`, `WalletScans`, `WalletTransactions`, `FeesAndRewards`, `VotesReceived` |
| `StemRing` | three routers, one transaction handed in again and again | `ForwardedOnce`, `FluffedOnce`, `StemEndsInFluff` |

`BftCommit`, `BftSyncLost` and `DefaultFee` end in a counterexample (below).
The largest are `BftFaulty` with 864 000 distinct states, `BftSync` with 198 000 and
`NodeLife` with 180 000.

`SyncNeverStalls` says that a request is out, not that it gets anywhere: with the
random addressee of the code it is out for ever (`BftSyncLost`). `FluffedOnce` counts
what a router remembers as fluffed; the broadcast of a router without a successor is
not remembered, and may be repeated.

The bounds are chosen so that each hazard can occur: two competing blocks; a
quorum that needs another signer, who may give the same signature to every vote; a
response shorter than the gap; a block that fails after it has written, and another
that fails for what it left; pruning that has something to
prune while the next block is written; two callers for one last place in the
pool; channels that each task can fill alone; a ring of routers longer than the
two that the check on `from` excludes; a sealed block that conflicts with what is
pooled, and an observer that applies what a validator refuses.

| In the instances | In the code |
| --- | --- |
| `SyncGap`, `SyncLimit`: 1 or 2 | 5 and 50 |
| `KeepLast`: 1 | 1000 |
| `MaxSize`: 2 | 10000 |
| `Capacity`: 1 | 100, 500 for the low lane |
| `Supply`, `Amount`: 4 and 2 (two transfers empty the treasury, a third is refused) | 1 000 000 000 and 1000 |
| `Draws`: 16, more than a full turn of every total of stakes in the instance, so that a last incomplete turn occurs | 2^128 |
| `MaxTxs`, `MaxBlockGas`, `MaxTxGas`: 3, 4, 2, each of them reached | 10000 and the two gas limits |
| `Depth`: 4 | 32 |
| `MaxTxs`, `MaxBlockGas` in `NodeLife`: 5, room for the whole pool | as above |
| `MaxMemo`: 3, memos up to one more | 512 |
| `Word`: 2^21, twice the highest fee tier, with amounts at both ends | 2^64 |
| base fees 1 to 9, 16 and 100, targets 4 and 8, up to two blocks | any `u64` |

`MaxRound`, `MaxRestarts`, `MaxCrashes`, `MaxRefused`, `MaxExecutions`, `MaxBlocks`
and `MaxHeight` bound what the code does not. A leader with no block of its height
among `Blocks` proposes nothing, another bound.

Deadlock is checked in `PoolInsert` only. With every vote counted and every
bound reached, an engine waits for messages, a store or a contract with no further
block rests, nodes with the same blocks and full pools have nothing to do, and the
algorithms have one step. In `ChannelWait` the tasks may
really stop once each waits for another; what may stop, and what not, is
what its properties say.

### Where the code disagrees with its own text

| Run | Says | Does |
| --- | --- | --- |
| `BftCommit` | `engine.rs:372`: commits the block of the votes | applies the last proposal received |
| `BftSyncLost` | `sync.rs:43`, `sync.rs:90`: a sync reaches its target | the request goes to a random peer id |
| `DefaultFee` | the tests of `pool.rs` (184 to 266) insert transactions of fee 1000 and 5000 and expect success; `main.rs:43` of the client offers 1000 | `insert` runs `validate_format` (`pool.rs:46`), which admits the fees 10000, 100000 and 1000000 only (`transaction.rs:75`) |

Passing properties state other behaviour a reader might not expect, because it
is what the code does:

- a node whose store is empty never gets a block: the store expects height 0 and
  the engine starts at 1 (`EmptyStoreStays`);
- nodes alone extend a chain by one block at most, and only at observers
  (`OneBlockAboveSealed`);
- a transaction whose note is spent, or whose proof is bad, is pooled until a
  restart, and the latter makes each block of its proposer unacceptable
  (`StaleStaysPooled`, `ProposerPoisoned`);
- of two transfers in a block one is lost (`BlockEffect`), two overlapping
  inserts pool two spends of one note (`DoubleSpendsRaced` says only such do);
- no vote is received (`VotesReceived`), no wallet finds a note (`WalletScans`), a
  base fee at its floor stays there (`FeesAndRewards`), and a transfer of the client
  carries a proof that fails (`WalletTransactions`). Its default fee, 1000, is no
  tier, and an address it prints is not one it accepts.

Seen while modelling and not stated as a property: a block that is refused half
way leaves its first nullifiers and leaves in the store, although a comment calls
the application atomic (`engine.rs:225`; `StateStore`, `Spend`; `BftEngine`, `Inserted`);
an engine prevotes every proposal of a round; the constructor of
`SoftwareKeyStore` cannot succeed (it copies 48 bytes into 64); the node
keeps gossipsub's default message size, far below `MAX_P2P_MESSAGE_SIZE`; the
rewards of the first halving interval alone exceed `MAX_SUPPLY`.

## Fairness

`BftEngine`, `FairSpec`, of the counterexample `BftSyncLost` only. `WF(NodeStep(n))`:
the task of a node is scheduled again and again. `WF(SyncAnswered(n))`: an answer that
can come does come; with the code's random id none can, and the sync never ends
though a peer has the blocks. No passing run assumes it: nothing in the code resends a
request or notices that it failed.

`NetworkChannels`, `FairSpec`. Weak fairness of the tasks' own steps: tokio runs a
task that can go on, a timer ends, a free place goes to the first waiter. Nothing
is asked of the network or of the callers, and so nothing of `HandleLow`: while
the network has events, the biased select never comes to the low lane.

`Dandelion`, `FairSpec`. Deadlines pass, and `flush_expired_stems` is called again
and again, as its comment says ("викликати періодично", call periodically). No
fairness of messages or of submissions.

## Theorems

Checked by TLAPS for every value of the constants that satisfies the named
assumptions.

- `BftEngineProofs`: the three quorum rules are one (`QuorumRulesAgree`), and two
  quorums meet in more than a third (`QuorumsMeet`); `TypeCorrect`; `OnePrecommitHolds`, from the inductive
  invariant `VoteInv`. `OnePrecommit` alone is not inductive: it
  needs that a precommit already sent lies behind its engine, or is of the
  current round and the phase has passed Precommit (`PrecommitPast`), and that the
  loop height is at most one above the store (`HeightBound`), so that entering a
  height anew is recorded. `HeightNeverBackHolds` follows from
  `HeightBound`. 
  The next three need a finite registered set and rest on `TallyInv`: whoever an engine
  has counted for a block could pass the check of votes for it (`TalliesPass`), which
  stays so since votes are never unsent. `PrecommitBackedHolds` and
  `CommitNeedsQuorumHolds` follow by counting (`QuorumSigned`, with `QuorumRulesAgree`).
  `VotesStartAtProposalHolds` also assumes a set whose faulty validators are no quorum by
  themselves: then a quorum of signatures has one of a correct validator
  (`SoundSigner`), whose vote leads back to a prevote at the block's own height.
  `SyncNeverStallsHolds` is inductive
  with the types. `RerunOnlyIfRejectedHolds` needs that the block an engine would
  execute is of its loop's height (`CurrentHeight`), and a genesis block: without
  one `apply_block` refuses every block it is handed here.
- `StateStoreProofs`: `StoreTypeCorrect`, `IndexNeverDanglingHolds`,
  `RecentBlocksStoredHolds` and `StoreImplementsLedger`, all from `StoreInv`. It
  adds to them where `apply_block` is (its height is the next one until the tip is
  written; its body is stored before the tip) and where `prune_history` is
  (its victim lies below `tip - KeepLast` and has left the index).
  `TxsHaveBlockHolds`: a body is stored before its transactions and deleted after
  them. `SpentOnceHolds`, from `SpendInv`: the spends a running block has done were
  unknown when it reached them and are known since, and a block joins the chain
  only with all of them done. `TreeMatchesStoreHolds`, from `TreeInv`: the tree
  in memory counts only stored leaves and is never behind the stored size.
- `NetworkChannelsProofs`: `ChannelsTypeCorrect`, `ReplyPendingHolds` and
  `MutualWaitIsFinalHolds`, from an inductive invariant that ties `at` to the
  waiting lines (`WaitingOnce`: whoever is in a line is suspended at that channel,
  and in the line once) and to the high lane (`HighOnce`). `StatusLineSpecHolds`, the
  refinement: each step of the channels is a step of `StatusLine` or leaves the
  line of status requests as it is. The mapping filters a lane and its waiters, by a
  recursive function; what it makes of a tail and of an appended element is proved by
  induction (`CallersTail`, `CallersAppend`).
- `MempoolProofs`: `PoolTypeCorrect`, `UnspentReservedHolds` and
  `DoubleSpendsRacedHolds` from `PoolInvariant`. No property of the pool is
  inductive: a transaction is in the map only after its last reservation,
  while another may be freed. The invariant follows each caller: what it has reserved
  stays so until it is spent (`Kept`), the consensus task frees only what is spent
  or about to be, and a transaction before its notes (`Removal`), and a caller
  that did not overlap with a pooled transaction has not got past a note of it
  (`LateStopped`). `NoOrphanReservationHolds` from `Owned`: a reservation belongs
  to a pooled transaction, to a caller past its checks, or to a removal.
  `SizeOverrunBoundedHolds` from `Bounded`, by counting: whoever is past the check of
  the size adds at most one, for any finite set of callers.
- `NodeProofs`: `OneBlockAboveSealedHolds` from `NodeInvariant` (a validator's tip is
  a sealed block's, so a proposal is one above at most; a sealed block is no
  higher than the chain it is from), `EmptyStoreStaysHolds`, and
  `StaleStaysPooledHolds`, which rests on a lemma about `apply_block`: a block
  with a spent nullifier anywhere in it fails. They assume `ChainAssumption`, that the
  chain from elsewhere is one (each of its blocks applies to the one before).
  `ProposerPoisonedHolds` adds that pools are finite (`PoolsFinite`): then a block
  holds all of the selection it was packed from (`BuiltWhole` of `AlgorithmsProofs`),
  with it whatever every selection takes (`Poison`), and no node accepts it. Only
  accepted blocks take transactions out of a pool.
- `ContractCallsProofs`: `TokenTypeCorrect`, `SupplyConservedHolds`,
  `StateNeedsCodeHolds` and `BlockEffectHolds`, from `TokenInv`: what a call has read and
  written is determined by its place in the script (`CallInv`), so what it returns is
  a mint, nothing, or one move of `Amount` off the committed balances; merged, the
  changes of a block have one of four shapes (`Shape`); without a second init
  and a torn block they are one of three, and the stored sum is the supply (`Whole`); the
  code is there before any entry (`Owned`). The supply, the amount and the calls of a
  block are arbitrary.
- `DandelionProofs`: `ForwardedOnceHolds` and `FluffedOnceHolds`, from `RouterInv`:
  without an entry a router has neither forwarded nor broadcast its own
  (`NothingDecided`), which a deadline or a lost message does not change.

- `AlgorithmsProofs`: each property of the run `Algorithms` twice, as a theorem about
  arbitrary inputs, and as `InputSpec => []...` for those of the run. Where the code
  loops, the module has a recursive function over a prefix of the data
  (`StakesUpTo`, `Frontiers`, `Selected`, `Packed`, `Noticed`, `Scanned`, `BaseFees`, ...).
  Its defining equation is proved first (`GasDef` and the like: such a function
  exists for every length), then what it computes, by induction. Both inductions are
  `NatSetInduction`, which is about a set of numbers and so needs no operator
  parameter; it follows from the least element that `WFMin` gives.
  - Elections. `SharesAlwaysStakes`, for any tree of validators with different ids, any
    stakes and any number of draws: `FirstAboveIs` gives the interval of thresholds that
    chooses a validator, `DrawsCounted` counts the draws that fall into an interval
    modulo the total, and `LineHasAll` shows that sorting loses nobody and doubles
    nobody (ranks in a strict order are a bijection). `EvidenceTakesOut` adds slashing.
  - Selection. `GreedyBlocks`, for every finite pool: a selection is well-formed and
    fits, so `build_block` cuts nothing off; whoever is left out meets a selected prefix
    that pays as much and fills the block.
  - The tree. `RootsAreOfLeaves`, at every depth and number of leaves below capacity: the
    frontier holds, where the size has a bit, the full subtree that ends with the last
    leaf, and elsewhere nothing (`FrontierHas`), which the carry of `append` preserves.
  - Notes and wallet. `NotesAreReadable`, for any value, address and reader;
    `ScansNeverFind`, for any chain of compact blocks and any order of scanning.
  - Transactions. `TransfersNeverProven`, for every recipient, amount, fee and time that
    fit a `u64`, with and without overflow checks; `SignaturesCover`, for the transfers, calls and
    deployments built, all methods, arguments and gas limits.
  - Fees. `FeesStick` and `FeesAndRewardsAlwaysAdd`, for every base fee, target, gas
    and height, the arithmetic taken as exact. The code divides in floating point;
    that is exact where the target is a power of two and the products are below 2^53,
    as in the run, and elsewhere may differ by rounding.
  - Gossip. `VotesAreLost`, for votes of any bytes.

Assumptions on constants are named in their modules and evaluated by TLC. Those of the
algorithms: `Draws` is positive and `SlashBps` at most 10000; `MaxTxs` is positive;
`Word` exceeds the highest fee tier, as 2^64 does (`WordAssumption`).

Only model-checked: the liveness properties (`StatusAnsweredUnlessStuck`,
`ServiceResumesUnlessStuck`, `StemEndsInFluff`), since liveness under fairness and
ENABLED are out of the prover's reach. Every invariant, action property and
refinement that a passing run checks is a theorem. The counterexamples
(`BftCommit`, `BftSyncLost`, `DefaultFee`) are TLC's.

## Not modelled

BLS aggregation, the VRF and Schnorr arithmetic; the field arithmetic of zk
(its circuit is an equation of integers in `WalletTx`); `SoftwareKeyStore`; the
client's commands that ask a node and print; dialling and the construction of
the swarm; serde layouts other than a vote's; the crates outside the workspace.
The missed-block counter of the engine ends in a log line. `active_peers` and
`buffered_blocks` are never read. The schedule of epochs has no caller. I/O
errors of sled.

No progress of a round is stated: an engine that completes a quorum with its own
vote waits for another one, and no vote arrives in the first place. That every
devnet node has the id `[1; 32]` (`main.rs:107`) is a sum, not a behaviour: one
id of the four that a quorum is counted of.

## Plan

Done: the modules and theorems above. Next, in this order:

1. Conditions under which waiting engines do move on, stated as safety: what the phase
   of an engine and the votes it has counted allow next (the hazard at `engine.rs:333`).
2. An abstract pool, a set of transactions with reservations, that `Mempool`
   implements up to races and that `Node` uses, as a theorem beside the run.
3. `StateStore` in the place of `AppliedTo` in `Node`, with a crash between the
   writes, and the invariants of `NodeProofs` over it.
