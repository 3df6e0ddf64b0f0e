---------------------------- MODULE MCAlgorithms ----------------------------
(***************************************************************************)
(* The algorithms without state of their own, over bounded inputs.         *)
(***************************************************************************)
EXTENDS LeaderElection, BlockSelection, NoteTree, WalletTx, FeeMarket, GossipCodec

VARIABLE input

\* Three validators in the order of their ids.
TreeOf(stakes, waiting) ==
  [k \in 1..3 |-> [id |-> k, stake |-> stakes[k], status |-> IF k \in waiting THEN "waiting" ELSE "active",
                   epoch |-> IF k = 3 THEN 1 ELSE 0, slashed |-> 0]]
Elections ==
  {[algorithm |-> "elect", tree |-> TreeOf(s, w), epoch |-> e, accused |-> a, hash2 |-> h] :
     s \in [1..3 -> {0, 1, 2, 5}], w \in {{}, {1}}, e \in 0..1, a \in {0, 1, 2}, h \in {"h1", "h2"}}

\* Pools of up to four transactions.
Pools ==
  {[algorithm |-> "select", pool |-> p] :
     p \in {q \in SUBSET ([id : 1..2, fee : 1..2, gas : {1, 2, 3}]) : Cardinality(q) <= 4}}

Trees == {[algorithm |-> "tree", leaves |-> n] : n \in 0 .. 2 ^ Depth - 1}

\* Where a note can be sent: the X25519 key of either reader, and addresses
\* Alice hands out.
Reachable(fvk) == [diversifier |-> <<"div", 0>>, pk_d |-> DeriveFromIvk(IncomingViewKey(fvk))]
Addresses ==
  {Reachable(Alice), Reachable(Bob)} \cup {PaymentAddress(IncomingViewKey(Alice), k) : k \in 0..1}

Payments ==
  {[algorithm |-> "note", sent |-> s] :
     s \in [value : {1}, to : Addresses, named : Addresses, reader : {Alice, Bob}, wallet_order : BOOLEAN]}

\* A block that pays the payees one note each, and reveals the nullifiers the
\* wallet gives to them or none.
BlockPaying(h, payees, revealed) ==
  LET fvk(who) == IF who = "alice" THEN Alice ELSE Bob
      cm(k) == Commitment(Note(h, Random(10 * h + k), Random(2), Reachable(fvk(payees[k]))))
      paid(k) == Compact(EncryptNote(Note(h, Random(10 * h + k), Random(2), Reachable(fvk(payees[k]))),
                                     Reachable(fvk(payees[k])).pk_d, Bob.ovk, Random(3)), cm(k))
  IN [height |-> h, paid |-> payees, outputs |-> [k \in DOMAIN payees |-> paid(k)],
      nullifiers |-> IF revealed THEN {<<"blake3", cm(k)>> : k \in DOMAIN payees} ELSE {}]

ChainPaying(first, second, revealed) ==
  <<BlockPaying(1, first, FALSE), BlockPaying(2, second, revealed)>>
Chains ==
  {ChainPaying(p, q, r) :
     p \in {<<"alice">>, <<"alice", "bob">>}, q \in {<<>>, <<"bob">>, <<"alice">>}, r \in BOOLEAN}

Scans == [algorithm : {"scan"}, chain : Chains, order : UNION {[1..n -> 1..2] : n \in 0..3}]

\* Recipients given as the key, cut, or as the client prints an address.
Transfers ==
  {[algorithm |-> "transfer", to |-> t, amount |-> a, fee |-> f, now |-> n, checked |-> c] :
     t \in {Hex(Reachable(Bob).pk_d, 32), Hex(Reachable(Bob).pk_d, 31), ToBase58(Reachable(Bob))},
     a \in {0, 1, 2, 5000, Word - 9998, Word - 1}, f \in {2, 1000, 10000, 20000, 100000, 1000000},
     n \in {0, 1799}, c \in BOOLEAN}

Words == {<<>>, <<"a">>, <<"a", "b">>}
Calls == [algorithm : {"call"}, method : Words, args : Words, gas : {0, 21000}]

\* Gas about targets that are powers of two.
Fees == [algorithm : {"fee"}, base : 1..9 \cup {16, 100}, target : {4, 8},
         blocks : UNION {[1..n -> {0, 3, 4, 7, 8, 9, 16, 35}] : n \in 0..2}]
Rewards ==
  [algorithm : {"reward"}, base : {1, 8}, fee : {0, 9, 10000}, gas : {0, 1, 10000},
   height : {0, 1} \cup {k * HALVING_INTERVAL - 1 : k \in 1..20}]

\* Votes by the first and the other bytes of each integer, under each order of
\* the topics.
Leading(first, others, width) == [k \in 1..width |-> IF k = 1 THEN first ELSE others]
VoteOf(h, g, r, t, b) ==
  [height |-> Leading(h, g, 8), round |-> Leading(r, 0, 4), block_hash |-> Leading(b, 0, HashBytes),
   vote_type |-> Leading(t, 0, 4), signer |-> Leading(b, b, SignerBytes)]
SampleVotes ==
  {VoteOf(h, g, r, t, b) :
     h \in {0, 7, 250, 251, 252, 253, 255}, g \in {0, 251, 253}, r \in {0, 1, 251, 252}, t \in {0, 1},
     b \in {0, 251, 252}}
Broadcasts ==
  [algorithm : {"vote"}, vote : SampleVotes,
   order : {s \in [1..3 -> {"tx", "block", "vote"}] : \A j, k \in 1..3 : s[j] = s[k] => j = k}]

InputInit == input = [algorithm |-> "none"]
InputNext ==
  /\ input.algorithm = "none"
  /\ input' \in Elections \cup Pools \cup Trees \cup Payments \cup Scans \cup Transfers \cup Calls
                \cup Fees \cup Rewards \cup Broadcasts
InputSpec == InputInit /\ [][InputNext]_input

---------------------------------------------------------------------------
\* Evidence against a validator, then the election: who leads, and how often
\* (slashing.rs 25-41, state.rs 195-209, validator.rs 219-236, leader.rs 26-67).
LeaderShares ==
  input.algorithm = "elect" =>
    LET punished == [k \in DOMAIN input.tree |->
                       ApplyEvidence(input.tree[k], input.accused, "h1", input.hash2)]
    IN /\ SharesAreStakes(punished, input.epoch)
       /\ input.accused # 0 /\ input.hash2 # "h1" =>
            \A k \in DOMAIN EpochSet(punished, input.epoch) :
              EpochSet(punished, input.epoch)[k].id # input.accused

\* A block built from the pool is what its roots say, and greedy (pool.rs
\* 82-114, block_builder.rs 44-70).
SelectionGreedy == input.algorithm = "select" => BlocksAreGreedy(input.pool)

\* The incremental tree is the full one (merkle.rs 41-76).
TreeRoot == input.algorithm = "tree" => RootIsOfLeaves(input.leaves)

\* Who reads an encrypted note (stealth.rs 22-94).
NoteReaders == input.algorithm = "note" => NotesReadable(input.sent)

\* What a wallet learns from compact blocks (sync.rs 31-83).
WalletScans == input.algorithm = "scan" => ScansFindNothing(input.chain, input.order)

\* What becomes of a transfer of the client, and what a binding signature holds
\* fast (main.rs 145-215, builder.rs 21-237, transaction.rs 55-127, keys.rs 62-108).
WalletTransactions ==
  /\ input.algorithm = "transfer" =>
       SentNeverProven(input.to, input.amount, input.fee, input.now, input.checked)
  /\ input.algorithm = "call" => SignatureCovers(input.method, input.args, input.gas)

\* The base fee over blocks, and the arithmetic of fee and reward
\* (fee_market.rs 11-41, block.rs 86-93).
FeesAndRewards ==
  /\ input.algorithm = "fee" => FeeStuckAtFloor(input.base, input.target, input.blocks)
  /\ input.algorithm = "reward" => FeesAndRewardsAdd(input.base, input.fee, input.gas, input.height)

\* What becomes of a broadcast vote (p2p.rs 162-187 and 206-208).
VotesReceived == input.algorithm = "vote" => NoVoteReceived(input.vote, input.order)

(* What the tests of the pool say, and the code does not.                    *)

\* pool.rs 184-189, `assert!(pool.insert(tx).is_ok())' for one spend, one output
\* and the fee 1000, which main.rs 43 offers by default: insert runs the
\* format check (pool.rs 46, transaction.rs 75).
TestFeeAdmitted ==
  input.algorithm = "transfer" /\ input.fee = 1000 =>
    \A tx \in CmdSend(input.to, input.amount, input.fee, Hex("alice", 32), input.now, input.checked) :
      ValidFormat(tx)
=============================================================================
