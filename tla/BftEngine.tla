----------------------------- MODULE BftEngine -----------------------------
(***************************************************************************)
(* ConsensusEngine::run of noirnet-consensus, one copy per node, with the  *)
(* BftRoundState and the SyncManager it drives.  The engine is one task:   *)
(* each arm of its select! runs to the end before the next one, so an arm  *)
(* is one action.  Leaving the inner loop starts the outer loop's body in  *)
(* the same action (EnterHeight).  Gossip is the growing sets `proposed'   *)
(* and `votes': a message may be late, lost, reordered or seen twice.      *)
(***************************************************************************)
EXTENDS BftQuorum, Sequences

CONSTANTS
  Nodes,       \* nodes that run this engine
  Keyed,       \* those started with a secret key (is_validator)
  Faulty,      \* validator ids driven by other programs: they may sign anything
  Registered,  \* ids in the stored validator set; {} is the devnet default
  Leader(_),   \* id elected for a height when the set is not empty
  Blocks, BlockHeight,
  BlockSpends, \* the nullifiers of a block, in the order they are inserted
  Nullifiers,
  Sealed,      \* blocks that carry a BLS aggregate signature
  Valid,       \* blocks that pass every other check of execute_and_apply_block
  External,    \* blocks other programs broadcast
  HasGenesis,  \* the store already holds block 0
  SyncGap,     \* a peer is ahead beyond this many heights (5 in the code)
  SyncLimit,   \* blocks per sync request (50 in the code)
  PeerAddressable, \* sync requests reach a peer; the code draws a random PeerId
  MaxRound, MaxRestarts, \* bounds of the model
  NoBlock

ASSUME NodesAssumption ==
  /\ Keyed \subseteq Nodes
  /\ Nodes \cap Faulty = {}
  /\ Registered # {} => Keyed \subseteq Registered
ASSUME BlocksAssumption ==
  /\ BlockHeight \in [Blocks -> Nat] /\ BlockSpends \in [Blocks -> Seq(Nullifiers)]
  /\ Sealed \subseteq Blocks /\ Valid \subseteq Blocks /\ External \subseteq Blocks
  /\ NoBlock \notin Blocks
ASSUME BoundsAssumption ==
  /\ HasGenesis \in BOOLEAN /\ PeerAddressable \in BOOLEAN
  /\ SyncGap \in Nat \ {0} /\ SyncLimit \in Nat \ {0}
  /\ MaxRound \in Nat /\ MaxRestarts \in Nat

VARIABLES
  chain,       \* blocks applied above genesis, oldest first (the state store)
  spent,       \* its nullifiers, those a refused block left behind included
  height, round, phase, \* of the engine's loops; height 0: not started
  prevotes, precommits, \* voters this round state has counted, by block
  current,     \* current_block
  syncing, target,      \* of the SyncManager
  asked,       \* start heights of sync requests that are on the wire
  proposed,    \* <<node, block>> broadcast by leaders
  votes,       \* votes broadcast by keyed nodes
  restarts,    \* process restarts so far
  reentered    \* history: <<node, height>> whose outer loop ran more than once

engine == <<height, round, phase, prevotes, precommits, current, syncing>>
vars == <<chain, spent, engine, target, asked, proposed, votes, restarts, reentered>>

Phases == {"Propose", "Prevote", "Precommit", "Commit"}
VoteTypes == {"Prevote", "Precommit"}
Ids == Nodes \cup Faulty \cup Registered
NoVotes == [b \in Blocks |-> {}]
Vote(t, h, r, b, id) == [type |-> t, height |-> h, round |-> r, block |-> b, id |-> id]
VoteSpace == [type : VoteTypes, height : Nat, round : Nat, block : Blocks, id : Nodes]

TotalValidators == IF Registered = {} THEN 4 ELSE Cardinality(Registered)

\* A vote carries a signature of its block hash and of nothing else: whoever
\* signed a block once, in whatever vote, has signed it for every type, height
\* and round.  Faulty ids sign at will, and nobody signs for another id.
HasSigned(id, b) == id \in Faulty \/ \E v \in votes : v.id = id /\ v.block = b

\* Mutant: an id without an entry in the set is let through.
PassesUnregistered(id, b) == id \in Registered => HasSigned(id, b)

\* The check of the vote_rx arm.  Without a validator set it checks nothing:
\* Ids then stands for whatever ids a vote may name.
Passes(id, b) == Registered = {} \/ (id \in Registered /\ HasSigned(id, b))

---------------------------------------------------------------------------
(* BftRoundState.  Here and below, an operator commented "Mutant" is a      *)
(* plausible wrong version of the next one, which the properties must catch. *)

\* Mutant: two thirds in integer division are enough.
AdvanceRoundedDown(ph, pv, pc, b) ==
  CASE ph = "Propose" -> "Prevote"
    [] ph = "Prevote" /\ Cardinality(pv[b]) >= (TotalValidators * 2) \div 3 -> "Precommit"
    [] ph = "Precommit" /\ Cardinality(pc[b]) >= (TotalValidators * 2) \div 3 -> "Commit"
    [] OTHER -> ph

\* try_advance_phase: at most one step, and only for the block of the call.
Advance(ph, pv, pc, b) ==
  CASE ph = "Propose" -> "Prevote"
    [] ph = "Prevote" /\ HasQuorum(Cardinality(pv[b]), TotalValidators) -> "Precommit"
    [] ph = "Precommit" /\ HasQuorum(Cardinality(pc[b]), TotalValidators) -> "Commit"
    [] OTHER -> ph

\* add_vote on one of the two tallies.
AddVote(tally, b, id) == [tally EXCEPT ![b] = @ \cup {id}]

\* Mutant: the round number is not advanced with the state.
FreshRoundSameNumber(n, r) ==
  /\ round' = round
  /\ phase' = [phase EXCEPT ![n] = "Propose"]
  /\ prevotes' = [prevotes EXCEPT ![n] = NoVotes]
  /\ precommits' = [precommits EXCEPT ![n] = NoVotes]

\* BftRoundState::new at round r.
FreshRound(n, r) ==
  /\ round' = [round EXCEPT ![n] = r]
  /\ phase' = [phase EXCEPT ![n] = "Propose"]
  /\ prevotes' = [prevotes EXCEPT ![n] = NoVotes]
  /\ precommits' = [precommits EXCEPT ![n] = NoVotes]

---------------------------------------------------------------------------
(* execute_and_apply_block and apply_block, as far as the engine sees them.*)

Accepts(n, b) == b \in Valid /\ (n \in Keyed => b \in Sealed)

\* Mutant: the store counts heights from genesis, one less.
TakesHeightOffByOne(n, b) == HasGenesis /\ BlockHeight[b] = Len(chain[n])

\* The store takes only the next height.  Without block 0 it expects height 0,
\* which the engine, at height 1 or more, never hands it.
TakesHeight(n, b) == HasGenesis /\ BlockHeight[b] = Len(chain[n]) + 1

\* Position k of the spends q meets a nullifier of S or one before it in q.
Clashes(S, q, k) == q[k] \in S \/ \E j \in 1 .. k - 1 : q[j] = q[k]

DoubleSpends(S, b) ==
  \E k \in DOMAIN BlockSpends[b] : Clashes(S, BlockSpends[b], k)

\* The nullifiers apply_block inserts: up to the first clash, where it returns
\* and takes nothing back.
Inserted(S, b) ==
  LET q == BlockSpends[b]
  IN {q[k] : k \in {i \in DOMAIN q : \A j \in 1 .. i : ~Clashes(S, q, j)}}

Executes(n, b) == Accepts(n, b) /\ TakesHeight(n, b) /\ ~DoubleSpends(spent[n], b)

ChainAfter(n, b) == IF Executes(n, b) THEN Append(chain[n], b) ELSE chain[n]
SpentAfter(n, b) ==
  IF Accepts(n, b) /\ TakesHeight(n, b) THEN spent[n] \cup Inserted(spent[n], b) ELSE spent[n]

---------------------------------------------------------------------------
(* The outer loop, entered with store content c.                           *)

IsLeader(n, h) == IF Registered = {} THEN n \in Keyed ELSE Leader(h) = n

\* build_block: no aggregate signature, and height 0 on an empty store.
Buildable(h) ==
  {b \in Blocks \ Sealed : BlockHeight[b] = IF HasGenesis THEN h ELSE 0}

\* check_sync_status with k blocks: target t is not reached yet.
StillBehind(k, t) == k < t

\* The leader broadcasts one block; without a block of that height among
\* Blocks it proposes nothing (a bound of the model).
Propose(n, h, leads) ==
  IF leads /\ Buildable(h) # {}
  THEN \E b \in Buildable(h) : proposed' = proposed \cup {<<n, b>>}
  ELSE UNCHANGED proposed

EnterHeight(n, c, wasSyncing) ==
  LET h == Len(c) + 1 IN
  /\ chain' = [chain EXCEPT ![n] = c]
  /\ height' = [height EXCEPT ![n] = h]
  /\ FreshRound(n, 0)
  /\ current' = [current EXCEPT ![n] = NoBlock]
  /\ syncing' = [syncing EXCEPT ![n] = wasSyncing /\ StillBehind(Len(c), target[n])]
  /\ Propose(n, h, IsLeader(n, h) /\ ~syncing'[n])
  /\ reentered' = IF height[n] = h THEN reentered \cup {<<n, h>>} ELSE reentered

Start(n) ==
  /\ height[n] = 0
  /\ EnterHeight(n, chain[n], FALSE)
  /\ UNCHANGED <<spent, target, asked, votes, restarts>>

\* The process dies and comes back: the store survives, everything else is new.
Restart(n) ==
  /\ height[n] # 0
  /\ restarts < MaxRestarts
  /\ restarts' = restarts + 1
  /\ EnterHeight(n, chain[n], FALSE)
  /\ target' = [target EXCEPT ![n] = 0]
  /\ asked' = [asked EXCEPT ![n] = {}]
  /\ UNCHANGED <<spent, votes>>

---------------------------------------------------------------------------
(* The arms of select!.                                                    *)

\* Gossip does not deliver a node's own broadcasts.
Reaches(n, b) == b \in External \/ \E p \in Nodes \ {n} : <<p, b>> \in proposed

\* block_rx: a proposal for this height, adopted and prevoted.  The phase
\* that try_advance_phase returns is dropped.
ReceiveProposal(n, b) ==
  /\ height[n] # 0
  /\ Reaches(n, b)
  /\ BlockHeight[b] = height[n]
  /\ ~syncing[n]
  /\ current' = [current EXCEPT ![n] = b]
  /\ phase' = [phase EXCEPT ![n] = Advance(@, prevotes[n], precommits[n], b)]
  /\ IF n \in Keyed
     THEN /\ votes' = votes \cup {Vote("Prevote", height[n], round[n], b, n)}
          /\ prevotes' = [prevotes EXCEPT ![n] = AddVote(@, b, n)]
     ELSE UNCHANGED <<votes, prevotes>>
  /\ UNCHANGED <<chain, spent, height, round, precommits, syncing, target, asked,
                 proposed, restarts, reentered>>

\* handle_peer_height and start_sync ask from the height after current_height,
\* which the engine gives as its loop height minus one.
FirstAsked(n) == (height[n] - 1) + 1

\* block_rx: a block far ahead starts a sync (handle_peer_height, start_sync).
ReceiveBlockAhead(n, b) ==
  /\ height[n] # 0
  /\ Reaches(n, b)
  /\ BlockHeight[b] > (height[n] - 1) + SyncGap
  /\ ~syncing[n]
  /\ syncing' = [syncing EXCEPT ![n] = TRUE]
  /\ target' = [target EXCEPT ![n] = IF @ > BlockHeight[b] THEN @ ELSE BlockHeight[b]]
  /\ asked' = [asked EXCEPT ![n] = @ \cup {FirstAsked(n)}]
  /\ UNCHANGED <<chain, spent, height, round, phase, prevotes, precommits, current,
                 proposed, votes, restarts, reentered>>

\* The part of the vote_rx arm that runs once the vote is counted and the
\* phase has become `next'.
VoteCounted(n, b, next, pv, pc) ==
  /\ prevotes' = [prevotes EXCEPT ![n] = pv]
  /\ phase' = [phase EXCEPT ![n] = next]
  /\ IF next = "Precommit" /\ phase[n] = "Prevote" /\ n \in Keyed
     THEN /\ votes' = votes \cup {Vote("Precommit", height[n], round[n], b, n)}
          /\ precommits' = [precommits EXCEPT ![n] = AddVote(pc, b, n)]
     ELSE /\ precommits' = [precommits EXCEPT ![n] = pc]
          /\ UNCHANGED votes
  /\ UNCHANGED <<chain, spent, height, round, current, syncing, target, asked,
                 proposed, restarts, reentered>>

\* vote_rx: a vote labelled with this height and round, not yet counted; its
\* label is the sender's to choose, and the engine's own id passes like others.
\* A quorum of precommits executes the block held in `current', whichever
\* block the votes are for, and leaves the loop even when it is rejected.
ReceiveVote(n, t, b, id) ==
  LET pv == IF t = "Prevote" THEN AddVote(prevotes[n], b, id) ELSE prevotes[n]
      pc == IF t = "Precommit" THEN AddVote(precommits[n], b, id) ELSE precommits[n]
      next == Advance(phase[n], pv, pc, b)
      commits == next = "Commit" /\ phase[n] = "Precommit" /\ current[n] # NoBlock
  IN
  /\ height[n] # 0
  /\ Passes(id, b)
  /\ id \notin (IF t = "Prevote" THEN prevotes[n][b] ELSE precommits[n][b])
  /\ \/ ~commits /\ VoteCounted(n, b, next, pv, pc)
     \/ /\ commits
        /\ EnterHeight(n, ChainAfter(n, current[n]), syncing[n])
        /\ spent' = [spent EXCEPT ![n] = SpentAfter(n, current[n])]
        /\ UNCHANGED <<target, asked, votes, restarts>>

\* The request sent after a response that leaves k blocks.  Mutant first: it is
\* forgotten.
NextRequestForgotten(n, k) == {}
NextRequest(n, k) == IF StillBehind(k, target[n]) THEN {k + 1} ELSE {}

\* The nullifiers n holds once the blocks of p below height i are applied.
SpentBelow(n, p, i) ==
  spent[n] \cup UNION {{BlockSpends[b][k] : k \in DOMAIN BlockSpends[b]} :
                         b \in {chain[p][j] : j \in Len(chain[n]) + 1 .. i - 1}}

SyncApplies(n, p, i) ==
  Accepts(n, chain[p][i]) /\ ~DoubleSpends(SpentBelow(n, p, i), chain[p][i])

\* Applying the blocks of p above n's own, up to height top, in order, leaves n
\* with k blocks: the store refuses what follows the first block that fails.
SyncStopsAt(n, p, top, k) ==
  /\ \A i \in Len(chain[n]) + 1 .. k : SyncApplies(n, p, i)
  /\ k < top => ~SyncApplies(n, p, k + 1)

\* The nullifiers afterwards, those of the block refused at k + 1 included.
SpentBySync(n, p, top, k) ==
  LET S == SpentBelow(n, p, k + 1)
  IN IF k < top /\ Accepts(n, chain[p][k + 1]) THEN S \cup Inserted(S, chain[p][k + 1]) ELSE S

\* sync_req_rx at p and sync_res_rx at n: p answered the request for s when its
\* chain had m blocks.  While still behind, n asks for the rest at once.  The
\* inner loop goes on with the height it was entered with.
ReceiveSyncResponse(n, p, s, m) ==
  LET last == IF s + SyncLimit - 1 < m THEN s + SyncLimit - 1 ELSE m
      top == IF s <= Len(chain[n]) + 1 /\ last > Len(chain[n])
             THEN last ELSE Len(chain[n])
  IN
  /\ PeerAddressable
  /\ height[n] # 0
  /\ IF syncing[n]
     THEN \E k \in Len(chain[n]) .. top :
            /\ SyncStopsAt(n, p, top, k)
            /\ chain' = [chain EXCEPT ![n] = @ \o SubSeq(chain[p], Len(@) + 1, k)]
            /\ spent' = [spent EXCEPT ![n] = SpentBySync(n, p, top, k)]
            /\ syncing' = [syncing EXCEPT ![n] = StillBehind(k, target[n])]
            /\ asked' = [asked EXCEPT ![n] = (@ \ {s}) \cup NextRequest(n, k)]
     ELSE /\ asked' = [asked EXCEPT ![n] = @ \ {s}]
          /\ UNCHANGED <<chain, spent, syncing>>
  /\ UNCHANGED <<height, round, phase, prevotes, precommits, current, target,
                 proposed, votes, restarts, reentered>>

\* Ten seconds without a message: a new round state, nothing else.
Timeout(n) ==
  /\ height[n] # 0
  /\ round[n] < MaxRound
  /\ FreshRound(n, round[n] + 1)
  /\ UNCHANGED <<chain, spent, height, current, syncing, target, asked, proposed,
                 votes, restarts, reentered>>

---------------------------------------------------------------------------
Init ==
  /\ chain = [n \in Nodes |-> <<>>] /\ spent = [n \in Nodes |-> {}]
  /\ height = [n \in Nodes |-> 0]
  /\ round = [n \in Nodes |-> 0]
  /\ phase = [n \in Nodes |-> "Propose"]
  /\ prevotes = [n \in Nodes |-> NoVotes]
  /\ precommits = [n \in Nodes |-> NoVotes]
  /\ current = [n \in Nodes |-> NoBlock]
  /\ syncing = [n \in Nodes |-> FALSE]
  /\ target = [n \in Nodes |-> 0]
  /\ asked = [n \in Nodes |-> {}]
  /\ proposed = {} /\ votes = {} /\ restarts = 0 /\ reentered = {}

NodeStep(n) ==
  \/ Start(n)
  \/ Restart(n)
  \/ \E b \in Blocks : ReceiveProposal(n, b) \/ ReceiveBlockAhead(n, b)
  \/ \E t \in VoteTypes, b \in Blocks, id \in Ids : ReceiveVote(n, t, b, id)
  \/ \E p \in Nodes \ {n}, s \in asked[n] :
       \E m \in 0 .. Len(chain[p]) : ReceiveSyncResponse(n, p, s, m)
  \/ Timeout(n)

Next == \E n \in Nodes : NodeStep(n)

Spec == Init /\ [][Next]_vars

---------------------------------------------------------------------------
(* Properties.                                                             *)

TypeOK ==
  /\ chain \in [Nodes -> Seq(Blocks)] /\ spent \in [Nodes -> SUBSET Nullifiers]
  /\ height \in [Nodes -> Nat] /\ round \in [Nodes -> Nat]
  /\ phase \in [Nodes -> Phases]
  /\ prevotes \in [Nodes -> [Blocks -> SUBSET Ids]]
  /\ precommits \in [Nodes -> [Blocks -> SUBSET Ids]]
  /\ current \in [Nodes -> Blocks \cup {NoBlock}]
  /\ syncing \in [Nodes -> BOOLEAN] /\ target \in [Nodes -> Nat]
  /\ asked \in [Nodes -> SUBSET Nat]
  /\ proposed \subseteq Nodes \X Blocks
  /\ votes \subseteq VoteSpace
  /\ restarts \in Nat
  /\ reentered \subseteq Nodes \X Nat

\* More than two thirds of the registered validators, counted the way
\* ValidatorSet counts, have signed b in some vote.  Nothing is asked of a
\* network without a validator set, whose votes nobody has to sign.
SignedByQuorum(b) ==
  Registered # {} =>
    HasThresholdQuorum(Cardinality({id \in Registered : HasSigned(id, b)}),
                       Cardinality(Registered))

\* An engine precommits only what a quorum has signed before it does, through
\* timeouts, restarts and blocks that move the phase (engine.rs 338-370 and the
\* dropped result in 322).  Votes signed for another round or type count too.
PrecommitBacked ==
  [][\A v \in votes' \ votes : v.type = "Precommit" => SignedByQuorum(v.block)]_vars

\* However votes are labelled, engines vote only for blocks that one of them
\* once received as a proposal for their height and prevoted there, as long as
\* the faulty validators are no quorum by themselves (engine.rs 319-336).
VotesStartAtProposal ==
  \A v \in votes : \E w \in votes :
    w.type = "Prevote" /\ w.block = v.block /\ w.height = BlockHeight[v.block]

\* An engine that has gone through a height only once has precommitted at most
\* one block in each of its rounds.
OnePrecommit ==
  \A v, w \in votes :
    /\ v.type = "Precommit" /\ w.type = "Precommit"
    /\ v.id = w.id /\ v.height = w.height /\ v.round = w.round
    => v.block = w.block \/ <<v.id, v.height>> \in reentered

\* Outside a sync a chain grows only when a quorum has signed one same block,
\* in votes of any type, height or round, and not always the block applied.
CommitNeedsQuorum ==
  [][\A n \in Nodes :
       chain'[n] # chain[n] /\ ~syncing[n]
       => \E b \in Blocks : SignedByQuorum(b)]_vars

\* The outer loop never returns to a height below one it has worked on,
\* although a sync leaves the inner loop at a height the chain has passed.
HeightNeverBack == [][\A n \in Nodes : height[n] <= height'[n]]_vars

\* A height is run again only after a restart, or when the block committed
\* fails a check of the engine or spends a nullifier the store holds, which may
\* be left from an earlier refusal: never because a sync, a timeout or a block
\* of another height came between (engine.rs 373-383, state.rs 74-92).
RerunOnlyIfRejected ==
  [][\A n \in Nodes :
       <<n, height[n]>> \in reentered' \ reentered
       => \/ restarts' # restarts
          \/ ~Accepts(n, current[n])
          \/ DoubleSpends(spent[n], current[n])]_vars

\* A syncing engine always has a request on the wire: no answer, however late
\* or short, leaves it waiting for nothing (engine.rs 405-419).
SyncNeverStalls == \A n \in Nodes : syncing[n] => asked[n] # {}

(* What the comments and messages of the code say, and the engine does not,  *)
(* even if its task is scheduled and every answer that can come does come.   *)
SyncAnswered(n) ==
  \E p \in Nodes \ {n}, s \in asked[n] :
    Len(chain[p]) >= target[n] /\ ReceiveSyncResponse(n, p, s, Len(chain[p]))

FairSpec ==
  /\ Spec
  /\ \A n \in Nodes : WF_vars(NodeStep(n)) /\ WF_vars(SyncAnswered(n))

\* sync.rs 41-48, "Sync complete! Reached target height": a sync whose target
\* some peer can serve comes to an end.
SyncEnds ==
  \A n \in Nodes :
    (syncing[n] /\ \E p \in Nodes \ {n} : Len(chain[p]) >= target[n]) ~> ~syncing[n]

\* engine.rs 372: the block committed to the ledger is the block of the votes.
CommitsTheVotedBlock ==
  [][\A n \in Nodes :
       chain'[n] # chain[n] /\ ~syncing[n]
       => SignedByQuorum(chain'[n][Len(chain'[n])])]_vars
=============================================================================
