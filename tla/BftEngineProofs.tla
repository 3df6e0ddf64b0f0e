-------------------------- MODULE BftEngineProofs --------------------------
(***************************************************************************)
(* Invariants of BftEngine for every network, validator set and bound.     *)
(***************************************************************************)
EXTENDS BftEngine, FiniteSetTheorems, SequenceTheorems, TLAPS

---------------------------------------------------------------------------
(* Quorums.                                                                *)

\* BftRoundState::has_quorum_* (bft.rs 60) and ValidatorSet::has_quorum
\* (validator.rs 190, 209) accept exactly the same counts of voters, and so does
\* has_stake_quorum (validator.rs 213) when all have one stake.
THEOREM QuorumRulesAgree ==
  ASSUME NEW k \in Nat, NEW n \in Nat, NEW stake \in Nat \ {0}
  PROVE  /\ HasQuorum(k, n) <=> HasThresholdQuorum(k, n)
         /\ HasQuorum(k, n) <=> HasStakeQuorum(k * stake, n * stake)
<1>1. HasQuorum(k, n) <=> HasThresholdQuorum(k, n)
  BY DEF HasQuorum, HasThresholdQuorum, QuorumThreshold
<1>2. /\ (k * stake) * 3 = (k * 3) * stake /\ (n * stake) * 2 = (n * 2) * stake
      /\ k * 3 \in Nat /\ n * 2 \in Nat
  OBVIOUS
<1>3. \A a, b \in Nat : a > b <=> a * stake > b * stake
  OBVIOUS
<1>4. HasQuorum(k, n) <=> HasStakeQuorum(k * stake, n * stake)
  BY <1>2, <1>3 DEF HasQuorum, HasStakeQuorum
<1> QED
  BY <1>1, <1>4

\* Two groups of voters that bft.rs 60 calls quorums share a validator outside
\* any set F of at most a third of the validators.
THEOREM QuorumsMeet ==
  ASSUME NEW V, IsFiniteSet(V), NEW A \in SUBSET V, NEW B \in SUBSET V,
         NEW F \in SUBSET V, 3 * Cardinality(F) <= Cardinality(V),
         HasQuorum(Cardinality(A), Cardinality(V)),
         HasQuorum(Cardinality(B), Cardinality(V))
  PROVE  \E x \in A \cap B : x \notin F
<1>1. IsFiniteSet(A) /\ IsFiniteSet(B) /\ IsFiniteSet(F) /\ IsFiniteSet(A \cap B)
  BY FS_Subset, A \cap B \in SUBSET V
<1>2. /\ Cardinality(V) \in Nat /\ Cardinality(A) \in Nat /\ Cardinality(B) \in Nat
      /\ Cardinality(F) \in Nat /\ Cardinality(A \cap B) \in Nat
  BY <1>1, FS_CardinalityType
<1>3. Cardinality(A \cup B) =
        Cardinality(A) + Cardinality(B) - Cardinality(A \cap B)
  BY <1>1, FS_Union
<1>4. Cardinality(A \cup B) <= Cardinality(V) /\ Cardinality(A \cup B) \in Nat
  BY FS_Subset, FS_CardinalityType, A \cup B \in SUBSET V
<1>5. 3 * Cardinality(A \cap B) > Cardinality(V)
  BY <1>2, <1>3, <1>4 DEF HasQuorum
<1>6. SUFFICES ASSUME A \cap B \subseteq F PROVE FALSE
  OBVIOUS
<1>7. Cardinality(A \cap B) <= Cardinality(F)
  BY <1>1, <1>6, FS_Subset
<1> QED
  BY <1>2, <1>5, <1>7

---------------------------------------------------------------------------
(* The round state.                                                        *)

LEMMA AdvanceType ==
  ASSUME NEW ph \in Phases, NEW pv, NEW pc, NEW b
  PROVE  Advance(ph, pv, pc, b) \in Phases
BY DEF Advance, Phases

\* Precommit is entered only from Prevote and over a prevote quorum.
LEMMA AdvanceToPrecommit ==
  ASSUME NEW ph, NEW pv, NEW pc, NEW b,
         Advance(ph, pv, pc, b) = "Precommit", ph # "Precommit"
  PROVE  ph = "Prevote" /\ HasQuorum(Cardinality(pv[b]), TotalValidators)
BY DEF Advance

\* Once in Precommit a round state does not go back.
LEMMA AdvanceKeepsPrecommit ==
  ASSUME NEW ph \in {"Precommit", "Commit"}, NEW pv, NEW pc, NEW b
  PROVE  Advance(ph, pv, pc, b) \in {"Precommit", "Commit"}
BY DEF Advance

LEMMA AddVoteType ==
  ASSUME NEW tally \in [Blocks -> SUBSET Ids], NEW b \in Blocks, NEW id \in Ids
  PROVE  AddVote(tally, b, id) \in [Blocks -> SUBSET Ids]
BY DEF AddVote

---------------------------------------------------------------------------
(* Type correctness.                                                       *)

LEMMA EnterHeightType ==
  ASSUME TypeOK, NEW n \in Nodes, NEW c \in Seq(Blocks), NEW w \in BOOLEAN,
         EnterHeight(n, c, w)
  PROVE  /\ chain' \in [Nodes -> Seq(Blocks)]
         /\ height' \in [Nodes -> Nat] /\ round' \in [Nodes -> Nat]
         /\ phase' \in [Nodes -> Phases]
         /\ prevotes' \in [Nodes -> [Blocks -> SUBSET Ids]]
         /\ precommits' \in [Nodes -> [Blocks -> SUBSET Ids]]
         /\ current' \in [Nodes -> Blocks \cup {NoBlock}]
         /\ syncing' \in [Nodes -> BOOLEAN]
         /\ proposed' \subseteq Nodes \X Blocks
         /\ reentered' \subseteq Nodes \X Nat
<1>1. Len(c) + 1 \in Nat
  BY LenProperties
<1>2. NoVotes \in [Blocks -> SUBSET Ids]
  BY DEF NoVotes
<1>3. /\ round' \in [Nodes -> Nat] /\ phase' \in [Nodes -> Phases]
      /\ prevotes' \in [Nodes -> [Blocks -> SUBSET Ids]]
      /\ precommits' \in [Nodes -> [Blocks -> SUBSET Ids]]
  BY <1>2 DEF EnterHeight, FreshRound, TypeOK, Phases
<1>4. proposed' \subseteq Nodes \X Blocks
  BY DEF EnterHeight, Propose, Buildable, TypeOK
<1>5. reentered' \subseteq Nodes \X Nat
  BY <1>1 DEF EnterHeight, TypeOK
<1> QED
  BY <1>1, <1>3, <1>4, <1>5 DEF EnterHeight, TypeOK, StillBehind

LEMMA ChainAfterType ==
  ASSUME TypeOK, NEW n \in Nodes, NEW b \in Blocks
  PROVE  /\ ChainAfter(n, b) \in Seq(Blocks)
         /\ Len(chain[n]) <= Len(ChainAfter(n, b))
<1>1. chain[n] \in Seq(Blocks)
  BY DEF TypeOK
<1>2. CASE Executes(n, b)
  BY <1>1, <1>2, AppendProperties, LenProperties DEF ChainAfter
<1>3. CASE ~Executes(n, b)
  BY <1>1, <1>3, LenProperties DEF ChainAfter
<1> QED
  BY <1>2, <1>3

\* Nullifiers of blocks, whole or up to a refusal.
LEMMA InsertedType ==
  ASSUME NEW S, NEW b \in Blocks
  PROVE  /\ Inserted(S, b) \subseteq Nullifiers
         /\ \A k \in DOMAIN BlockSpends[b] : BlockSpends[b][k] \in Nullifiers
<1>1. BlockSpends[b] \in Seq(Nullifiers)
  BY BlocksAssumption
<1>2. \A k \in DOMAIN BlockSpends[b] : BlockSpends[b][k] \in Nullifiers
  BY <1>1
<1> QED
  BY <1>2 DEF Inserted

LEMMA SpentAfterType ==
  ASSUME TypeOK, NEW n \in Nodes, NEW b \in Blocks
  PROVE  [spent EXCEPT ![n] = SpentAfter(n, b)] \in [Nodes -> SUBSET Nullifiers]
<1>1. SpentAfter(n, b) \subseteq Nullifiers
  BY InsertedType DEF SpentAfter, TypeOK
<1> QED
  BY <1>1 DEF TypeOK

LEMMA SpentBySyncType ==
  ASSUME TypeOK, NEW n \in Nodes, NEW p \in Nodes, NEW top \in Int,
         NEW k \in Len(chain[n]) .. top, top = Len(chain[n]) \/ top <= Len(chain[p])
  PROVE  SpentBySync(n, p, top, k) \subseteq Nullifiers
<1>1. /\ chain[p] \in Seq(Blocks) /\ Len(chain[p]) \in Nat /\ Len(chain[n]) \in Nat
      /\ spent[n] \subseteq Nullifiers
  BY LenProperties DEF TypeOK
<1>2. k \in Int /\ Len(chain[n]) <= k /\ (k = Len(chain[n]) \/ k <= Len(chain[p]))
  BY <1>1
<1>3. \A j \in Len(chain[n]) + 1 .. k + 1 - 1 : chain[p][j] \in Blocks
  BY <1>1, <1>2
<1>4. SpentBelow(n, p, k + 1) \subseteq Nullifiers
  <2> DEFINE below == {chain[p][j] : j \in Len(chain[n]) + 1 .. k + 1 - 1}
             taken(b) == {BlockSpends[b][i] : i \in DOMAIN BlockSpends[b]}
  <2>1. \A b \in below : taken(b) \subseteq Nullifiers
    BY <1>3, InsertedType
  <2> HIDE DEF taken, below
  <2>2. UNION {taken(b) : b \in below} \subseteq Nullifiers
    BY <2>1
  <2> QED
    BY <1>1, <2>2 DEF SpentBelow, taken, below
<1>5. k < top => chain[p][k + 1] \in Blocks
  BY <1>1
<1> QED
  BY <1>4, <1>5, InsertedType DEF SpentBySync

\* What a sync response does to the chain: it appends blocks of the peer.
LEMMA SyncChain ==
  ASSUME NEW c \in Seq(Blocks), NEW d \in Seq(Blocks), NEW k \in Nat,
         Len(c) <= k, k = Len(c) \/ k <= Len(d)
  PROVE  /\ c \o SubSeq(d, Len(c) + 1, k) \in Seq(Blocks)
         /\ Len(c \o SubSeq(d, Len(c) + 1, k)) = k
<1>1. Len(c) \in Nat /\ Len(d) \in Nat
  BY LenProperties
<1>2. CASE k = Len(c)
  <2>1. SubSeq(d, Len(c) + 1, k) = << >>
    BY <1>1, <1>2, SubSeqEmpty
  <2> QED
    BY <1>1, <1>2, <2>1, ConcatEmptySeq
<1>3. CASE k > Len(c)
  <2>1. k <= Len(d) /\ Len(c) + 1 \in 1 .. Len(d) /\ k \in Len(c) + 1 .. Len(d)
    BY <1>1, <1>3
  <2>2. /\ SubSeq(d, Len(c) + 1, k) \in Seq(Blocks)
        /\ Len(SubSeq(d, Len(c) + 1, k)) = k - Len(c)
    BY <1>1, <2>1, SubSeqProperties
  <2> QED
    BY <1>1, <2>2, ConcatProperties
<1> QED
  BY <1>1, <1>2, <1>3

LEMMA StartType == ASSUME TypeOK, NEW n \in Nodes, Start(n) PROVE TypeOK'
<1>1. chain[n] \in Seq(Blocks)
  BY DEF TypeOK
<1>2. EnterHeight(n, chain[n], FALSE) /\ UNCHANGED <<spent, target, asked, votes, restarts>>
  BY DEF Start
<1> QED
  BY <1>1, <1>2, EnterHeightType DEF TypeOK

LEMMA RestartType == ASSUME TypeOK, NEW n \in Nodes, Restart(n) PROVE TypeOK'
<1>1. chain[n] \in Seq(Blocks)
  BY DEF TypeOK
<1>2. EnterHeight(n, chain[n], FALSE) /\ UNCHANGED <<spent, votes>>
  BY DEF Restart
<1>3. /\ target' \in [Nodes -> Nat] /\ asked' \in [Nodes -> SUBSET Nat]
      /\ restarts' \in Nat
  BY DEF Restart, TypeOK
<1> QED
  BY <1>1, <1>2, <1>3, EnterHeightType DEF TypeOK

LEMMA ProposalType ==
  ASSUME TypeOK, NEW n \in Nodes, NEW b \in Blocks, ReceiveProposal(n, b)
  PROVE  TypeOK'
<1>1. /\ UNCHANGED <<chain, spent, height, round, precommits, syncing, target, asked,
                     proposed, restarts, reentered>>
      /\ current' = [current EXCEPT ![n] = b]
  BY DEF ReceiveProposal
<1>2. phase' \in [Nodes -> Phases]
  <2>1. Advance(phase[n], prevotes[n], precommits[n], b) \in Phases
    BY AdvanceType DEF TypeOK
  <2> QED
    BY <2>1 DEF ReceiveProposal, TypeOK
<1>3. prevotes' \in [Nodes -> [Blocks -> SUBSET Ids]]
  <2>1. AddVote(prevotes[n], b, n) \in [Blocks -> SUBSET Ids]
    BY AddVoteType DEF TypeOK, Ids
  <2> QED
    BY <2>1 DEF ReceiveProposal, TypeOK
<1>4. votes' \subseteq VoteSpace
  BY DEF ReceiveProposal, TypeOK, VoteSpace, Vote, VoteTypes
<1> QED
  BY <1>1, <1>2, <1>3, <1>4 DEF TypeOK

LEMMA BlockAheadType ==
  ASSUME TypeOK, NEW n \in Nodes, NEW b \in Blocks, ReceiveBlockAhead(n, b)
  PROVE  TypeOK'
<1>1. BlockHeight[b] \in Nat
  BY BlocksAssumption
<1>2. FirstAsked(n) \in Nat
  BY DEF FirstAsked, TypeOK
<1>3. target' \in [Nodes -> Nat] /\ asked' \in [Nodes -> SUBSET Nat]
  BY <1>1, <1>2 DEF ReceiveBlockAhead, TypeOK
<1> QED
  BY <1>3 DEF ReceiveBlockAhead, TypeOK

LEMMA VoteCountedType ==
  ASSUME TypeOK, NEW n \in Nodes, NEW b \in Blocks, NEW next \in Phases,
         NEW pv \in [Blocks -> SUBSET Ids], NEW pc \in [Blocks -> SUBSET Ids],
         VoteCounted(n, b, next, pv, pc)
  PROVE  TypeOK'
<1>1. AddVote(pc, b, n) \in [Blocks -> SUBSET Ids]
  BY AddVoteType DEF Ids
<1>2. precommits' \in [Nodes -> [Blocks -> SUBSET Ids]]
  BY <1>1 DEF VoteCounted, TypeOK
<1>3. votes' \subseteq VoteSpace
  BY DEF VoteCounted, TypeOK, VoteSpace, Vote, VoteTypes
<1> QED
  BY <1>2, <1>3 DEF VoteCounted, TypeOK

\* The two outcomes of a counted vote, with the tallies it leaves.
LEMMA ReceiveVoteCases ==
  ASSUME TypeOK, NEW n \in Nodes, NEW t \in VoteTypes, NEW b \in Blocks,
         NEW id \in Ids, ReceiveVote(n, t, b, id)
  PROVE  \/ \E pv, pc \in [Blocks -> SUBSET Ids] :
              /\ pv = IF t = "Prevote" THEN AddVote(prevotes[n], b, id) ELSE prevotes[n]
              /\ pc = IF t = "Precommit" THEN AddVote(precommits[n], b, id) ELSE precommits[n]
              /\ VoteCounted(n, b, Advance(phase[n], pv, pc, b), pv, pc)
         \/ /\ current[n] \in Blocks
            /\ EnterHeight(n, ChainAfter(n, current[n]), syncing[n])
            /\ spent' = [spent EXCEPT ![n] = SpentAfter(n, current[n])]
            /\ UNCHANGED <<target, asked, votes, restarts>>
<1> DEFINE pv == IF t = "Prevote" THEN AddVote(prevotes[n], b, id) ELSE prevotes[n]
           pc == IF t = "Precommit" THEN AddVote(precommits[n], b, id) ELSE precommits[n]
<1>1. pv \in [Blocks -> SUBSET Ids] /\ pc \in [Blocks -> SUBSET Ids]
  BY AddVoteType DEF TypeOK
<1>2. \/ VoteCounted(n, b, Advance(phase[n], pv, pc, b), pv, pc)
      \/ /\ current[n] # NoBlock
         /\ EnterHeight(n, ChainAfter(n, current[n]), syncing[n])
         /\ spent' = [spent EXCEPT ![n] = SpentAfter(n, current[n])]
         /\ UNCHANGED <<target, asked, votes, restarts>>
  BY DEF ReceiveVote
<1>3. current[n] # NoBlock => current[n] \in Blocks
  BY DEF TypeOK
<1> QED
  BY <1>1, <1>2, <1>3

LEMMA VoteType ==
  ASSUME TypeOK, NEW n \in Nodes, NEW t \in VoteTypes, NEW b \in Blocks,
         NEW id \in Ids, ReceiveVote(n, t, b, id)
  PROVE  TypeOK'
<1>1. ASSUME NEW pv \in [Blocks -> SUBSET Ids], NEW pc \in [Blocks -> SUBSET Ids],
             VoteCounted(n, b, Advance(phase[n], pv, pc, b), pv, pc)
      PROVE  TypeOK'
  BY <1>1, AdvanceType, VoteCountedType DEF TypeOK
<1>2. ASSUME current[n] \in Blocks,
             EnterHeight(n, ChainAfter(n, current[n]), syncing[n]),
             spent' = [spent EXCEPT ![n] = SpentAfter(n, current[n])],
             UNCHANGED <<target, asked, votes, restarts>>
      PROVE  TypeOK'
  <2>1. ChainAfter(n, current[n]) \in Seq(Blocks) /\ syncing[n] \in BOOLEAN
    BY <1>2, ChainAfterType DEF TypeOK
  <2>2. EnterHeight(n, ChainAfter(n, current[n]), syncing[n])
    BY <1>2
  <2>3. /\ UNCHANGED <<target, asked, votes, restarts>>
        /\ spent' \in [Nodes -> SUBSET Nullifiers]
    BY <1>2, SpentAfterType
  <2> DEFINE c == ChainAfter(n, current[n])
  <2> HIDE DEF c
  <2>4. c \in Seq(Blocks) /\ EnterHeight(n, c, syncing[n])
    BY <2>1, <2>2 DEF c
  <2>5. /\ chain' \in [Nodes -> Seq(Blocks)]
        /\ height' \in [Nodes -> Nat] /\ round' \in [Nodes -> Nat]
        /\ phase' \in [Nodes -> Phases]
        /\ prevotes' \in [Nodes -> [Blocks -> SUBSET Ids]]
        /\ precommits' \in [Nodes -> [Blocks -> SUBSET Ids]]
        /\ current' \in [Nodes -> Blocks \cup {NoBlock}]
        /\ syncing' \in [Nodes -> BOOLEAN]
        /\ proposed' \subseteq Nodes \X Blocks
        /\ reentered' \subseteq Nodes \X Nat
    BY <2>1, <2>4, EnterHeightType
  <2> QED
    BY <2>3, <2>5 DEF TypeOK
<1> QED
  BY <1>1, <1>2, ReceiveVoteCases

LEMMA SyncResponseType ==
  ASSUME TypeOK, NEW n \in Nodes, NEW p \in Nodes, NEW s \in asked[n],
         NEW m \in 0 .. Len(chain[p]), ReceiveSyncResponse(n, p, s, m)
  PROVE  TypeOK' /\ Len(chain[n]) <= Len(chain'[n])
<1>1. /\ chain[n] \in Seq(Blocks) /\ chain[p] \in Seq(Blocks)
      /\ Len(chain[n]) \in Nat /\ Len(chain[p]) \in Nat /\ s \in Nat
      /\ SyncLimit \in Nat /\ target[n] \in Nat /\ syncing[n] \in BOOLEAN
  BY BoundsAssumption, LenProperties DEF TypeOK
<1>2. UNCHANGED <<height, round, phase, prevotes, precommits, current, target,
                  proposed, votes, restarts, reentered>>
  BY DEF ReceiveSyncResponse
<1>3. CASE syncing[n]
  <2> DEFINE last == IF s + SyncLimit - 1 < m THEN s + SyncLimit - 1 ELSE m
             top == IF s <= Len(chain[n]) + 1 /\ last > Len(chain[n])
                    THEN last ELSE Len(chain[n])
  <2>1. last \in Int /\ last <= Len(chain[p])
    BY <1>1
  <2>2. top \in Int /\ (top = Len(chain[n]) \/ top <= Len(chain[p]))
    BY <1>1, <2>1
  <2>3. PICK k \in Len(chain[n]) .. top :
          /\ chain' = [chain EXCEPT ![n] = @ \o SubSeq(chain[p], Len(@) + 1, k)]
          /\ spent' = [spent EXCEPT ![n] = SpentBySync(n, p, top, k)]
          /\ syncing' = [syncing EXCEPT ![n] = StillBehind(k, target[n])]
          /\ asked' = [asked EXCEPT ![n] = (@ \ {s}) \cup NextRequest(n, k)]
    BY <1>3 DEF ReceiveSyncResponse
  <2>4. /\ k \in Nat
        /\ Len(chain[n]) <= k
        /\ k = Len(chain[n]) \/ k <= Len(chain[p])
    BY <1>1, <2>2
  <2>5. /\ chain[n] \o SubSeq(chain[p], Len(chain[n]) + 1, k) \in Seq(Blocks)
        /\ Len(chain[n] \o SubSeq(chain[p], Len(chain[n]) + 1, k)) = k
    BY <1>1, <2>4, SyncChain
  <2>6. /\ chain' \in [Nodes -> Seq(Blocks)]
        /\ Len(chain[n]) <= Len(chain'[n])
    BY <2>4, <2>5, <2>3 DEF TypeOK
  <2>7. NextRequest(n, k) \subseteq Nat
    BY <2>4 DEF NextRequest
  <2>8. asked' \in [Nodes -> SUBSET Nat]
    BY <2>7, <2>3 DEF TypeOK
  <2>9. syncing' \in [Nodes -> BOOLEAN]
    BY <2>3 DEF TypeOK, StillBehind
  <2>10. SpentBySync(n, p, top, k) \subseteq Nullifiers
    BY <2>2, SpentBySyncType
  <2>11. spent' \in [Nodes -> SUBSET Nullifiers]
    BY <2>3, <2>10 DEF TypeOK
  <2> QED
    BY <1>2, <2>6, <2>8, <2>9, <2>11 DEF TypeOK
<1>4. CASE ~syncing[n]
  <2>1. asked' = [asked EXCEPT ![n] = @ \ {s}] /\ UNCHANGED <<chain, spent, syncing>>
    BY <1>4 DEF ReceiveSyncResponse
  <2>2. asked' \in [Nodes -> SUBSET Nat]
    BY <2>1 DEF TypeOK
  <2>3. TypeOK'
    BY <1>2, <2>1, <2>2 DEF TypeOK
  <2>4. chain' = chain
    BY <2>1
  <2> QED
    BY <1>1, <2>3, <2>4
<1> QED
  BY <1>1, <1>3, <1>4

LEMMA TimeoutType == ASSUME TypeOK, NEW n \in Nodes, Timeout(n) PROVE TypeOK'
<1>1. NoVotes \in [Blocks -> SUBSET Ids]
  BY DEF NoVotes
<1> QED
  BY <1>1 DEF Timeout, FreshRound, TypeOK, Phases

LEMMA NextType == TypeOK /\ [Next]_vars => TypeOK'
<1>1. ASSUME TypeOK, UNCHANGED vars PROVE TypeOK'
  BY <1>1 DEF vars, engine, TypeOK
<1>2. ASSUME TypeOK, NEW n \in Nodes, NodeStep(n) PROVE TypeOK'
  BY <1>2, StartType, RestartType, ProposalType, BlockAheadType, VoteType,
     SyncResponseType, TimeoutType DEF NodeStep
<1> QED
  BY <1>1, <1>2 DEF Next

LEMMA InitType == Init => TypeOK
<1>1. << >> \in Seq(Blocks)
  OBVIOUS
<1> QED
  BY <1>1 DEF Init, TypeOK, NoVotes, Phases, VoteSpace

\* TypeOK: every engine's loop variables, tallies, requests and chain keep the
\* types of engine.rs 263-308 and sync.rs 7-15 in every reachable state.
THEOREM TypeCorrect == Spec => []TypeOK
BY InitType, NextType, PTL DEF Spec

---------------------------------------------------------------------------
(* One precommit per round.                                                *)

\* An engine works at most one height above its store, which a sync may have
\* carried further.
HeightBound == \A n \in Nodes : height[n] <= Len(chain[n]) + 1

\* A precommit an engine has broadcast lies behind it, or is the one that its
\* phase remembers, or its height was re-entered.
PrecommitPast ==
  \A v \in votes : v.type = "Precommit" =>
    \/ <<v.id, v.height>> \in reentered
    \/ v.height < height[v.id]
    \/ v.height = height[v.id] /\ v.round < round[v.id]
    \/ /\ v.height = height[v.id] /\ v.round = round[v.id]
       /\ phase[v.id] \in {"Precommit", "Commit"}

VoteInv == TypeOK /\ HeightBound /\ PrecommitPast /\ OnePrecommit

\* Entering the outer loop with a chain no shorter than before.
LEMMA EnterHeightVoteInv ==
  ASSUME VoteInv, TypeOK', NEW n \in Nodes, NEW c \in Seq(Blocks), NEW w,
         EnterHeight(n, c, w), Len(chain[n]) <= Len(c), votes' = votes
  PROVE  VoteInv'
<1>1. Len(c) \in Nat /\ Len(chain[n]) \in Nat
  BY LenProperties DEF VoteInv, TypeOK
<1>2. /\ chain' = [chain EXCEPT ![n] = c]
      /\ height' = [height EXCEPT ![n] = Len(c) + 1]
      /\ round' = [round EXCEPT ![n] = 0]
      /\ phase' = [phase EXCEPT ![n] = "Propose"]
      /\ reentered' = IF height[n] = Len(c) + 1
                      THEN reentered \cup {<<n, Len(c) + 1>>} ELSE reentered
  BY DEF EnterHeight, FreshRound
<1>3. height[n] <= Len(c) + 1 /\ height[n] \in Nat
  BY <1>1 DEF VoteInv, HeightBound, TypeOK
<1>4. HeightBound'
  <2> SUFFICES ASSUME NEW m \in Nodes PROVE height'[m] <= Len(chain'[m]) + 1
    BY DEF HeightBound
  <2>1. CASE m = n
    BY <1>1, <1>2, <2>1 DEF VoteInv, TypeOK
  <2>2. CASE m # n
    BY <1>2, <2>2 DEF VoteInv, TypeOK, HeightBound
  <2> QED
    BY <2>1, <2>2
<1>5. PrecommitPast'
  <2> SUFFICES ASSUME NEW v \in votes, v.type = "Precommit"
               PROVE  \/ <<v.id, v.height>> \in reentered'
                      \/ v.height < height'[v.id]
                      \/ v.height = height'[v.id] /\ v.round < round'[v.id]
                      \/ /\ v.height = height'[v.id] /\ v.round = round'[v.id]
                         /\ phase'[v.id] \in {"Precommit", "Commit"}
    BY DEF PrecommitPast
  <2>1. v.id \in Nodes /\ v.height \in Nat /\ height[v.id] \in Nat
    BY DEF VoteInv, TypeOK, VoteSpace
  <2>2. <<v.id, v.height>> \in reentered \/ v.height <= height[v.id]
    BY <2>1 DEF VoteInv, PrecommitPast
  <2>3. CASE v.id # n
    BY <1>2, <2>1, <2>3 DEF VoteInv, PrecommitPast, TypeOK
  <2>4. CASE v.id = n
    <3>1. height'[n] = Len(c) + 1
      BY <1>2 DEF VoteInv, TypeOK
    <3>2. CASE <<v.id, v.height>> \in reentered
      BY <1>2, <3>2
    <3>3. CASE v.height <= height[n] /\ height[n] = Len(c) + 1
      BY <1>1, <1>2, <2>1, <2>4, <3>1, <3>3
    <3>4. CASE v.height <= height[n] /\ height[n] # Len(c) + 1
      BY <1>1, <1>3, <2>1, <2>4, <3>1, <3>4
    <3> QED
      BY <2>2, <2>4, <3>2, <3>3, <3>4
  <2> QED
    BY <2>3, <2>4
<1>6. OnePrecommit'
  BY <1>2 DEF VoteInv, OnePrecommit
<1> QED
  BY <1>4, <1>5, <1>6 DEF VoteInv

\* Steps that broadcast no precommit, re-enter no height, and move no engine's
\* round or phase back.
LEMMA QuietVoteInv ==
  ASSUME VoteInv, TypeOK',
         \A m \in Nodes : Len(chain[m]) <= Len(chain'[m]),
         UNCHANGED <<height, reentered>>,
         \A m \in Nodes :
           \/ round'[m] > round[m]
           \/ /\ round'[m] = round[m]
              /\ phase[m] \in {"Precommit", "Commit"}
                 => phase'[m] \in {"Precommit", "Commit"},
         \A v \in votes' : v.type = "Precommit" => v \in votes
  PROVE  VoteInv'
<1>1. HeightBound'
  <2> SUFFICES ASSUME NEW m \in Nodes PROVE height'[m] <= Len(chain'[m]) + 1
    BY DEF HeightBound
  <2>1. Len(chain[m]) \in Nat /\ Len(chain'[m]) \in Nat /\ height[m] \in Nat
    BY LenProperties DEF VoteInv, TypeOK
  <2> QED
    BY <2>1 DEF VoteInv, HeightBound
<1>2. PrecommitPast'
  <2> SUFFICES ASSUME NEW v \in votes', v.type = "Precommit"
               PROVE  \/ <<v.id, v.height>> \in reentered'
                      \/ v.height < height'[v.id]
                      \/ v.height = height'[v.id] /\ v.round < round'[v.id]
                      \/ /\ v.height = height'[v.id] /\ v.round = round'[v.id]
                         /\ phase'[v.id] \in {"Precommit", "Commit"}
    BY DEF PrecommitPast
  <2>1. v \in votes /\ v.id \in Nodes /\ v.round \in Nat
    BY DEF VoteInv, TypeOK, VoteSpace
  <2>2. round[v.id] \in Nat /\ round'[v.id] \in Nat
    BY <2>1 DEF VoteInv, TypeOK
  <2> QED
    BY <2>1, <2>2 DEF VoteInv, PrecommitPast
<1>3. OnePrecommit'
  BY DEF VoteInv, OnePrecommit
<1> QED
  BY <1>1, <1>2, <1>3 DEF VoteInv

LEMMA VoteCountedVoteInv ==
  ASSUME VoteInv, TypeOK', NEW n \in Nodes, NEW b \in Blocks, NEW pv, NEW pc,
         VoteCounted(n, b, Advance(phase[n], pv, pc, b), pv, pc)
  PROVE  VoteInv'
<1> DEFINE next == Advance(phase[n], pv, pc, b)
           own == Vote("Precommit", height[n], round[n], b, n)
           votesNow == next = "Precommit" /\ phase[n] = "Prevote" /\ n \in Keyed
<1>1. /\ phase' = [phase EXCEPT ![n] = next]
      /\ UNCHANGED <<chain, height, round, reentered>>
  BY DEF VoteCounted
<1>2. \A m \in Nodes : Len(chain[m]) <= Len(chain'[m])
  BY <1>1, LenProperties DEF VoteInv, TypeOK
<1>3. phase[n] \in {"Precommit", "Commit"} => next \in {"Precommit", "Commit"}
  BY AdvanceKeepsPrecommit
<1> HIDE DEF next
<1>4. CASE ~votesNow
  <2>1. votes' = votes
    BY <1>4 DEF VoteCounted, next
  <2>2. \A m \in Nodes : /\ round'[m] = round[m]
                         /\ phase[m] \in {"Precommit", "Commit"}
                            => phase'[m] \in {"Precommit", "Commit"}
    BY <1>1, <1>3 DEF VoteInv, TypeOK
  <2>3. UNCHANGED <<height, reentered>>
    BY <1>1
  <2>4. \A m \in Nodes :
           \/ round'[m] > round[m]
           \/ /\ round'[m] = round[m]
              /\ phase[m] \in {"Precommit", "Commit"}
                 => phase'[m] \in {"Precommit", "Commit"}
    BY <2>2
  <2>5. \A v \in votes' : v.type = "Precommit" => v \in votes
    BY <2>1
  <2> QED
    BY <1>2, <2>3, <2>4, <2>5, QuietVoteInv
<1>5. CASE votesNow
  <2>1. votes' = votes \cup {own} /\ phase'[n] = "Precommit"
    BY <1>1, <1>5 DEF VoteCounted, VoteInv, TypeOK, next
  <2>2. HeightBound'
    BY <1>1 DEF VoteInv, HeightBound
  <2>3. /\ own.type = "Precommit" /\ own.height = height[n]
        /\ own.round = round[n] /\ own.block = b /\ own.id = n
    BY DEF Vote
  \* Before this step no precommit of n was known at this height and round.
  <2>4. ASSUME NEW v \in votes, v.type = "Precommit", v.id = n,
               v.height = height[n], v.round = round[n]
        PROVE  <<n, height[n]>> \in reentered
    <3>1. height[n] \in Nat /\ round[n] \in Nat
      BY DEF VoteInv, TypeOK
    <3> QED
      BY <1>5, <2>4, <3>1 DEF VoteInv, PrecommitPast
  <2>5. PrecommitPast'
    <3> SUFFICES ASSUME NEW v \in votes', v.type = "Precommit"
                 PROVE  \/ <<v.id, v.height>> \in reentered'
                        \/ v.height < height'[v.id]
                        \/ v.height = height'[v.id] /\ v.round < round'[v.id]
                        \/ /\ v.height = height'[v.id] /\ v.round = round'[v.id]
                           /\ phase'[v.id] \in {"Precommit", "Commit"}
      BY DEF PrecommitPast
    <3>1. CASE v = own
      BY <1>1, <2>1, <2>3, <3>1
    <3>2. CASE v \in votes
      <4>1. phase[v.id] \in {"Precommit", "Commit"} => v.id # n
        BY <1>5
      <4>2. v.id \in Nodes
        BY <3>2 DEF VoteInv, TypeOK, VoteSpace
      <4> QED
        BY <1>1, <3>2, <4>1, <4>2 DEF VoteInv, PrecommitPast, TypeOK
    <3> QED
      BY <2>1, <3>1, <3>2
  <2>6. OnePrecommit'
    <3> SUFFICES ASSUME NEW v \in votes', NEW u \in votes',
                        v.type = "Precommit", u.type = "Precommit", v.id = u.id,
                        v.height = u.height, v.round = u.round
                 PROVE  v.block = u.block \/ <<v.id, v.height>> \in reentered
      BY <1>1 DEF OnePrecommit
    <3>1. CASE v \in votes /\ u \in votes
      BY <3>1 DEF VoteInv, OnePrecommit
    <3>2. CASE v = own /\ u = own
      BY <3>2
    <3>3. CASE v = own /\ u \in votes
      BY <2>3, <2>4, <3>3
    <3>4. CASE v \in votes /\ u = own
      BY <2>3, <2>4, <3>4
    <3> QED
      BY <2>1, <3>1, <3>2, <3>3, <3>4
  <2> QED
    BY <2>2, <2>5, <2>6 DEF VoteInv
<1> QED
  BY <1>4, <1>5

LEMMA NextVoteInv == VoteInv /\ [Next]_vars => VoteInv'
<1> SUFFICES ASSUME VoteInv, [Next]_vars PROVE VoteInv'
  OBVIOUS
<1>1. TypeOK /\ TypeOK'
  BY NextType DEF VoteInv
<1>2. \A m \in Nodes : chain[m] \in Seq(Blocks) /\ Len(chain[m]) \in Nat
  BY <1>1, LenProperties DEF TypeOK
<1>3. CASE UNCHANGED vars
  BY <1>1, <1>3 DEF vars, engine, VoteInv, HeightBound, PrecommitPast, OnePrecommit
<1>4. ASSUME NEW n \in Nodes, Start(n) PROVE VoteInv'
  <2>1. chain[n] \in Seq(Blocks) /\ Len(chain[n]) <= Len(chain[n])
    BY <1>2
  <2>2. EnterHeight(n, chain[n], FALSE) /\ votes' = votes
    BY <1>4 DEF Start
  <2> QED
    BY <1>1, <2>1, <2>2, EnterHeightVoteInv
<1>5. ASSUME NEW n \in Nodes, Restart(n) PROVE VoteInv'
  <2>1. chain[n] \in Seq(Blocks) /\ Len(chain[n]) <= Len(chain[n])
    BY <1>2
  <2>2. EnterHeight(n, chain[n], FALSE) /\ votes' = votes
    BY <1>5 DEF Restart
  <2> QED
    BY <1>1, <2>1, <2>2, EnterHeightVoteInv
<1>6. ASSUME NEW n \in Nodes, NEW b \in Blocks, ReceiveProposal(n, b) PROVE VoteInv'
  <2>1. /\ UNCHANGED <<chain, height, round, reentered>>
        /\ phase' = [phase EXCEPT ![n] = Advance(@, prevotes[n], precommits[n], b)]
    BY <1>6 DEF ReceiveProposal
  <2>2. \A v \in votes' : v.type = "Precommit" => v \in votes
    BY <1>6 DEF ReceiveProposal, Vote
  <2>3. \A m \in Nodes :
          phase[m] \in {"Precommit", "Commit"} => phase'[m] \in {"Precommit", "Commit"}
    BY <1>1, <2>1, AdvanceKeepsPrecommit DEF TypeOK
  <2>4. \A m \in Nodes : Len(chain[m]) <= Len(chain'[m])
    BY <1>2, <2>1
  <2> QED
    BY <1>1, <2>1, <2>2, <2>3, <2>4, QuietVoteInv
<1>7. ASSUME NEW n \in Nodes, NEW b \in Blocks, ReceiveBlockAhead(n, b) PROVE VoteInv'
  <2>1. UNCHANGED <<chain, height, round, phase, votes, reentered>>
    BY <1>7 DEF ReceiveBlockAhead
  <2>2. \A m \in Nodes : Len(chain[m]) <= Len(chain'[m])
    BY <1>2, <2>1
  <2> QED
    BY <1>1, <2>1, <2>2, QuietVoteInv
<1>8. ASSUME NEW n \in Nodes, NEW t \in VoteTypes, NEW b \in Blocks, NEW id \in Ids,
             ReceiveVote(n, t, b, id)
      PROVE  VoteInv'
  <2>1. ASSUME NEW pv \in [Blocks -> SUBSET Ids], NEW pc \in [Blocks -> SUBSET Ids],
               VoteCounted(n, b, Advance(phase[n], pv, pc, b), pv, pc)
        PROVE  VoteInv'
    BY <1>1, <2>1, VoteCountedVoteInv
  <2>2. ASSUME current[n] \in Blocks,
               EnterHeight(n, ChainAfter(n, current[n]), syncing[n]),
               votes' = votes
        PROVE  VoteInv'
    <3>1. PICK c \in Seq(Blocks) : Len(chain[n]) <= Len(c) /\ EnterHeight(n, c, syncing[n])
      BY <1>1, <2>2, ChainAfterType
    <3> QED
      BY <1>1, <2>2, <3>1, EnterHeightVoteInv
  <2> QED
    BY <1>1, <1>8, <2>1, <2>2, ReceiveVoteCases
<1>9. ASSUME NEW n \in Nodes, NEW p \in Nodes, NEW s \in asked[n],
             NEW m \in 0 .. Len(chain[p]), ReceiveSyncResponse(n, p, s, m)
      PROVE  VoteInv'
  <2>1. UNCHANGED <<height, round, phase, votes, reentered>>
    BY <1>9 DEF ReceiveSyncResponse
  <2>2. Len(chain[n]) <= Len(chain'[n])
    BY <1>1, <1>9, SyncResponseType
  <2>3. \A q \in Nodes : q # n => chain'[q] = chain[q]
    <3>1. CASE syncing[n]
      <4>1. PICK e : chain' = [chain EXCEPT ![n] = e]
        BY <1>9, <3>1 DEF ReceiveSyncResponse
      <4> QED
        BY <1>1, <4>1 DEF TypeOK
    <3>2. CASE ~syncing[n]
      BY <1>9, <3>2 DEF ReceiveSyncResponse
    <3> QED
      BY <3>1, <3>2
  <2>4. \A q \in Nodes : Len(chain[q]) <= Len(chain'[q])
    BY <1>2, <2>2, <2>3
  <2> QED
    BY <1>1, <2>1, <2>4, QuietVoteInv
<1>10. ASSUME NEW n \in Nodes, Timeout(n) PROVE VoteInv'
  <2>1. /\ UNCHANGED <<chain, height, votes, reentered>>
        /\ round' = [round EXCEPT ![n] = round[n] + 1]
        /\ phase' = [phase EXCEPT ![n] = "Propose"]
    BY <1>10 DEF Timeout, FreshRound
  <2>2. \A m \in Nodes :
          \/ round'[m] > round[m]
          \/ round'[m] = round[m] /\ phase'[m] = phase[m]
    <3> SUFFICES ASSUME NEW m \in Nodes
                 PROVE  \/ round'[m] > round[m]
                        \/ round'[m] = round[m] /\ phase'[m] = phase[m]
      OBVIOUS
    <3>1. round[m] \in Nat
      BY <1>1 DEF TypeOK
    <3>2. CASE m = n
      BY <1>1, <2>1, <3>1, <3>2 DEF TypeOK
    <3>3. CASE m # n
      BY <1>1, <2>1, <3>3 DEF TypeOK
    <3> QED
      BY <3>2, <3>3
  <2>3. \A m \in Nodes : Len(chain[m]) <= Len(chain'[m])
    BY <1>2, <2>1
  <2> QED
    BY <1>1, <2>1, <2>2, <2>3, QuietVoteInv
<1> QED
  BY <1>3, <1>4, <1>5, <1>6, <1>7, <1>8, <1>9, <1>10 DEF Next, NodeStep

LEMMA VoteInvariant == Spec => []VoteInv
<1>1. Init => VoteInv
  <2>1. Len(<< >>) = 0
    OBVIOUS
  <2> QED
    BY <2>1, InitType DEF Init, VoteInv, HeightBound, PrecommitPast, OnePrecommit
<1> QED
  BY <1>1, NextVoteInv, PTL DEF Spec

\* OnePrecommit: an engine precommits at most one block in a round of a height
\* it has gone through once (engine.rs 353-370, bft.rs 82-85), whatever the
\* votes, blocks, timeouts and syncs it meets.
THEOREM OnePrecommitHolds == Spec => []OnePrecommit
BY VoteInvariant, PTL DEF VoteInv

\* HeightNeverBack: the outer loop never works on a lower height than before
\* (engine.rs 263), though a sync lets the chain run ahead of it and a restart
\* reads it again from the store.
THEOREM HeightNeverBackHolds == Spec => HeightNeverBack
<1>1. VoteInv /\ [Next]_vars => [\A n \in Nodes : height[n] <= height'[n]]_vars
  <2> SUFFICES ASSUME VoteInv, Next, NEW m \in Nodes PROVE height[m] <= height'[m]
    BY DEF VoteInv
  <2>1. /\ TypeOK /\ height[m] \in Nat
        /\ \A n \in Nodes : chain[n] \in Seq(Blocks) /\ Len(chain[n]) \in Nat
    BY LenProperties DEF VoteInv, TypeOK
  <2>2. ASSUME height' = height PROVE height[m] <= height'[m]
    BY <2>1, <2>2
  <2>3. ASSUME NEW n \in Nodes, NEW c \in Seq(Blocks), NEW w, EnterHeight(n, c, w),
               Len(chain[n]) <= Len(c)
        PROVE  height[m] <= height'[m]
    <3>1. height' = [height EXCEPT ![n] = Len(c) + 1] /\ Len(c) \in Nat
      BY <2>3, LenProperties DEF EnterHeight
    <3>2. height[n] <= Len(chain[n]) + 1 /\ height[n] \in Nat
      BY DEF VoteInv, HeightBound, TypeOK
    <3>3. CASE m = n
      BY <2>1, <2>3, <3>1, <3>2, <3>3 DEF TypeOK
    <3>4. CASE m # n
      BY <2>1, <3>1, <3>4 DEF TypeOK
    <3> QED
      BY <3>3, <3>4
  <2>4. ASSUME NEW n \in Nodes, Start(n) \/ Restart(n) PROVE height[m] <= height'[m]
    <3>1. EnterHeight(n, chain[n], FALSE)
      BY <2>4 DEF Start, Restart
    <3>2. Len(chain[n]) <= Len(chain[n])
      BY <2>1
    <3> QED
      BY <2>1, <2>3, <3>1, <3>2
  <2>5. ASSUME NEW n \in Nodes, NEW t \in VoteTypes, NEW b \in Blocks, NEW id \in Ids,
               ReceiveVote(n, t, b, id)
        PROVE  height[m] <= height'[m]
    <3>1. ASSUME NEW pv, NEW pc, NEW next, VoteCounted(n, b, next, pv, pc)
          PROVE  height' = height
      BY <3>1 DEF VoteCounted
    <3>2. ASSUME current[n] \in Blocks,
                 EnterHeight(n, ChainAfter(n, current[n]), syncing[n])
          PROVE  height[m] <= height'[m]
      BY <2>1, <2>3, <3>2, ChainAfterType
    <3> QED
      BY <2>1, <2>2, <2>5, <3>1, <3>2, ReceiveVoteCases
  <2>6. ASSUME NEW n \in Nodes, NEW b \in Blocks, ReceiveProposal(n, b) \/ ReceiveBlockAhead(n, b)
        PROVE  height' = height
    BY <2>6 DEF ReceiveProposal, ReceiveBlockAhead
  <2>7. ASSUME NEW n \in Nodes, NEW p, NEW s, NEW k, ReceiveSyncResponse(n, p, s, k)
        PROVE  height' = height
    BY <2>7 DEF ReceiveSyncResponse
  <2>8. ASSUME NEW n \in Nodes, Timeout(n) PROVE height' = height
    BY <2>8 DEF Timeout
  <2> QED
    BY <2>2, <2>4, <2>5, <2>6, <2>7, <2>8 DEF Next, NodeStep
<1> QED
  BY <1>1, VoteInvariant, PTL DEF Spec, HeightNeverBack

---------------------------------------------------------------------------
(* Tallies hold only votes that pass the engine's check.                   *)

TalliesPass ==
  \A n \in Nodes, b \in Blocks :
    /\ \A id \in prevotes[n][b] : Passes(id, b)
    /\ \A id \in precommits[n][b] : Passes(id, b)

TallyInv == TypeOK /\ TalliesPass

\* Votes are never taken back, and an engine's own vote passes.
LEMMA PassesStays ==
  ASSUME votes \subseteq votes', NEW id, NEW b, Passes(id, b) PROVE Passes(id, b)'
BY DEF Passes, HasSigned

LEMMA OwnPasses ==
  ASSUME NEW n \in Keyed, NEW t, NEW h, NEW r, NEW b, Vote(t, h, r, b, n) \in votes'
  PROVE  Passes(n, b)'
BY NodesAssumption DEF Passes, HasSigned, Vote

LEMMA TalliesStay ==
  ASSUME TallyInv, votes \subseteq votes',
         \A m \in Nodes, b \in Blocks :
           /\ \A id \in prevotes'[m][b] : id \in prevotes[m][b] \/ Passes(id, b)'
           /\ \A id \in precommits'[m][b] : id \in precommits[m][b] \/ Passes(id, b)'
  PROVE  TalliesPass'
BY PassesStays DEF TallyInv, TalliesPass

\* A fresh round state counts nothing.
LEMMA EmptiedTallies ==
  ASSUME TallyInv, NEW n \in Nodes, votes' = votes,
         prevotes' = [prevotes EXCEPT ![n] = NoVotes],
         precommits' = [precommits EXCEPT ![n] = NoVotes]
  PROVE  TalliesPass'
<1> SUFFICES ASSUME NEW m \in Nodes, NEW b \in Blocks
             PROVE  /\ prevotes'[m][b] \subseteq prevotes[m][b]
                    /\ precommits'[m][b] \subseteq precommits[m][b]
  BY TalliesStay
<1>1. CASE m = n
  BY <1>1 DEF TallyInv, TypeOK, NoVotes
<1>2. CASE m # n
  BY <1>2 DEF TallyInv, TypeOK
<1> QED
  BY <1>1, <1>2

\* The tallies with the vote received hold votes that pass.
LEMMA CountedPass ==
  ASSUME TallyInv, NEW n \in Nodes, NEW t \in VoteTypes, NEW b \in Blocks, NEW id \in Ids,
         Passes(id, b), NEW pv, NEW pc,
         pv = IF t = "Prevote" THEN AddVote(prevotes[n], b, id) ELSE prevotes[n],
         pc = IF t = "Precommit" THEN AddVote(precommits[n], b, id) ELSE precommits[n]
  PROVE  \A x \in Blocks :
           (\A i \in pv[x] : Passes(i, x)) /\ (\A i \in pc[x] : Passes(i, x))
<1> SUFFICES ASSUME NEW x \in Blocks
             PROVE  (\A i \in pv[x] : Passes(i, x)) /\ (\A i \in pc[x] : Passes(i, x))
  OBVIOUS
<1>1. ASSUME NEW i \in pv[x] PROVE i \in prevotes[n][x] \/ (x = b /\ i = id)
  BY <1>1 DEF TallyInv, TypeOK, AddVote
<1>2. ASSUME NEW i \in pc[x] PROVE i \in precommits[n][x] \/ (x = b /\ i = id)
  BY <1>2 DEF TallyInv, TypeOK, AddVote
<1> QED
  BY <1>1, <1>2 DEF TallyInv, TalliesPass

LEMMA ReceiveVoteTallies ==
  ASSUME TallyInv, NEW n \in Nodes, NEW t \in VoteTypes, NEW b \in Blocks, NEW id \in Ids,
         ReceiveVote(n, t, b, id)
  PROVE  TalliesPass'
<1>1. TypeOK /\ Passes(id, b)
  BY DEF TallyInv, ReceiveVote
<1>2. ASSUME NEW pv \in [Blocks -> SUBSET Ids], NEW pc \in [Blocks -> SUBSET Ids],
             pv = IF t = "Prevote" THEN AddVote(prevotes[n], b, id) ELSE prevotes[n],
             pc = IF t = "Precommit" THEN AddVote(precommits[n], b, id) ELSE precommits[n],
             VoteCounted(n, b, Advance(phase[n], pv, pc, b), pv, pc)
      PROVE  TalliesPass'
  <2>1. \A x \in Blocks :
          (\A i \in pv[x] : Passes(i, x)) /\ (\A i \in pc[x] : Passes(i, x))
    BY <1>1, <1>2, CountedPass
  <2>2. prevotes' = [prevotes EXCEPT ![n] = pv] /\ votes \subseteq votes'
    BY <1>2 DEF VoteCounted
  <2>3. \/ precommits' = [precommits EXCEPT ![n] = pc]
        \/ /\ precommits' = [precommits EXCEPT ![n] = AddVote(pc, b, n)]
           /\ n \in Keyed /\ Vote("Precommit", height[n], round[n], b, n) \in votes'
    BY <1>2 DEF VoteCounted
  <2> SUFFICES ASSUME NEW m \in Nodes, NEW x \in Blocks
               PROVE  /\ \A i \in prevotes'[m][x] : i \in prevotes[m][x] \/ Passes(i, x)'
                      /\ \A i \in precommits'[m][x] : i \in precommits[m][x] \/ Passes(i, x)'
    BY <2>2, TalliesStay
  <2>4. ASSUME NEW i \in prevotes'[m][x] PROVE i \in prevotes[m][x] \/ i \in pv[x]
    BY <1>1, <2>2, <2>4 DEF TypeOK
  <2>5. ASSUME NEW i \in precommits'[m][x]
        PROVE  i \in precommits[m][x] \/ i \in pc[x] \/ Passes(i, x)'
    <3>1. CASE precommits' = [precommits EXCEPT ![n] = pc]
      BY <1>1, <2>5, <3>1 DEF TypeOK
    <3>2. CASE /\ precommits' = [precommits EXCEPT ![n] = AddVote(pc, b, n)]
               /\ n \in Keyed /\ Vote("Precommit", height[n], round[n], b, n) \in votes'
      <4>1. Passes(n, b)'
        BY <3>2, OwnPasses
      <4>2. i \in precommits[m][x] \/ i \in pc[x] \/ (x = b /\ i = n)
        BY <1>1, <1>2, <2>5, <3>2 DEF TypeOK, AddVote
      <4> QED
        BY <4>1, <4>2
    <3> QED
      BY <2>3, <3>1, <3>2
  <2> QED
    BY <2>1, <2>2, <2>4, <2>5, PassesStays
<1>3. ASSUME NEW c, EnterHeight(n, c, syncing[n]), votes' = votes PROVE TalliesPass'
  BY <1>3, EmptiedTallies DEF EnterHeight, FreshRound
<1> QED
  BY <1>1, <1>2, <1>3, ReceiveVoteCases

LEMMA NextTallies == ASSUME TallyInv, [Next]_vars PROVE TallyInv'
<1>1. TypeOK /\ TypeOK'
  BY NextType DEF TallyInv
<1>2. ASSUME UNCHANGED <<votes, prevotes, precommits>> PROVE TalliesPass'
  BY <1>2, TalliesStay
<1>3. ASSUME UNCHANGED vars PROVE TalliesPass'
  BY <1>2, <1>3 DEF vars, engine
<1>4. ASSUME NEW n \in Nodes, Start(n) \/ Restart(n) PROVE TalliesPass'
  BY <1>4, EmptiedTallies DEF Start, Restart, EnterHeight, FreshRound
<1>5. ASSUME NEW n \in Nodes, NEW b \in Blocks, ReceiveProposal(n, b) PROVE TalliesPass'
  <2>1. CASE n \notin Keyed
    BY <1>2, <1>5, <2>1 DEF ReceiveProposal
  <2>2. CASE n \in Keyed
    <3>1. /\ votes' = votes \cup {Vote("Prevote", height[n], round[n], b, n)}
          /\ prevotes' = [prevotes EXCEPT ![n] = AddVote(@, b, n)]
          /\ precommits' = precommits
      BY <1>5, <2>2 DEF ReceiveProposal
    <3>2. Passes(n, b)'
      BY <2>2, <3>1, OwnPasses
    <3> SUFFICES ASSUME NEW m \in Nodes, NEW x \in Blocks, NEW i \in prevotes'[m][x]
                 PROVE  i \in prevotes[m][x] \/ Passes(i, x)'
      BY <3>1, TalliesStay
    <3>3. i \in prevotes[m][x] \/ (x = b /\ i = n)
      BY <1>1, <3>1 DEF TypeOK, AddVote
    <3> QED
      BY <3>2, <3>3
  <2> QED
    BY <2>1, <2>2
<1>6. ASSUME NEW n \in Nodes, NEW b \in Blocks, ReceiveBlockAhead(n, b) PROVE TalliesPass'
  BY <1>2, <1>6 DEF ReceiveBlockAhead
<1>7. ASSUME NEW n \in Nodes, NEW t \in VoteTypes, NEW b \in Blocks, NEW id \in Ids,
             ReceiveVote(n, t, b, id)
      PROVE  TalliesPass'
  BY <1>7, ReceiveVoteTallies
<1>8. ASSUME NEW n \in Nodes, NEW p \in Nodes, NEW s \in asked[n],
             NEW m \in 0 .. Len(chain[p]), ReceiveSyncResponse(n, p, s, m)
      PROVE  TalliesPass'
  BY <1>2, <1>8 DEF ReceiveSyncResponse
<1>9. ASSUME NEW n \in Nodes, Timeout(n) PROVE TalliesPass'
  BY <1>9, EmptiedTallies DEF Timeout, FreshRound
<1> QED
  BY <1>1, <1>3, <1>4, <1>5, <1>6, <1>7, <1>8, <1>9 DEF Next, NodeStep, TallyInv

LEMMA TalliesHold == Spec => []TallyInv
<1>1. Init => TallyInv
  BY InitType DEF Init, TallyInv, TalliesPass, NoVotes
<1> QED
  BY <1>1, NextTallies, PTL DEF Spec

---------------------------------------------------------------------------
(* What a quorum in a tally says of the signatures behind it.              *)

\* A quorum of votes that pass comes from a quorum of signers of the block.
LEMMA QuorumSigned ==
  ASSUME IsFiniteSet(Registered), NEW b, NEW S, \A id \in S : Passes(id, b),
         HasQuorum(Cardinality(S), TotalValidators)
  PROVE  SignedByQuorum(b)
<1> SUFFICES ASSUME Registered # {}
             PROVE  HasThresholdQuorum(Cardinality({id \in Registered : HasSigned(id, b)}),
                                       Cardinality(Registered))
  BY DEF SignedByQuorum
<1> DEFINE T == {id \in Registered : HasSigned(id, b)}
<1>1. S \in SUBSET T /\ T \in SUBSET Registered
  BY DEF Passes
<1> HIDE DEF T
<1>2. IsFiniteSet(T) /\ IsFiniteSet(S) /\ Cardinality(S) <= Cardinality(T)
  BY <1>1, FS_Subset
<1>3. /\ Cardinality(S) \in Nat /\ Cardinality(T) \in Nat /\ Cardinality(Registered) \in Nat
      /\ TotalValidators = Cardinality(Registered)
  BY <1>2, FS_CardinalityType DEF TotalValidators
<1>4. HasQuorum(Cardinality(T), Cardinality(Registered))
  BY <1>2, <1>3 DEF HasQuorum
<1>5. HasThresholdQuorum(Cardinality(T), Cardinality(Registered))
  BY <1>3, <1>4, QuorumRulesAgree
<1> QED
  BY <1>5 DEF T

\* A block that a quorum signed has a signer that is not faulty.
LEMMA SoundSigner ==
  ASSUME Registered # {}, IsFiniteSet(Registered),
         ~HasQuorum(Cardinality(Faulty \cap Registered), Cardinality(Registered)),
         NEW b, SignedByQuorum(b)
  PROVE  \E v \in votes : v.block = b
<1> DEFINE T == {id \in Registered : HasSigned(id, b)}
<1>1. HasThresholdQuorum(Cardinality(T), Cardinality(Registered))
  BY DEF SignedByQuorum
<1>2. T \in SUBSET Registered /\ Faulty \cap Registered \in SUBSET Registered
  OBVIOUS
<1>3. ASSUME T \subseteq Faulty \cap Registered PROVE FALSE
  <2> HIDE DEF T
  <2>1. /\ IsFiniteSet(T) /\ IsFiniteSet(Faulty \cap Registered)
        /\ Cardinality(T) <= Cardinality(Faulty \cap Registered)
    BY <1>2, <1>3, FS_Subset
  <2>2. /\ Cardinality(T) \in Nat /\ Cardinality(Faulty \cap Registered) \in Nat
        /\ Cardinality(Registered) \in Nat
    BY <2>1, FS_CardinalityType
  <2>3. HasQuorum(Cardinality(T), Cardinality(Registered))
    BY <1>1, <2>2, QuorumRulesAgree
  <2> QED
    BY <2>1, <2>2, <2>3 DEF HasQuorum
<1> QED
  BY <1>3 DEF HasSigned

LEMMA VotesGrow == ASSUME TallyInv, [Next]_vars PROVE votes \subseteq votes'
<1>1. CASE UNCHANGED vars
  BY <1>1 DEF vars
<1>2. ASSUME NEW n \in Nodes, NodeStep(n) PROVE votes \subseteq votes'
  <2>1. Start(n) \/ Restart(n) \/ Timeout(n) => votes \subseteq votes'
    BY DEF Start, Restart, Timeout
  <2>2. ASSUME NEW b \in Blocks, ReceiveProposal(n, b) \/ ReceiveBlockAhead(n, b)
        PROVE  votes \subseteq votes'
    BY <2>2 DEF ReceiveProposal, ReceiveBlockAhead
  <2>3. ASSUME NEW t \in VoteTypes, NEW b \in Blocks, NEW id \in Ids, ReceiveVote(n, t, b, id)
        PROVE  votes \subseteq votes'
    <3>1. TypeOK
      BY DEF TallyInv
    <3> QED
      BY <2>3, <3>1, ReceiveVoteCases DEF VoteCounted
  <2>4. ASSUME NEW p \in Nodes, NEW s \in asked[n], NEW m \in 0 .. Len(chain[p]),
               ReceiveSyncResponse(n, p, s, m)
        PROVE  votes \subseteq votes'
    BY <2>4 DEF ReceiveSyncResponse
  <2> QED
    BY <1>2, <2>1, <2>2, <2>3, <2>4 DEF NodeStep
<1> QED
  BY <1>1, <1>2 DEF Next

\* The votes of a step: a prevote for a block of the engine's own height, or a
\* precommit for a block that a quorum has signed.
LEMMA NewVote ==
  ASSUME IsFiniteSet(Registered), TallyInv, Next, NEW v \in votes' \ votes
  PROVE  \/ v.type = "Prevote" /\ v.height = BlockHeight[v.block]
         \/ v.type = "Precommit" /\ SignedByQuorum(v.block)
<1>1. PICK n \in Nodes : NodeStep(n)
  BY DEF Next
<1>2. TypeOK
  BY DEF TallyInv
<1>3. CASE \E b \in Blocks : ReceiveProposal(n, b)
  BY <1>3 DEF ReceiveProposal, Vote
<1>4. ASSUME NEW t \in VoteTypes, NEW b \in Blocks, NEW id \in Ids, ReceiveVote(n, t, b, id)
      PROVE  v.type = "Precommit" /\ SignedByQuorum(v.block)
  <2>1. PICK pv, pc \in [Blocks -> SUBSET Ids] :
          /\ pv = IF t = "Prevote" THEN AddVote(prevotes[n], b, id) ELSE prevotes[n]
          /\ pc = IF t = "Precommit" THEN AddVote(precommits[n], b, id) ELSE precommits[n]
          /\ VoteCounted(n, b, Advance(phase[n], pv, pc, b), pv, pc)
    BY <1>2, <1>4, ReceiveVoteCases
  <2>2. \A i \in pv[b] : Passes(i, b)
    BY <1>4, <2>1, CountedPass DEF ReceiveVote
  <2>3. /\ v = Vote("Precommit", height[n], round[n], b, n)
        /\ Advance(phase[n], pv, pc, b) = "Precommit" /\ phase[n] = "Prevote"
    BY <2>1 DEF VoteCounted
  <2>4. HasQuorum(Cardinality(pv[b]), TotalValidators)
    BY <2>3, AdvanceToPrecommit
  <2>5. SignedByQuorum(b)
    BY <2>2, <2>4, QuorumSigned
  <2> QED
    BY <2>3, <2>5 DEF Vote
<1>5. ~Start(n) /\ ~Restart(n) /\ ~Timeout(n)
  BY DEF Start, Restart, Timeout
<1>6. /\ \A b \in Blocks : ~ReceiveBlockAhead(n, b)
      /\ \A p \in Nodes, s \in asked[n] : \A m \in 0 .. Len(chain[p]) :
           ~ReceiveSyncResponse(n, p, s, m)
  BY DEF ReceiveBlockAhead, ReceiveSyncResponse
<1> QED
  BY <1>1, <1>3, <1>4, <1>5, <1>6 DEF NodeStep

\* PrecommitBacked: an engine precommits only blocks that more than two thirds of
\* the registered validators have signed, in votes of any label (engine.rs 338-370).
THEOREM PrecommitBackedHolds ==
  ASSUME IsFiniteSet(Registered) PROVE Spec => PrecommitBacked
<1> DEFINE A == \A v \in votes' \ votes : v.type = "Precommit" => SignedByQuorum(v.block)
<1>1. TallyInv /\ [Next]_vars => [A]_vars
  BY NewVote
<1> QED
  BY <1>1, TalliesHold, PTL DEF Spec, PrecommitBacked

\* VotesStartAtProposal: when the faulty validators are no quorum by themselves,
\* engines vote only for blocks that one of them prevoted at the block's own
\* height (engine.rs 319-336), whatever labels the votes are given on the way.
THEOREM VotesStartAtProposalHolds ==
  ASSUME Registered # {}, IsFiniteSet(Registered),
         ~HasQuorum(Cardinality(Faulty \cap Registered), Cardinality(Registered))
  PROVE  Spec => []VotesStartAtProposal
<1>1. Init => VotesStartAtProposal
  BY DEF Init, VotesStartAtProposal
<1>2. VotesStartAtProposal /\ TallyInv /\ [Next]_vars => VotesStartAtProposal'
  <2> SUFFICES ASSUME VotesStartAtProposal, TallyInv, [Next]_vars, NEW v \in votes'
               PROVE  \E w \in votes' : w.type = "Prevote" /\ w.block = v.block
                                         /\ w.height = BlockHeight[v.block]
    BY DEF VotesStartAtProposal
  <2>1. votes \subseteq votes'
    BY VotesGrow
  <2>2. ASSUME NEW u \in votes, u.block = v.block
        PROVE  \E w \in votes : w.type = "Prevote" /\ w.block = v.block
                                  /\ w.height = BlockHeight[v.block]
    BY <2>2 DEF VotesStartAtProposal
  <2>3. CASE v \in votes
    BY <2>1, <2>2, <2>3
  <2>4. CASE v \notin votes
    <3>1. Next
      BY <2>4 DEF vars
    <3>2. CASE v.type = "Prevote" /\ v.height = BlockHeight[v.block]
      BY <3>2
    <3>3. CASE SignedByQuorum(v.block)
      <4>1. PICK u \in votes : u.block = v.block
        BY <3>3, SoundSigner
      <4> QED
        BY <2>1, <2>2, <4>1
    <3> QED
      BY <2>4, <3>1, <3>2, <3>3, NewVote
  <2> QED
    BY <2>3, <2>4
<1> QED
  BY <1>1, <1>2, TalliesHold, PTL DEF Spec

---------------------------------------------------------------------------
(* Chains grow over quorums.                                               *)

\* A vote that leads out of the loop completes a quorum of precommits.
LEMMA CommitCertified ==
  ASSUME IsFiniteSet(Registered), TallyInv, NEW n \in Nodes, NEW t \in VoteTypes,
         NEW b \in Blocks, NEW id \in Ids, ReceiveVote(n, t, b, id), chain'[n] # chain[n]
  PROVE  SignedByQuorum(b)
<1> DEFINE pv == IF t = "Prevote" THEN AddVote(prevotes[n], b, id) ELSE prevotes[n]
           pc == IF t = "Precommit" THEN AddVote(precommits[n], b, id) ELSE precommits[n]
<1>1. Advance(phase[n], pv, pc, b) = "Commit" /\ phase[n] = "Precommit"
  BY DEF ReceiveVote, VoteCounted
<1>2. \A i \in pc[b] : Passes(i, b)
  BY CountedPass DEF ReceiveVote
<1> HIDE DEF pv, pc
<1>3. HasQuorum(Cardinality(pc[b]), TotalValidators)
  BY <1>1 DEF Advance
<1> QED
  BY <1>2, <1>3, QuorumSigned

\* CommitNeedsQuorum: outside a sync a chain grows only when more than two thirds
\* of the registered validators have signed one same block (engine.rs 371-383),
\* which need not be the block applied.
THEOREM CommitNeedsQuorumHolds ==
  ASSUME IsFiniteSet(Registered) PROVE Spec => CommitNeedsQuorum
<1> DEFINE A == \A n \in Nodes :
       chain'[n] # chain[n] /\ ~syncing[n] => \E b \in Blocks : SignedByQuorum(b)
<1>1. TallyInv /\ [Next]_vars => [A]_vars
  <2> SUFFICES ASSUME TallyInv, Next, NEW n \in Nodes, chain'[n] # chain[n], ~syncing[n]
               PROVE  \E b \in Blocks : SignedByQuorum(b)
    OBVIOUS
  <2>0. chain \in [Nodes -> Seq(Blocks)]
    BY DEF TallyInv, TypeOK
  <2>1. PICK m \in Nodes : NodeStep(m)
    BY DEF Next
  <2>2. ~Start(m) /\ ~Restart(m) /\ ~Timeout(m)
    BY <2>0 DEF Start, Restart, EnterHeight, Timeout
  <2>3. \A b \in Blocks : ~ReceiveProposal(m, b) /\ ~ReceiveBlockAhead(m, b)
    BY DEF ReceiveProposal, ReceiveBlockAhead
  <2>4. \A p \in Nodes, s \in asked[m] : \A k \in 0 .. Len(chain[p]) :
          ~ReceiveSyncResponse(m, p, s, k)
    BY <2>0 DEF ReceiveSyncResponse
  <2>5. PICK t \in VoteTypes, b \in Blocks, id \in Ids : ReceiveVote(m, t, b, id)
    BY <2>1, <2>2, <2>3, <2>4 DEF NodeStep
  <2>6. m = n
    BY <2>0, <2>5 DEF ReceiveVote, VoteCounted, EnterHeight
  <2> QED
    BY <2>5, <2>6, CommitCertified
<1> QED
  BY <1>1, TalliesHold, PTL DEF Spec, CommitNeedsQuorum

---------------------------------------------------------------------------
(* The sync.                                                               *)

LEMMA EnterHeightSyncs ==
  ASSUME TypeOK, NEW n \in Nodes, NEW c, NEW w \in BOOLEAN, EnterHeight(n, c, w)
  PROVE  \A m \in Nodes : syncing'[m] => IF m = n THEN w ELSE syncing[m]
<1>1. syncing' = [syncing EXCEPT ![n] = w /\ StillBehind(Len(c), target[n])]
  BY DEF EnterHeight
<1> QED
  BY <1>1 DEF TypeOK

LEMMA NextNeverStalls ==
  ASSUME TypeOK, SyncNeverStalls, [Next]_vars PROVE SyncNeverStalls'
<1> USE DEF SyncNeverStalls
<1>1. CASE UNCHANGED vars
  BY <1>1 DEF vars, engine
<1>2. ASSUME UNCHANGED <<syncing, asked>> PROVE SyncNeverStalls'
  BY <1>2
<1>3. ASSUME NEW n \in Nodes, Start(n) PROVE SyncNeverStalls'
  BY <1>3, EnterHeightSyncs DEF Start
<1>4. ASSUME NEW n \in Nodes, Restart(n) PROVE SyncNeverStalls'
  BY <1>4, EnterHeightSyncs DEF Restart, TypeOK
<1>5. ASSUME NEW n \in Nodes, NEW b \in Blocks, ReceiveProposal(n, b) PROVE SyncNeverStalls'
  BY <1>5 DEF ReceiveProposal
<1>6. ASSUME NEW n \in Nodes, NEW b \in Blocks, ReceiveBlockAhead(n, b) PROVE SyncNeverStalls'
  BY <1>6 DEF ReceiveBlockAhead, TypeOK
<1>7. ASSUME NEW n \in Nodes, NEW t \in VoteTypes, NEW b \in Blocks, NEW id \in Ids,
             ReceiveVote(n, t, b, id)
      PROVE  SyncNeverStalls'
  <2>1. syncing[n] \in BOOLEAN
    BY DEF TypeOK
  <2>2. ASSUME NEW c, EnterHeight(n, c, syncing[n]), UNCHANGED asked PROVE SyncNeverStalls'
    BY <2>1, <2>2, EnterHeightSyncs
  <2> QED
    BY <1>2, <1>7, <2>2, ReceiveVoteCases DEF VoteCounted
<1>8. ASSUME NEW n \in Nodes, NEW p \in Nodes, NEW s \in asked[n],
             NEW m \in 0 .. Len(chain[p]), ReceiveSyncResponse(n, p, s, m)
      PROVE  SyncNeverStalls'
  <2>1. CASE syncing[n]
    <3>1. PICK k : /\ syncing' = [syncing EXCEPT ![n] = StillBehind(k, target[n])]
                   /\ asked' = [asked EXCEPT ![n] = (@ \ {s}) \cup NextRequest(n, k)]
      BY <1>8, <2>1 DEF ReceiveSyncResponse
    <3>2. StillBehind(k, target[n]) => NextRequest(n, k) # {}
      BY DEF NextRequest
    <3> QED
      BY <3>1, <3>2 DEF TypeOK
  <2>2. CASE ~syncing[n]
    BY <1>8, <2>2 DEF ReceiveSyncResponse, TypeOK
  <2> QED
    BY <2>1, <2>2
<1>9. ASSUME NEW n \in Nodes, Timeout(n) PROVE SyncNeverStalls'
  BY <1>9 DEF Timeout
<1> QED
  BY <1>1, <1>3, <1>4, <1>5, <1>6, <1>7, <1>8, <1>9 DEF Next, NodeStep

\* SyncNeverStalls: an engine that syncs has a request on the wire, through answers
\* that are short, late or for another range, commits, timeouts and restarts
\* (engine.rs 405-419).
THEOREM SyncNeverStallsHolds == Spec => []SyncNeverStalls
<1>1. Init => SyncNeverStalls
  BY DEF Init, SyncNeverStalls
<1> QED
  BY <1>1, NextNeverStalls, TypeCorrect, PTL DEF Spec

---------------------------------------------------------------------------
(* Heights run again.                                                      *)

\* What an engine would execute is of the height of its loop.
CurrentHeight == \A n \in Nodes : current[n] # NoBlock => BlockHeight[current[n]] = height[n]

LEMMA EnterHeightCurrent ==
  ASSUME TypeOK, CurrentHeight, NEW n \in Nodes, NEW c, NEW w, EnterHeight(n, c, w)
  PROVE  CurrentHeight'
<1>1. current' = [current EXCEPT ![n] = NoBlock] /\ height' = [height EXCEPT ![n] = Len(c) + 1]
  BY DEF EnterHeight
<1> QED
  BY <1>1 DEF TypeOK, CurrentHeight

LEMMA NextCurrent == ASSUME TypeOK, CurrentHeight, [Next]_vars PROVE CurrentHeight'
<1>1. CASE UNCHANGED vars
  BY <1>1 DEF vars, engine, CurrentHeight
<1>2. ASSUME UNCHANGED <<current, height>> PROVE CurrentHeight'
  BY <1>2 DEF CurrentHeight
<1>3. ASSUME NEW n \in Nodes, Start(n) \/ Restart(n) PROVE CurrentHeight'
  BY <1>3, EnterHeightCurrent DEF Start, Restart
<1>4. ASSUME NEW n \in Nodes, NEW b \in Blocks, ReceiveProposal(n, b) PROVE CurrentHeight'
  BY <1>4 DEF ReceiveProposal, TypeOK, CurrentHeight
<1>5. ASSUME NEW n \in Nodes, NEW b \in Blocks, ReceiveBlockAhead(n, b) PROVE CurrentHeight'
  BY <1>2, <1>5 DEF ReceiveBlockAhead
<1>6. ASSUME NEW n \in Nodes, NEW t \in VoteTypes, NEW b \in Blocks, NEW id \in Ids,
             ReceiveVote(n, t, b, id)
      PROVE  CurrentHeight'
  BY <1>2, <1>6, ReceiveVoteCases, EnterHeightCurrent DEF VoteCounted
<1>7. ASSUME NEW n \in Nodes, NEW p \in Nodes, NEW s \in asked[n],
             NEW m \in 0 .. Len(chain[p]), ReceiveSyncResponse(n, p, s, m)
      PROVE  CurrentHeight'
  BY <1>2, <1>7 DEF ReceiveSyncResponse
<1>8. ASSUME NEW n \in Nodes, Timeout(n) PROVE CurrentHeight'
  BY <1>2, <1>8 DEF Timeout
<1> QED
  BY <1>1, <1>3, <1>4, <1>5, <1>6, <1>7, <1>8 DEF Next, NodeStep

\* A block that is accepted and spends nothing twice takes the engine to another
\* height when it is committed.
LEMMA AcceptedMovesOn ==
  ASSUME HasGenesis, TypeOK, HeightBound, CurrentHeight, NEW n \in Nodes, current[n] \in Blocks,
         Accepts(n, current[n]), ~DoubleSpends(spent[n], current[n])
  PROVE  Len(ChainAfter(n, current[n])) + 1 # height[n]
<1>1. chain[n] \in Seq(Blocks) /\ Len(chain[n]) \in Nat /\ height[n] \in Nat
  BY DEF TypeOK
<1>2. BlockHeight[current[n]] = height[n] /\ height[n] <= Len(chain[n]) + 1
  BY BlocksAssumption DEF CurrentHeight, HeightBound
<1>3. CASE Executes(n, current[n])
  <2>1. Len(ChainAfter(n, current[n])) = Len(chain[n]) + 1
    BY <1>1, <1>3 DEF ChainAfter
  <2> QED
    BY <1>1, <1>2, <2>1
<1>4. CASE ~Executes(n, current[n])
  <2>1. height[n] # Len(chain[n]) + 1
    BY <1>2, <1>4 DEF Executes, TakesHeight
  <2> QED
    BY <1>4, <2>1 DEF ChainAfter
<1> QED
  BY <1>3, <1>4

\* RerunOnlyIfRejected: over a store with a genesis block, a height is run again
\* only after a restart, when a check of the engine rejects the block it was
\* committing, or when the store refuses it for a double spend (engine.rs
\* 373-383, state.rs 74-92).
THEOREM RerunOnlyIfRejectedHolds == ASSUME HasGenesis PROVE Spec => RerunOnlyIfRejected
<1> DEFINE A == \A n \in Nodes :
       <<n, height[n]>> \in reentered' \ reentered
       => \/ restarts' # restarts
          \/ ~Accepts(n, current[n])
          \/ DoubleSpends(spent[n], current[n])
<1>1. Init => CurrentHeight
  BY DEF Init, CurrentHeight
<1>2. VoteInv /\ CurrentHeight /\ [Next]_vars => [A]_vars
  <2> SUFFICES ASSUME VoteInv, CurrentHeight, Next, NEW n \in Nodes,
                      <<n, height[n]>> \in reentered' \ reentered,
                      Accepts(n, current[n]), ~DoubleSpends(spent[n], current[n])
               PROVE  restarts' # restarts
    OBVIOUS
  <2>0. TypeOK /\ HeightBound
    BY DEF VoteInv
  <2>1. PICK m \in Nodes : NodeStep(m)
    BY DEF Next
  <2>2. CASE Start(m)
    <3>1. height[m] = 0 /\ Len(chain[m]) \in Nat
          /\ reentered' = IF height[m] = Len(chain[m]) + 1
                          THEN reentered \cup {<<m, Len(chain[m]) + 1>>} ELSE reentered
      BY <2>0, <2>2 DEF Start, EnterHeight, TypeOK
    <3> QED
      BY <3>1
  <2>3. CASE Restart(m)
    BY <2>0, <2>3 DEF Restart, TypeOK
  <2>4. CASE \E t \in VoteTypes, b \in Blocks, id \in Ids : ReceiveVote(m, t, b, id)
    <3>1. /\ current[m] \in Blocks
          /\ reentered' = IF height[m] = Len(ChainAfter(m, current[m])) + 1
                          THEN reentered \cup {<<m, height[m]>>} ELSE reentered
      BY <2>0, <2>4, ReceiveVoteCases DEF VoteCounted, EnterHeight
    <3>2. m = n /\ height[n] = Len(ChainAfter(n, current[n])) + 1
      BY <3>1
    <3> QED
      BY <2>0, <3>1, <3>2, AcceptedMovesOn
  <2>5. UNCHANGED reentered \/ Start(m) \/ Restart(m)
        \/ \E t \in VoteTypes, b \in Blocks, id \in Ids : ReceiveVote(m, t, b, id)
    BY <2>1 DEF NodeStep, ReceiveProposal, ReceiveBlockAhead, ReceiveSyncResponse, Timeout
  <2> QED
    BY <2>2, <2>3, <2>4, <2>5
<1>3. TypeOK /\ CurrentHeight /\ [Next]_vars => CurrentHeight'
  BY NextCurrent
<1> QED
  BY <1>1, <1>2, <1>3, VoteInvariant, TypeCorrect, PTL DEF Spec, RerunOnlyIfRejected
=============================================================================
