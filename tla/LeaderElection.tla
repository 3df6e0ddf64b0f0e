--------------------------- MODULE LeaderElection ---------------------------
(***************************************************************************)
(* Who may lead: the set of an epoch built from the validator tree, the    *)
(* stake-weighted choice of ValidatorSet and the one of LeaderSelector,    *)
(* and what accepted evidence of a double sign does to a validator.        *)
(* A tree is a sequence of records [id, stake, status, epoch, slashed], in *)
(* the order of its keys; hashes of the seeds are draws.                   *)
(***************************************************************************)
EXTENDS Integers, Sequences, FiniteSets, SequencesExt

CONSTANT Draws, \* the draws are 0 .. Draws - 1, 2^128 of them in the code
         SlashBps \* of a double sign, 500

ASSUME ElectionAssumption == Draws \in Nat \ {0} /\ SlashBps \in 0..10000

IsActive(v) == v.status = "active"

\* The stakes of the first k validators of s, for each k; and of all.
StakesUpTo(s) ==
  LET stakes[k \in 0 .. Len(s)] == IF k = 0 THEN 0 ELSE stakes[k - 1] + s[k].stake
  IN stakes
TotalStake(s) == StakesUpTo(s)[Len(s)]

\* The members in a row; ahead[i] are those that come before i.
InLine(members, ahead) ==
  [k \in 1 .. Cardinality(members) |-> CHOOSE i \in members : Cardinality(ahead[i]) = k - 1]

Picked(tree, order) == [k \in DOMAIN order |-> tree[order[k]]]

---------------------------------------------------------------------------
(* Evidence.                                                               *)

\* Mutant: the status is left alone.
ApplyEvidenceOnly(v, id, hash1, hash2) ==
  IF v.id # id \/ hash1 = hash2 THEN v
  ELSE [v EXCEPT !.slashed = @ + (v.stake * SlashBps) \div 10000]

\* Evidence for another validator, or for one block twice, is refused; else
\* the share is noted (the stake itself stays) and the validator is out.
ApplyEvidence(v, id, hash1, hash2) ==
  IF v.id # id \/ hash1 = hash2 THEN v
  ELSE [v EXCEPT !.slashed = @ + (v.stake * SlashBps) \div 10000, !.status = "tombstoned"]

---------------------------------------------------------------------------
(* ValidatorSet.                                                           *)

\* By stake, highest first; equal stakes keep the order of the tree.
RicherThan(tree, members) ==
  [i \in members |->
     {j \in members : tree[j].stake > tree[i].stake \/ (tree[j].stake = tree[i].stake /\ j < i)}]

EpochSet(tree, epoch) ==
  LET entries == {i \in DOMAIN tree : tree[i].epoch <= epoch /\ IsActive(tree[i])}
  IN Picked(tree, InLine(entries, RicherThan(tree, entries)))

\* The first validator whose cumulative stake exceeds the threshold, or 0.
FirstAbove(s, threshold) ==
  LET above == {k \in DOMAIN s : StakesUpTo(s)[k] > threshold}
  IN IF above = {} THEN 0 ELSE Min(above)

\* Mutant: the comparison takes in the threshold itself.
ElectLeaderInclusive(set, draw) ==
  LET threshold == draw % (IF TotalStake(set) = 0 THEN 1 ELSE TotalStake(set))
      above == {k \in DOMAIN set : StakesUpTo(set)[k] >= threshold}
  IN IF above = {} THEN Head(set) ELSE set[Min(above)]

\* Of a set that is not empty; without stake the first of the set leads.
ElectLeader(set, draw) ==
  LET k == FirstAbove(set, draw % (IF TotalStake(set) = 0 THEN 1 ELSE TotalStake(set)))
  IN IF k = 0 THEN Head(set) ELSE set[k]

---------------------------------------------------------------------------
(* LeaderSelector, over the active validators of any epoch.                *)

IdsBelow(tree, members) == [i \in members |-> {j \in members : tree[j].id < tree[i].id}]

ActiveValidators(tree) == {i \in DOMAIN tree : IsActive(tree[i])}

NewSelector(tree) ==
  Picked(tree, InLine(ActiveValidators(tree), IdsBelow(tree, ActiveValidators(tree))))

\* Without stake each validator is as likely as another.
SelectLeader(s, draw) ==
  LET k == FirstAbove(s, draw % TotalStake(s))
  IN IF TotalStake(s) = 0 THEN s[(draw % Len(s)) + 1]
     ELSE IF k = 0 THEN Last(s) ELSE s[k]

---------------------------------------------------------------------------
(* The reference: shares of the draws.  leads[d] leads at the draw d.      *)

\* How many draws choose v.
Chosen(v, leads) == Cardinality({d \in 0 .. Draws - 1 : leads[d].id = v.id})

\* As many as its part of each full turn of the draws, and of the last turn at
\* most that part again.
Proportional(n, part, whole) ==
  n - part * (Draws \div whole) \in 0 .. (IF Draws % whole < part THEN Draws % whole ELSE part)

SharesOf(s, leads) ==
  \A k \in DOMAIN s : Proportional(Chosen(s[k], leads), s[k].stake, TotalStake(s))

Elected(set) == [d \in 0 .. Draws - 1 |-> ElectLeader(set, d)]
SelectedLeaders(s) == [d \in 0 .. Draws - 1 |-> SelectLeader(s, d)]

\* Each validator of the epoch leads for its stake's share of the draws, in
\* both rules (validator.rs 226-232, leader.rs 53-61); without stake one leads
\* for all draws, or each for an equal part.
SharesAreStakes(tree, epoch) ==
  LET set == EpochSet(tree, epoch)
      active == NewSelector(tree)
  IN /\ set # <<>> =>
          IF TotalStake(set) > 0 THEN SharesOf(set, Elected(set))
          ELSE \A d \in 0 .. Draws - 1 : Elected(set)[d] = set[1]
     /\ active # <<>> =>
          IF TotalStake(active) > 0 THEN SharesOf(active, SelectedLeaders(active))
          ELSE \A k \in DOMAIN active :
                 Proportional(Chosen(active[k], SelectedLeaders(active)), 1, Len(active))
=============================================================================
