----------------------------- MODULE BftQuorum -----------------------------
(***************************************************************************)
(* The two ways the code counts a ">2/3" quorum of validators: the strict  *)
(* product comparison of BftRoundState, which the engine acts on, and the  *)
(* precomputed threshold of ValidatorSet.                                  *)
(***************************************************************************)
EXTENDS Integers, FiniteSets

\* bft.rs, has_quorum_prevote and has_quorum_precommit: voters of total.
HasQuorum(voters, total) == voters * 3 > total * 2

\* validator.rs, ValidatorSet::new: the stored threshold for n validators.
QuorumThreshold(n) == (n * 2) \div 3 + 1

\* validator.rs, ValidatorSet::has_quorum.
HasThresholdQuorum(signed, n) == signed >= QuorumThreshold(n)

\* validator.rs, ValidatorSet::has_stake_quorum.
HasStakeQuorum(signedStake, totalStake) == signedStake * 3 > totalStake * 2

=============================================================================
