---------------------------- MODULE MCBftEngine ----------------------------
(***************************************************************************)
(* Small instances of BftEngine.  The sealed blocks come from another      *)
(* program, since the engine's own builder leaves the signature empty.     *)
(***************************************************************************)
EXTENDS BftEngine, TLC

CONSTANTS n1, n2, f1, f2, a, b, c, x, y

\* Elections won by a validator that is not one of these engines, or by n1.
LeaderElsewhere(h) == f1
LeaderN1(h) == n1

\* Heights of the blocks a, b and c in the instances.
OneHeight == [block \in Blocks |-> 1]
Consecutive == a :> 1 @@ b :> 2
TwoAndNext == a :> 1 @@ b :> 1 @@ c :> 2

\* Their nullifiers.  Block b is refused for its second spend and leaves y
\* behind, over which a is refused too; or none clash.
NoSpends == [block \in Blocks |-> <<>>]
Leaving == a :> <<y>> @@ b :> <<y, y>>
Chained == a :> <<x>> @@ b :> <<y>>
=============================================================================
