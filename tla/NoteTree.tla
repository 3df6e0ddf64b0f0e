------------------------------ MODULE NoteTree ------------------------------
(***************************************************************************)
(* The arithmetic of NoteCommitmentTree: append carries full subtrees up   *)
(* the frontier, root folds it from the leaves to the top.  Hashes are the *)
(* terms they are computed from, so that equal hashes are equal terms.     *)
(***************************************************************************)
EXTENDS Integers

CONSTANT Depth \* NOTE_COMMITMENT_TREE_DEPTH, 32

ASSUME DepthAssumption == Depth \in Nat \ {0}

Levels == 0 .. Depth - 1
Leaf(k) == <<"leaf", k>>          \* the k-th commitment
EmptyLeaf == <<"leaf", 0>>
Missing == <<"none", 0>>
HashPair(left, right) == <<"node", left, right>>

EmptyRoot[i \in 0 .. Depth] ==
  IF i = 0 THEN EmptyLeaf ELSE HashPair(EmptyRoot[i - 1], EmptyRoot[i - 1])

EmptyFrontier == [i \in Levels |-> Missing]

\* The number of subtrees that the new leaf completes, and their hashes joined.
Carries(frontier) ==
  CHOOSE n \in 0..Depth : /\ \A i \in 0 .. n - 1 : frontier[i] # Missing
                          /\ n < Depth => frontier[n] = Missing

Joined(frontier, leaf) ==
  LET node[i \in 0 .. Depth] == IF i = 0 THEN leaf ELSE HashPair(frontier[i - 1], node[i - 1])
  IN node

\* Mutant: the subtrees that were joined stay in the frontier.
AppendKeeping(frontier, leaf) ==
  LET n == Carries(frontier)
  IN [i \in Levels |-> IF i = n THEN Joined(frontier, leaf)[n] ELSE frontier[i]]

AppendTo(frontier, leaf) ==
  LET n == Carries(frontier)
  IN [i \in Levels |->
        IF i < n THEN Missing ELSE IF i = n THEN Joined(frontier, leaf)[n] ELSE frontier[i]]

\* size >> i, for each i.
Shifted(size) ==
  LET shifted[i \in 0 .. Depth] == IF i = 0 THEN size ELSE shifted[i - 1] \div 2
  IN shifted

Sibling(frontier, i) == IF frontier[i] = Missing THEN EmptyRoot[i] ELSE frontier[i]

\* From the leaf that comes next up to the root.
Path(frontier, size) ==
  LET node[i \in 0 .. Depth] ==
        IF i = 0 THEN EmptyLeaf
        ELSE IF Shifted(size)[i - 1] % 2 = 1 THEN HashPair(Sibling(frontier, i - 1), node[i - 1])
                                             ELSE HashPair(node[i - 1], Sibling(frontier, i - 1))
  IN node

Root(frontier, size) == Path(frontier, size)[Depth]

---------------------------------------------------------------------------
(* The reference: the full binary tree over the leaves.                    *)

\* Of each level, the nodes from the left.
Subtrees(n) ==
  LET node[i \in 0 .. Depth] ==
        IF i = 0 THEN [j \in Nat |-> IF j < n THEN Leaf(j + 1) ELSE EmptyLeaf]
        ELSE [j \in Nat |-> HashPair(node[i - 1][2 * j], node[i - 1][2 * j + 1])]
  IN node

\* The frontier after each of n appends.
Frontiers(n) ==
  LET frontier[k \in 0 .. n] ==
        IF k = 0 THEN EmptyFrontier ELSE AppendTo(frontier[k - 1], Leaf(k))
  IN frontier

\* As long as it is not full (n < 2^Depth), the tree has the root of the full
\* binary tree over its leaves and empty ones (merkle.rs 46-55 with 65-76);
\* with one leaf more it would have the root of the empty tree.
RootIsOfLeaves(n) ==
  Shifted(n)[Depth] = 0 => Root(Frontiers(n)[n], n) = Subtrees(n)[Depth][0]
=============================================================================
