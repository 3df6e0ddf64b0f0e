------------------------------- MODULE Ledger -------------------------------
(***************************************************************************)
(* What the block index of a node promises its readers: the tip rises one  *)
(* height at a time, a block is recorded once, at the tip and under its    *)
(* own height, and a height below the tip may be forgotten.  A reader can  *)
(* meet an unrecorded tip, but never another block at a height.            *)
(***************************************************************************)
EXTENDS Integers

CONSTANTS Blocks, BlockHeight, NoBlock, Heights

VARIABLES tip, index

vars == <<tip, index>>

Init == tip = -1 /\ index = [h \in Heights |-> NoBlock]

Extend == tip' = tip + 1 /\ UNCHANGED index

Record(b) ==
  /\ BlockHeight[b] = tip
  /\ tip \in Heights /\ index[tip] = NoBlock
  /\ index' = [index EXCEPT ![tip] = b]
  /\ UNCHANGED tip

Forget(h) ==
  /\ h < tip
  /\ index' = [index EXCEPT ![h] = NoBlock]
  /\ UNCHANGED tip

Next == Extend \/ (\E b \in Blocks : Record(b)) \/ (\E h \in Heights : Forget(h))

Spec == Init /\ [][Next]_vars
=============================================================================
