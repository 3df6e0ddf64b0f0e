------------------------------- MODULE MCNode -------------------------------
(***************************************************************************)
(* A transfer of two notes, a rival for the second of them, a transfer     *)
(* with a bad proof, and a contract call without outputs; a chain from     *)
(* elsewhere of two blocks.                                                *)
(***************************************************************************)
EXTENDS Node

Tx(id, fee, spends, outputs, proven) ==
  [id |-> id, fee |-> fee, gas |-> 1, spends |-> spends, outputs |-> outputs, proven |-> proven]

Transfer == Tx("transfer", 1, <<"z", "x">>, 1, TRUE)
Rival == Tx("rival", 2, <<"x">>, 0, TRUE)
Forged == Tx("forged", 1, <<"y">>, 1, FALSE)
Call == Tx("call", 2, <<>>, 0, TRUE)
FourTxs == {Transfer, Rival, Forged, Call}

Genesis == <<>>
TwoBlocks == <<Genesis, <<Rival, Call>>>>
=============================================================================
