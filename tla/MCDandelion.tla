---------------------------- MODULE MCDandelion ----------------------------
(***************************************************************************)
(* Routers that can form a ring.                                           *)
(***************************************************************************)
EXTENDS Dandelion

CONSTANTS n1, n2, n3, t1
=============================================================================
