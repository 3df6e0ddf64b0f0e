---------------------------- MODULE MCStateStore ----------------------------
(***************************************************************************)
(* A store that meets blocks of heights 0 to 3.  Two compete at height 1,  *)
(* one of them refused half way; the block at height 2 may meet its own    *)
(* nullifier there, and one transaction, a contract call, is in two blocks.*)
(***************************************************************************)
EXTENDS StateStore, TLC

CONSTANTS g, a, b, c, d, x, y, o1, o2, o3, t1, t2, t3

HeightOf == g :> 0 @@ a :> 1 @@ b :> 1 @@ c :> 2 @@ d :> 3

OpsOf ==
  g :> <<<<"output", o1>>>> @@
  a :> <<<<"spend", x>>, <<"output", o2>>>> @@
  b :> <<<<"output", o3>>, <<"spend", y>>, <<"spend", y>>>> @@
  c :> <<<<"spend", y>>, <<"output", o3>>, <<"output", o1>>>> @@
  d :> <<>>

TxsOf == g :> {t1} @@ a :> {t2} @@ b :> {t3} @@ c :> {t3, t1} @@ d :> {}
=============================================================================
