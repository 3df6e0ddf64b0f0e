----------------------------- MODULE StatusLine -----------------------------
(***************************************************************************)
(* What a node promises the callers of get_sync_status: they stand in one  *)
(* line, each at most once, and are answered in the order they came.       *)
(***************************************************************************)
EXTENDS Sequences

CONSTANT Callers

VARIABLE line

Init == line = <<>>

Ask(r) == (\A k \in DOMAIN line : line[k] # r) /\ line' = Append(line, r)

Answer == line # <<>> /\ line' = Tail(line)

Next == Answer \/ \E r \in Callers : Ask(r)

Spec == Init /\ [][Next]_line
=============================================================================
