----------------------------- MODULE Dandelion -----------------------------
(***************************************************************************)
(* DandelionRouter at several peers: a transaction is handed from router   *)
(* to router until one of them broadcasts it, by chance, for want of a     *)
(* successor, or when its time in the stem is over.  A ForwardTo is a      *)
(* message to the peer it names, which may be lost.                        *)
(***************************************************************************)
EXTENDS Integers, Sequences

CONSTANTS
  Nodes, Txs,
  Outside,    \* whoever hands in a transaction without being a router
  FluffNodes, \* routers in their fluff phase
  None        \* no successor, no state

ASSUME DandelionAssumption ==
  /\ Outside \notin Nodes /\ None \notin Nodes \cup {Outside, "stem", "fluff"}
  /\ FluffNodes \subseteq Nodes

VARIABLES
  successor, \* stem_successor
  phase,     \* of each tx_states entry: "stem" or "fluff", None without an entry
  overdue,   \* entries whose stem_deadline lies in the past
  stem,      \* messages on their way: <<from, to, transaction>>
  forwards,  \* history: of each router and transaction, the <<from, to>> of
             \* its ForwardTo decisions
  fluffs,    \* history: how often it broadcast an entry of its own
  public     \* history: the transactions that were broadcast at all

vars == <<successor, phase, overdue, stem, forwards, fluffs, public>>

---------------------------------------------------------------------------
\* The entry for t becomes a fluff entry, and the caller broadcasts.
FlipToFluff(n, t) ==
  /\ phase' = [phase EXCEPT ![<<n, t>>] = "fluff"]
  /\ fluffs' = [fluffs EXCEPT ![<<n, t>>] = @ + 1]
  /\ public' = public \cup {t}
  /\ UNCHANGED forwards

\* Mutants: a forwarded transaction is not remembered, or as one in fluff.
ForwardUnrecorded(n, t, from) ==
  /\ n \notin FluffNodes /\ successor[n] \notin {None, from}
  /\ forwards' = [forwards EXCEPT ![<<n, t>>] = Append(@, <<from, successor[n]>>)]
  /\ UNCHANGED <<phase, fluffs, public>>
ForwardAsFluff(n, t, from) ==
  /\ n \notin FluffNodes /\ successor[n] \notin {None, from}
  /\ phase' = [phase EXCEPT ![<<n, t>>] = "fluff"]
  /\ forwards' = [forwards EXCEPT ![<<n, t>>] = Append(@, <<from, successor[n]>>)]
  /\ UNCHANGED <<fluffs, public>>

Forward(n, t, from) ==
  /\ n \notin FluffNodes /\ successor[n] \notin {None, from}
  /\ phase' = [phase EXCEPT ![<<n, t>>] = "stem"]
  /\ forwards' = [forwards EXCEPT ![<<n, t>>] = Append(@, <<from, successor[n]>>)]
  /\ UNCHANGED <<fluffs, public>>

\* Without a successor, or back to where it came from: broadcast, and nothing
\* is remembered.
FallBack(n, t, from) ==
  /\ n \notin FluffNodes /\ successor[n] \in {None, from}
  /\ public' = public \cup {t}
  /\ UNCHANGED <<phase, forwards, fluffs>>

\* route_tx; the coin may always fall on fluff.  What else is on the way is `rest'.
RouteTx(n, t, from, rest) ==
  /\ IF phase[<<n, t>>] # None
     THEN stem' = rest /\ UNCHANGED <<phase, forwards, fluffs, public>>
     ELSE \/ FlipToFluff(n, t) /\ stem' = rest
          \/ Forward(n, t, from) /\ stem' = rest \cup {<<n, successor[n], t>>}
          \/ FallBack(n, t, from) /\ stem' = rest
  /\ UNCHANGED <<successor, overdue>>

Submit(n, t) == RouteTx(n, t, Outside, stem)
Deliver(m) == m \in stem /\ RouteTx(m[2], m[3], m[1], stem \ {m})
Lose(m) ==
  /\ m \in stem /\ stem' = stem \ {m}
  /\ UNCHANGED <<successor, phase, overdue, forwards, fluffs, public>>

\* rotate_successor, to one of the peers connected just then.
RotateSuccessor(n, peer) ==
  /\ successor' = [successor EXCEPT ![n] = peer]
  /\ UNCHANGED <<phase, overdue, stem, forwards, fluffs, public>>

\* The deadline of an entry passes.
Expire(n, t) ==
  /\ phase[<<n, t>>] = "stem" /\ <<n, t>> \notin overdue
  /\ overdue' = overdue \cup {<<n, t>>}
  /\ UNCHANGED <<successor, phase, stem, forwards, fluffs, public>>

Expired(n) == {t \in Txs : phase[<<n, t>>] = "stem" /\ <<n, t>> \in overdue}

\* Mutant: the expired are returned, and their phase stays.
FlushKeepingPhase(n) ==
  /\ Expired(n) # {}
  /\ fluffs' = [p \in Nodes \X Txs |-> IF p[1] = n /\ p[2] \in Expired(n) THEN fluffs[p] + 1 ELSE fluffs[p]]
  /\ public' = public \cup Expired(n)
  /\ UNCHANGED <<successor, phase, overdue, stem, forwards>>

\* flush_expired_stems, and the caller broadcasts what it returns.
FlushExpiredStems(n) ==
  /\ Expired(n) # {}
  /\ phase' = [p \in Nodes \X Txs |-> IF p[1] = n /\ p[2] \in Expired(n) THEN "fluff" ELSE phase[p]]
  /\ fluffs' = [p \in Nodes \X Txs |-> IF p[1] = n /\ p[2] \in Expired(n) THEN fluffs[p] + 1 ELSE fluffs[p]]
  /\ public' = public \cup Expired(n)
  /\ UNCHANGED <<successor, overdue, stem, forwards>>

---------------------------------------------------------------------------
Init ==
  /\ successor = [n \in Nodes |-> None]
  /\ phase = [p \in Nodes \X Txs |-> None] /\ overdue = {}
  /\ stem = {} /\ public = {}
  /\ forwards = [p \in Nodes \X Txs |-> <<>>] /\ fluffs = [p \in Nodes \X Txs |-> 0]

Next ==
  \/ \E n \in Nodes, t \in Txs : Submit(n, t) \/ Expire(n, t)
  \/ \E m \in stem : Deliver(m) \/ Lose(m)
  \/ \E n \in Nodes : \E peer \in (Nodes \ {n}) \cup {None} : RotateSuccessor(n, peer)
  \/ \E n \in Nodes : FlushExpiredStems(n)

Spec == Init /\ [][Next]_vars

\* Time passes, and the stems are flushed periodically, as the comment of
\* flush_expired_stems asks; no caller in the node does so yet.
FairSpec ==
  /\ Spec
  /\ \A n \in Nodes : WF_vars(FlushExpiredStems(n))
  /\ \A n \in Nodes, t \in Txs : WF_vars(Expire(n, t))

---------------------------------------------------------------------------
(* Properties.                                                             *)

TypeOK ==
  /\ successor \in [Nodes -> Nodes \cup {None}]
  /\ phase \in [Nodes \X Txs -> {"stem", "fluff", None}]
  /\ overdue \subseteq Nodes \X Txs
  /\ stem \subseteq Nodes \X Nodes \X Txs
  /\ forwards \in [Nodes \X Txs -> Seq((Nodes \cup {Outside}) \X Nodes)]
  /\ fluffs \in [Nodes \X Txs -> Nat]
  /\ public \subseteq Txs

\* However often a transaction comes back, a router forwards it once, and never
\* to the peer it came from: a stem cannot loop (dandelion.rs 89-91, 132-144).
ForwardedOnce ==
  \A p \in Nodes \X Txs :
    /\ Len(forwards[p]) <= 1
    /\ \A k \in DOMAIN forwards[p] : forwards[p][k][1] # forwards[p][k][2]

\* What a router remembers it broadcasts once, by the coin or by the flush, and
\* not while it is in the stem (dandelion.rs 77-85).  A broadcast for want of a
\* successor is not remembered, and not counted here.
FluffedOnce ==
  \A p \in Nodes \X Txs : fluffs[p] = IF phase[p] = "fluff" THEN 1 ELSE 0

\* A transaction that some router put into the stem becomes public, whatever is
\* lost on its way and whoever drops it (dandelion.rs 74-86).
StemEndsInFluff ==
  \A p \in Nodes \X Txs : (forwards[p] # <<>>) ~> (p[2] \in public)
=============================================================================
