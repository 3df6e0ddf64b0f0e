-------------------------- MODULE DandelionProofs --------------------------
(***************************************************************************)
(* Theorems about Dandelion, for any number of routers and transactions.   *)
(***************************************************************************)
EXTENDS Dandelion, TLAPS

Pairs == Nodes \X Txs
Senders == Nodes \cup {Outside}

\* A router has decided nothing about a transaction it has no entry for.
NothingDecided == \A p \in Pairs : phase[p] = None => forwards[p] = <<>>

RouterInv == TypeOK /\ NothingDecided /\ ForwardedOnce /\ FluffedOnce

---------------------------------------------------------------------------
LEMMA InitInv == Init => RouterInv
<1> SUFFICES ASSUME Init PROVE RouterInv
  OBVIOUS
<1>1. TypeOK
  BY DEF Init, TypeOK
<1>2. NothingDecided /\ ForwardedOnce /\ FluffedOnce
  BY DandelionAssumption DEF Init, NothingDecided, ForwardedOnce, FluffedOnce, Pairs
<1> QED
  BY <1>1, <1>2 DEF RouterInv

\* What holds of each pair carries over when only pair <<n, t>> changes.
LEMMA ForwardKeeps ==
  ASSUME RouterInv, NEW n \in Nodes, NEW t \in Txs, NEW from \in Senders,
         phase[<<n, t>>] = None, Forward(n, t, from),
         stem' \subseteq Nodes \X Nodes \X Txs, UNCHANGED <<successor, overdue>>
  PROVE  RouterInv'
<1> DEFINE p0 == <<n, t>>
<1>1. p0 \in Pairs /\ successor[n] \in Nodes /\ successor[n] # from
  BY DEF Pairs, Forward, RouterInv, TypeOK
<1>2. forwards[p0] = <<>> /\ fluffs[p0] = 0
  BY <1>1, DandelionAssumption DEF RouterInv, NothingDecided, FluffedOnce, Pairs
<1>3. /\ phase' = [phase EXCEPT ![p0] = "stem"]
      /\ forwards' = [forwards EXCEPT ![p0] = Append(@, <<from, successor[n]>>)]
      /\ UNCHANGED <<fluffs, public>>
  BY DEF Forward
<1>4. forwards'[p0] = << <<from, successor[n]>> >>
  <2>1. forwards'[p0] = Append(forwards[p0], <<from, successor[n]>>)
    BY <1>1, <1>3 DEF RouterInv, TypeOK, Pairs
  <2> QED
    BY <2>1, <1>2
<1>5. \A p \in Pairs : p # p0 => forwards'[p] = forwards[p] /\ phase'[p] = phase[p]
  BY <1>3 DEF RouterInv, TypeOK, Pairs
<1>6. phase'[p0] = "stem" /\ fluffs'[p0] = 0
  BY <1>1, <1>2, <1>3 DEF RouterInv, TypeOK, Pairs
<1>7. TypeOK'
  <2>1. << <<from, successor[n]>> >> \in Seq(Senders \X Nodes)
    BY <1>1
  <2>2. forwards' \in [Pairs -> Seq(Senders \X Nodes)]
    <3>1. forwards \in [Pairs -> Seq(Senders \X Nodes)]
      BY DEF RouterInv, TypeOK, Pairs, Senders
    <3>2. forwards' = [forwards EXCEPT ![p0] = << <<from, successor[n]>> >>]
      BY <1>2, <1>3, <3>1
    <3> QED
      BY <2>1, <3>1, <3>2
  <2> QED
    BY <1>3, <2>2 DEF RouterInv, TypeOK, Pairs, Senders
<1>8. NothingDecided'
  BY <1>5, <1>6, DandelionAssumption DEF RouterInv, NothingDecided
<1>9. ForwardedOnce'
  <2> SUFFICES ASSUME NEW p \in Pairs
               PROVE  /\ Len(forwards'[p]) <= 1
                      /\ \A k \in DOMAIN forwards'[p] : forwards'[p][k][1] # forwards'[p][k][2]
    BY DEF ForwardedOnce, Pairs
  <2>1. CASE p = p0
    BY <1>1, <1>4, <2>1
  <2>2. CASE p # p0
    BY <1>5, <2>2 DEF RouterInv, ForwardedOnce, Pairs
  <2> QED
    BY <2>1, <2>2
<1>10. FluffedOnce'
  BY <1>3, <1>5, <1>6 DEF RouterInv, FluffedOnce, Pairs
<1> QED
  BY <1>7, <1>8, <1>9, <1>10 DEF RouterInv

LEMMA FlipKeeps ==
  ASSUME RouterInv, NEW n \in Nodes, NEW t \in Txs,
         phase[<<n, t>>] = None, FlipToFluff(n, t),
         stem' \subseteq Nodes \X Nodes \X Txs, UNCHANGED <<successor, overdue>>
  PROVE  RouterInv'
<1> DEFINE p0 == <<n, t>>
<1>1. p0 \in Pairs /\ fluffs[p0] = 0
  BY DandelionAssumption DEF Pairs, RouterInv, FluffedOnce
<1>2. /\ phase' = [phase EXCEPT ![p0] = "fluff"]
      /\ fluffs' = [fluffs EXCEPT ![p0] = @ + 1]
      /\ public' = public \cup {t} /\ UNCHANGED forwards
  BY DEF FlipToFluff
<1>3. TypeOK'
  BY <1>1, <1>2 DEF RouterInv, TypeOK, Pairs
<1>4. NothingDecided'
  <2>1. \A p \in Pairs : phase'[p] = None => phase[p] = None
    BY <1>1, <1>2, DandelionAssumption DEF RouterInv, TypeOK, Pairs
  <2> QED
    BY <1>2, <2>1 DEF RouterInv, NothingDecided
<1>5. ForwardedOnce'
  BY <1>2 DEF RouterInv, ForwardedOnce
<1>6. FluffedOnce'
  BY <1>1, <1>2 DEF RouterInv, TypeOK, FluffedOnce, Pairs
<1> QED
  BY <1>3, <1>4, <1>5, <1>6 DEF RouterInv

LEMMA RouteKeeps ==
  ASSUME RouterInv, NEW n \in Nodes, NEW t \in Txs, NEW from \in Senders,
         NEW rest \in SUBSET (Nodes \X Nodes \X Txs), RouteTx(n, t, from, rest)
  PROVE  RouterInv'
<1>1. CASE phase[<<n, t>>] # None
  BY <1>1 DEF RouteTx, RouterInv, TypeOK, NothingDecided, ForwardedOnce, FluffedOnce
<1>2. CASE phase[<<n, t>>] = None /\ FlipToFluff(n, t) /\ stem' = rest
  BY <1>2, FlipKeeps DEF RouteTx
<1>3. CASE phase[<<n, t>>] = None /\ Forward(n, t, from) /\ stem' = rest \cup {<<n, successor[n], t>>}
  <2>1. successor[n] \in Nodes
    BY <1>3 DEF Forward, RouterInv, TypeOK
  <2>2. stem' \subseteq Nodes \X Nodes \X Txs
    BY <1>3, <2>1
  <2> QED
    BY <1>3, <2>2, ForwardKeeps DEF RouteTx
<1>4. CASE phase[<<n, t>>] = None /\ FallBack(n, t, from) /\ stem' = rest
  BY <1>4 DEF RouteTx, FallBack, RouterInv, TypeOK, NothingDecided, ForwardedOnce, FluffedOnce
<1> QED
  BY <1>1, <1>2, <1>3, <1>4 DEF RouteTx

LEMMA FlushKeeps ==
  ASSUME RouterInv, NEW n \in Nodes, FlushExpiredStems(n) PROVE RouterInv'
<1> DEFINE flushed == {p \in Pairs : p[1] = n /\ p[2] \in Expired(n)}
<1>1. /\ phase' = [p \in Pairs |-> IF p \in flushed THEN "fluff" ELSE phase[p]]
      /\ fluffs' = [p \in Pairs |-> IF p \in flushed THEN fluffs[p] + 1 ELSE fluffs[p]]
      /\ public' = public \cup Expired(n)
      /\ UNCHANGED <<successor, overdue, stem, forwards>>
  BY DEF FlushExpiredStems, Pairs
<1>2. \A p \in flushed : phase[p] = "stem" /\ fluffs[p] = 0
  BY DEF Pairs, Expired, RouterInv, FluffedOnce
<1>3. TypeOK'
  <2>1. Expired(n) \subseteq Txs
    BY DEF Expired
  <2> QED
    BY <1>1, <2>1 DEF RouterInv, TypeOK, Pairs
<1>4. NothingDecided'
  BY <1>1, DandelionAssumption DEF RouterInv, NothingDecided
<1>5. ForwardedOnce'
  BY <1>1 DEF RouterInv, ForwardedOnce
<1>6. FluffedOnce'
  <2> SUFFICES ASSUME NEW p \in Pairs PROVE fluffs'[p] = IF phase'[p] = "fluff" THEN 1 ELSE 0
    BY DEF FluffedOnce, Pairs
  <2>1. CASE p \in flushed
    BY <1>1, <1>2, <2>1
  <2>2. CASE p \notin flushed
    BY <1>1, <2>2 DEF RouterInv, FluffedOnce, Pairs
  <2> QED
    BY <2>1, <2>2
<1> QED
  BY <1>3, <1>4, <1>5, <1>6 DEF RouterInv

LEMMA StepKeeps == RouterInv /\ [Next]_vars => RouterInv'
<1> SUFFICES ASSUME RouterInv, [Next]_vars PROVE RouterInv'
  OBVIOUS
<1> USE DEF RouterInv
<1>1. ASSUME NEW n \in Nodes, NEW t \in Txs, Submit(n, t) PROVE RouterInv'
  <2>1. stem \in SUBSET (Nodes \X Nodes \X Txs) /\ Outside \in Senders
    BY DEF TypeOK, Senders
  <2> QED
    BY <1>1, <2>1, RouteKeeps DEF Submit
<1>2. ASSUME NEW n \in Nodes, NEW t \in Txs, Expire(n, t) PROVE RouterInv'
  BY <1>2 DEF Expire, TypeOK, NothingDecided, ForwardedOnce, FluffedOnce
<1>3. ASSUME NEW m \in stem, Deliver(m) PROVE RouterInv'
  <2>1. /\ m[2] \in Nodes /\ m[3] \in Txs /\ m[1] \in Senders
        /\ stem \ {m} \in SUBSET (Nodes \X Nodes \X Txs)
    BY DEF TypeOK, Senders
  <2> QED
    BY <1>3, <2>1, RouteKeeps DEF Deliver
<1>4. ASSUME NEW m \in stem, Lose(m) PROVE RouterInv'
  BY <1>4 DEF Lose, TypeOK, NothingDecided, ForwardedOnce, FluffedOnce
<1>5. ASSUME NEW n \in Nodes, NEW peer \in (Nodes \ {n}) \cup {None}, RotateSuccessor(n, peer)
      PROVE RouterInv'
  BY <1>5 DEF RotateSuccessor, TypeOK, NothingDecided, ForwardedOnce, FluffedOnce
<1>6. ASSUME NEW n \in Nodes, FlushExpiredStems(n) PROVE RouterInv'
  BY <1>6, FlushKeeps
<1>7. CASE UNCHANGED vars
  BY <1>7 DEF vars, TypeOK, NothingDecided, ForwardedOnce, FluffedOnce
<1> QED
  BY <1>1, <1>2, <1>3, <1>4, <1>5, <1>6, <1>7 DEF Next

---------------------------------------------------------------------------
\* A router forwards a transaction once, and never back (route_tx).
THEOREM ForwardedOnceHolds == Spec => []ForwardedOnce
<1>1. Spec => []RouterInv
  BY InitInv, StepKeeps, PTL DEF Spec
<1>2. RouterInv => ForwardedOnce
  BY DEF RouterInv
<1> QED
  BY <1>1, <1>2, PTL

\* A router broadcasts what it remembers once (route_tx, flush_expired_stems).
THEOREM FluffedOnceHolds == Spec => []FluffedOnce
<1>1. Spec => []RouterInv
  BY InitInv, StepKeeps, PTL DEF Spec
<1>2. RouterInv => FluffedOnce
  BY DEF RouterInv
<1> QED
  BY <1>1, <1>2, PTL
=============================================================================
