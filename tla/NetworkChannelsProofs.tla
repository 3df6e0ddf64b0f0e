----------------------- MODULE NetworkChannelsProofs -----------------------
(***************************************************************************)
(* Theorems about NetworkChannels, for any capacities and any number of    *)
(* RPC requests.                                                           *)
(***************************************************************************)
EXTENDS NetworkChannels, WellFoundedInduction, TLAPS

\* A task is in the waiting line of the channel it is suspended at, once, and
\* in no other.
WaitingOnce ==
  \A c \in Channels :
    /\ \A k \in 1..Len(waiting[c]) : at[waiting[c][k]] = c
    /\ \A j, k \in 1..Len(waiting[c]) : waiting[c][j] = waiting[c][k] => j = k

\* ReplyPending, over indices.
HighOnce ==
  \A r \in Callers :
    /\ at[r] = "reply" <=> \E k \in 1..Len(queue["high"]) : queue["high"][k] = r
    /\ \A j, k \in 1..Len(queue["high"]) :
         queue["high"][j] = r /\ queue["high"][k] = r => j = k

ChannelInv == TypeOK /\ WaitingOnce /\ HighOnce

---------------------------------------------------------------------------
LEMMA AppendFacts ==
  ASSUME NEW S, NEW s \in Seq(S), NEW e \in S
  PROVE  /\ Append(s, e) \in Seq(S) /\ Len(Append(s, e)) = Len(s) + 1
         /\ \A k \in 1..Len(s) : Append(s, e)[k] = s[k]
         /\ Append(s, e)[Len(s) + 1] = e
  OBVIOUS

LEMMA TailFacts ==
  ASSUME NEW S, NEW s \in Seq(S), s # <<>>
  PROVE  /\ Head(s) = s[1] /\ Head(s) \in S /\ Len(s) \in Nat /\ Len(s) >= 1
         /\ Tail(s) \in Seq(S) /\ Len(Tail(s)) = Len(s) - 1
         /\ \A k \in 1..(Len(s) - 1) : Tail(s)[k] = s[k + 1]
  OBVIOUS

LEMMA Names == /\ Callers \subseteq Tasks /\ "service" \in Tasks /\ "engine" \in Tasks
               /\ "service" \notin Callers /\ "engine" \notin Callers
               /\ Lanes \subseteq Channels /\ Inputs \subseteq Channels /\ "txs" \in Channels
               /\ "high" \in Lanes /\ "low" \in Lanes
               /\ \A x : Lane(x) \in Lanes
               /\ Lane("status") = "high"
  BY ChannelsAssumption DEF Tasks, Channels, Lanes, Inputs, Lane

LEMMA CommandsExist == \A t \in Tasks, c \in Channels : Sent(t, c) \in {"reply", "idle"}
  BY DEF Sent

---------------------------------------------------------------------------
(* Receiving and sending.                                                  *)

LEMMA ReceivedFacts ==
  ASSUME TypeOK, NEW c \in Channels, queue[c] # <<>>
  PROVE  /\ Received(c) \in [Channels -> Seq(Tasks)]
         /\ \A d \in Channels : Len(Received(c)[d]) <= Capacity[d]
         /\ \A d \in Channels : d # c => Received(c)[d] = queue[d]
         /\ Received(c)[c] = Tail(queue[c])
<1>1. queue \in [Channels -> Seq(Tasks)] /\ queue[c] \in Seq(Tasks)
  BY DEF TypeOK
<1>2. Tail(queue[c]) \in Seq(Tasks) /\ Len(Tail(queue[c])) = Len(queue[c]) - 1 /\ Len(queue[c]) \in Nat
  BY <1>1, TailFacts
<1>3. Capacity[c] \in Nat /\ Len(queue[c]) <= Capacity[c]
  BY ChannelsAssumption DEF TypeOK
<1> QED
  BY <1>1, <1>2, <1>3 DEF Received, TypeOK

\* What a step that sends does to channels and tasks, whatever was received
\* before it in the same step.
LEMMA SendFacts ==
  ASSUME TypeOK, NEW t \in Tasks, NEW c \in Channels,
         NEW q \in [Channels -> Seq(Tasks)],
         \A d \in Channels : Len(q[d]) <= Capacity[d],
         Send(t, c, q)
  PROVE  /\ TypeOK'
         /\ \A u \in Tasks : u # t => at'[u] = at[u]
         /\ \A d \in Channels : d # c => queue'[d] = q[d] /\ waiting'[d] = waiting[d]
         /\ \/ /\ Len(q[c]) < Capacity[c]
               /\ queue'[c] = Append(q[c], t) /\ waiting'[c] = waiting[c]
               /\ at'[t] = Sent(t, c)
            \/ /\ queue'[c] = q[c] /\ waiting'[c] = Append(waiting[c], t) /\ at'[t] = c
<1>1. /\ waiting \in [Channels -> Seq(Tasks)] /\ at \in [Tasks -> Waits \cup Channels]
      /\ q[c] \in Seq(Tasks) /\ waiting[c] \in Seq(Tasks)
  BY DEF TypeOK
<1>2. Capacity[c] \in Nat /\ Len(q[c]) \in Nat /\ Len(q[c]) <= Capacity[c]
  BY <1>1, ChannelsAssumption
<1>3. CASE Len(q[c]) < Capacity[c] /\ waiting[c] = <<>>
  <2>1. /\ queue' = [q EXCEPT ![c] = Append(@, t)]
        /\ at' = [at EXCEPT ![t] = Sent(t, c)] /\ waiting' = waiting
    BY <1>3 DEF Send
  <2>2. Append(q[c], t) \in Seq(Tasks) /\ Len(Append(q[c], t)) = Len(q[c]) + 1
    BY <1>1, AppendFacts
  <2>3. Sent(t, c) \in Waits
    BY CommandsExist DEF Waits
  <2>4. TypeOK'
    BY <1>1, <1>2, <1>3, <2>1, <2>2, <2>3 DEF TypeOK
  <2> QED
    BY <1>1, <1>3, <2>1, <2>4
<1>4. CASE ~(Len(q[c]) < Capacity[c] /\ waiting[c] = <<>>)
  <2>1. /\ queue' = q /\ at' = [at EXCEPT ![t] = c]
        /\ waiting' = [waiting EXCEPT ![c] = Append(@, t)]
    BY <1>4 DEF Send
  <2>2. Append(waiting[c], t) \in Seq(Tasks)
    BY <1>1, AppendFacts
  <2>3. TypeOK'
    BY <1>1, <2>1, <2>2 DEF TypeOK
  <2> QED
    BY <1>1, <2>1, <2>3
<1> QED
  BY <1>3, <1>4

\* Tasks that are not waiting, and so may send.
Free == {"idle", "boot", "jitter"}

LEMMA FreeIsNoChannel == \A x \in Free : x \notin Channels /\ x # "reply"
  BY DEF Free, Channels, Lanes, Inputs

LEMMA SendKeepsLines ==
  ASSUME ChannelInv, NEW t \in Tasks, NEW c \in Channels, at[t] \in Free,
         NEW q \in [Channels -> Seq(Tasks)],
         \A d \in Channels : Len(q[d]) <= Capacity[d],
         Send(t, c, q)
  PROVE  WaitingOnce'
<1>1. /\ \A u \in Tasks : u # t => at'[u] = at[u]
      /\ \A d \in Channels : d # c => queue'[d] = q[d] /\ waiting'[d] = waiting[d]
      /\ \/ waiting'[c] = waiting[c]
         \/ waiting'[c] = Append(waiting[c], t) /\ at'[t] = c
  BY SendFacts DEF ChannelInv
<1>2. \A d \in Channels : waiting[d] \in Seq(Tasks)
  BY DEF ChannelInv, TypeOK
<1>3. \A d \in Channels : \A k \in 1..Len(waiting[d]) :
        waiting[d][k] \in Tasks /\ at[waiting[d][k]] = d /\ waiting[d][k] # t
  BY <1>2, FreeIsNoChannel DEF ChannelInv, WaitingOnce
<1>4. \A d \in Channels : \A k \in 1..Len(waiting[d]) : at'[waiting[d][k]] = d
  BY <1>1, <1>3
<1>5. \A d \in Channels : \A j, k \in 1..Len(waiting[d]) :
        waiting[d][j] = waiting[d][k] => j = k
  BY DEF ChannelInv, WaitingOnce
<1>6. ASSUME NEW d \in Channels, waiting'[d] = waiting[d]
      PROVE  /\ \A k \in 1..Len(waiting'[d]) : at'[waiting'[d][k]] = d
             /\ \A j, k \in 1..Len(waiting'[d]) : waiting'[d][j] = waiting'[d][k] => j = k
  BY <1>4, <1>5, <1>6
<1>7. ASSUME waiting'[c] = Append(waiting[c], t), at'[t] = c
      PROVE  /\ \A k \in 1..Len(waiting'[c]) : at'[waiting'[c][k]] = c
             /\ \A j, k \in 1..Len(waiting'[c]) : waiting'[c][j] = waiting'[c][k] => j = k
  <2>1. /\ Len(waiting'[c]) = Len(waiting[c]) + 1 /\ Len(waiting[c]) \in Nat
        /\ \A k \in 1..Len(waiting[c]) : waiting'[c][k] = waiting[c][k]
        /\ waiting'[c][Len(waiting[c]) + 1] = t
    BY <1>2, <1>7, AppendFacts
  <2> QED
    BY <2>1, <1>3, <1>4, <1>5, <1>7
<1> QED
  BY <1>1, <1>6, <1>7 DEF WaitingOnce

LEMMA SendKeepsReplies ==
  ASSUME ChannelInv, NEW t \in Tasks, NEW c \in Channels, at[t] \in Free,
         NEW q \in [Channels -> Seq(Tasks)],
         \A d \in Channels : Len(q[d]) <= Capacity[d],
         q["high"] = queue["high"],
         Send(t, c, q)
  PROVE  HighOnce'
<1>1. /\ \A u \in Tasks : u # t => at'[u] = at[u]
      /\ c # "high" => queue'["high"] = queue["high"]
      /\ \/ /\ queue'[c] = Append(q[c], t) /\ at'[t] = Sent(t, c)
         \/ /\ queue'[c] = q[c] /\ at'[t] = c
  <2>1. TypeOK
    BY DEF ChannelInv
  <2>2. /\ \A u \in Tasks : u # t => at'[u] = at[u]
        /\ \A d \in Channels : d # c => queue'[d] = q[d]
        /\ \/ /\ queue'[c] = Append(q[c], t) /\ at'[t] = Sent(t, c)
           \/ /\ queue'[c] = q[c] /\ at'[t] = c
    BY <2>1, SendFacts
  <2> QED
    BY <2>2, Names
<1>2. queue["high"] \in Seq(Tasks)
  BY Names DEF ChannelInv, TypeOK
<1>3. at[t] # "reply" /\ c # "reply"
  BY FreeIsNoChannel DEF Channels, Lanes, Inputs
<1>4. ASSUME NEW r \in Callers
      PROVE  /\ r \in Tasks
             /\ at[r] = "reply" <=> \E k \in 1..Len(queue["high"]) : queue["high"][k] = r
             /\ \A j, k \in 1..Len(queue["high"]) :
                  queue["high"][j] = r /\ queue["high"][k] = r => j = k
  BY Names DEF ChannelInv, HighOnce
<1>5. CASE c = "high" /\ queue'[c] = Append(q[c], t) /\ at'[t] = Sent(t, c)
  <2>1. queue'["high"] = Append(queue["high"], t)
    BY <1>5
  <2>2. /\ Len(queue'["high"]) = Len(queue["high"]) + 1 /\ Len(queue["high"]) \in Nat
        /\ \A k \in 1..Len(queue["high"]) : queue'["high"][k] = queue["high"][k]
        /\ queue'["high"][Len(queue["high"]) + 1] = t
    BY <1>2, <2>1, AppendFacts
  <2>3. t \in Callers => at'[t] = "reply"
    BY <1>5, Names DEF Sent
  <2>4. ASSUME NEW r \in Callers, r # t
        PROVE  /\ at'[r] = "reply" <=> \E k \in 1..Len(queue'["high"]) : queue'["high"][k] = r
               /\ \A j, k \in 1..Len(queue'["high"]) :
                    queue'["high"][j] = r /\ queue'["high"][k] = r => j = k
    <3>1. at'[r] = at[r]
      BY <1>1, <1>4, <2>4
    <3>2. \A k \in 1..Len(queue'["high"]) :
            queue'["high"][k] = r => k \in 1..Len(queue["high"]) /\ queue["high"][k] = r
      BY <2>2, <2>4
    <3>3. \A k \in 1..Len(queue["high"]) :
            k \in 1..Len(queue'["high"]) /\ queue'["high"][k] = queue["high"][k]
      BY <2>2
    <3> QED
      BY <3>1, <3>2, <3>3, <1>4
  <2>5. ASSUME t \in Callers
        PROVE  /\ at'[t] = "reply" <=> \E k \in 1..Len(queue'["high"]) : queue'["high"][k] = t
               /\ \A j, k \in 1..Len(queue'["high"]) :
                    queue'["high"][j] = t /\ queue'["high"][k] = t => j = k
    <3>1. \A k \in 1..Len(queue["high"]) : queue["high"][k] # t
      BY <1>3, <1>4, <2>5
    <3>2. \A k \in 1..Len(queue'["high"]) : queue'["high"][k] = t => k = Len(queue["high"]) + 1
      BY <2>2, <3>1
    <3>3. Len(queue["high"]) + 1 \in 1..Len(queue'["high"])
      BY <2>2
    <3> QED
      BY <2>2, <2>3, <2>5, <3>2, <3>3
  <2> QED
    BY <2>4, <2>5 DEF HighOnce
<1>6. CASE queue'["high"] = queue["high"] /\ at'[t] # "reply"
  BY <1>6, <1>1, <1>3, <1>4 DEF HighOnce
<1>7. c # "high" => Sent(t, c) # "reply"
  BY Names DEF Sent
<1> QED
  BY <1>1, <1>3, <1>5, <1>6, <1>7

LEMMA SendKeepsInv ==
  ASSUME ChannelInv, NEW t \in Tasks, NEW c \in Channels, at[t] \in Free,
         NEW q \in [Channels -> Seq(Tasks)],
         \A d \in Channels : Len(q[d]) <= Capacity[d],
         q["high"] = queue["high"],
         Send(t, c, q)
  PROVE  ChannelInv'
<1>1. TypeOK'
  BY SendFacts DEF ChannelInv
<1> QED
  BY <1>1, SendKeepsLines, SendKeepsReplies DEF ChannelInv

---------------------------------------------------------------------------
(* Steps that send nothing.                                                *)

\* Between two waits that are not in a channel, a task moves freely.
LEMMA MoveKeepsInv ==
  ASSUME ChannelInv, NEW t \in Tasks, NEW x \in Free, at[t] \in Free,
         at' = [at EXCEPT ![t] = x], UNCHANGED <<queue, waiting>>
  PROVE  ChannelInv'
<1>1. x \in Waits /\ x # "reply" /\ at[t] # "reply" /\ at[t] \notin Channels /\ x \notin Channels
  BY FreeIsNoChannel DEF Free, Waits
<1>2. TypeOK'
  BY <1>1 DEF ChannelInv, TypeOK
<1>3. \A u \in Tasks : at'[u] = IF u = t THEN x ELSE at[u]
  BY DEF ChannelInv, TypeOK
<1>4. WaitingOnce'
  <2>1. \A d \in Channels : \A k \in 1..Len(waiting[d]) : waiting[d][k] \in Tasks
    BY DEF ChannelInv, TypeOK
  <2> QED
    BY <1>1, <1>3, <2>1 DEF ChannelInv, WaitingOnce
<1>5. HighOnce'
  BY <1>1, <1>3, Names DEF ChannelInv, HighOnce
<1> QED
  BY <1>2, <1>4, <1>5 DEF ChannelInv

\* A message received from any channel but "high".
LEMMA ReceiveKeepsInv ==
  ASSUME ChannelInv, NEW c \in Channels, c # "high", queue[c] # <<>>,
         queue' = Received(c), UNCHANGED <<at, waiting>>
  PROVE  ChannelInv'
<1>1. TypeOK
  BY DEF ChannelInv
<1>2. /\ queue' \in [Channels -> Seq(Tasks)]
      /\ \A d \in Channels : Len(queue'[d]) <= Capacity[d]
      /\ queue'["high"] = queue["high"]
  BY <1>1, ReceivedFacts, Names
<1>3. TypeOK'
  BY <1>1, <1>2 DEF TypeOK
<1>4. WaitingOnce'
  BY DEF ChannelInv, WaitingOnce
<1>5. HighOnce'
  BY <1>2 DEF ChannelInv, HighOnce
<1> QED
  BY <1>3, <1>4, <1>5 DEF ChannelInv

\* The oldest command of the high lane: its sender, if it is a handler of
\* get_sync_status, gets its reply.
LEMMA HandleHighKeepsInv == ASSUME ChannelInv, HandleHigh PROVE ChannelInv'
<1> DEFINE s == queue["high"]
           h == Head(s)
<1>1. /\ TypeOK /\ s \in Seq(Tasks) /\ s # <<>> /\ waiting' = waiting
      /\ queue' = Received("high")
      /\ at' = [t \in Tasks |-> IF t \in Callers /\ t = h THEN "idle" ELSE at[t]]
  BY Names DEF ChannelInv, TypeOK, HandleHigh
<1>2. /\ h = s[1] /\ h \in Tasks /\ Len(s) \in Nat /\ Len(s) >= 1
      /\ Len(Tail(s)) = Len(s) - 1
      /\ \A k \in 1..(Len(s) - 1) : Tail(s)[k] = s[k + 1]
  BY <1>1, TailFacts
<1>3. /\ queue' \in [Channels -> Seq(Tasks)]
      /\ \A d \in Channels : Len(queue'[d]) <= Capacity[d]
      /\ queue'["high"] = Tail(s)
  BY <1>1, ReceivedFacts, Names
<1>4. TypeOK'
  BY <1>1, <1>3 DEF TypeOK, Waits
<1>5. \A t \in Tasks : at'[t] = at[t] \/ (t \in Callers /\ at[t] = "reply")
  <2>1. h \in Callers => at[h] = "reply"
    BY <1>2 DEF ChannelInv, HighOnce
  <2> QED
    BY <1>1, <2>1
<1>6. WaitingOnce'
  <2>1. \A d \in Channels : \A k \in 1..Len(waiting[d]) :
          waiting[d][k] \in Tasks /\ at[waiting[d][k]] = d
    BY <1>1 DEF ChannelInv, WaitingOnce, TypeOK
  <2>2. "reply" \notin Channels
    BY DEF Channels, Lanes, Inputs
  <2> QED
    BY <1>1, <1>5, <2>1, <2>2 DEF ChannelInv, WaitingOnce
<1>7. HighOnce'
  <2> SUFFICES ASSUME NEW r \in Callers
               PROVE  /\ at'[r] = "reply" <=>
                           \E k \in 1..Len(queue'["high"]) : queue'["high"][k] = r
                      /\ \A j, k \in 1..Len(queue'["high"]) :
                           queue'["high"][j] = r /\ queue'["high"][k] = r => j = k
    BY DEF HighOnce
  <2>1. /\ at[r] = "reply" <=> \E k \in 1..Len(s) : s[k] = r
        /\ \A j, k \in 1..Len(s) : s[j] = r /\ s[k] = r => j = k
    BY DEF ChannelInv, HighOnce
  <2>2. \A k \in 1..Len(Tail(s)) : Tail(s)[k] = s[k + 1] /\ k + 1 \in 1..Len(s)
    BY <1>2
  <2>3. \A k \in 1..Len(s) : k # 1 => k - 1 \in 1..Len(Tail(s)) /\ Tail(s)[k - 1] = s[k]
    BY <1>2
  <2>4. \A j, k \in 1..Len(Tail(s)) : Tail(s)[j] = r /\ Tail(s)[k] = r => j = k
    BY <2>1, <2>2, <1>2
  <2>5. at'[r] = IF r = h THEN "idle" ELSE at[r]
    BY <1>1, Names
  <2>6. CASE r = h
    <3>1. \A k \in 1..Len(Tail(s)) : Tail(s)[k] # r
      BY <1>2, <2>1, <2>2, <2>6
    <3> QED
      BY <2>4, <2>5, <2>6, <3>1, <1>3
  <2>7. CASE r # h
    <3>1. (\E k \in 1..Len(s) : s[k] = r) <=> \E k \in 1..Len(Tail(s)) : Tail(s)[k] = r
      BY <1>2, <2>2, <2>3, <2>7
    <3> QED
      BY <2>1, <2>4, <2>5, <2>7, <3>1, <1>3
  <2> QED
    BY <2>6, <2>7
<1> QED
  BY <1>4, <1>6, <1>7 DEF ChannelInv

---------------------------------------------------------------------------
(* The first waiter of a channel gets the free place.                      *)

LEMMA ResumeFacts ==
  ASSUME ChannelInv, NEW c \in Channels, Resume(c)
  PROVE  /\ waiting[c] \in Seq(Tasks) /\ waiting[c] # <<>>
         /\ Head(waiting[c]) = waiting[c][1] /\ Head(waiting[c]) \in Tasks
         /\ at[Head(waiting[c])] = c
         /\ Len(queue[c]) < Capacity[c]
         /\ queue'[c] = Append(queue[c], Head(waiting[c]))
         /\ waiting'[c] = Tail(waiting[c])
         /\ \A d \in Channels : d # c => queue'[d] = queue[d] /\ waiting'[d] = waiting[d]
         /\ \A u \in Tasks :
              at'[u] = IF u = Head(waiting[c]) THEN Sent(u, c) ELSE at[u]
         /\ TypeOK'
<1>1. /\ queue \in [Channels -> Seq(Tasks)] /\ waiting \in [Channels -> Seq(Tasks)]
      /\ at \in [Tasks -> Waits \cup Channels]
      /\ \A d \in Channels : Len(queue[d]) <= Capacity[d]
  BY DEF ChannelInv, TypeOK
<1>2. /\ waiting[c] # <<>> /\ Len(queue[c]) < Capacity[c]
      /\ queue' = [queue EXCEPT ![c] = Append(@, Head(waiting[c]))]
      /\ at' = [at EXCEPT ![Head(waiting[c])] = Sent(Head(waiting[c]), c)]
      /\ waiting' = [waiting EXCEPT ![c] = Tail(@)]
  BY DEF Resume
<1>3. /\ Head(waiting[c]) = waiting[c][1] /\ Head(waiting[c]) \in Tasks
      /\ Len(waiting[c]) \in Nat /\ Len(waiting[c]) >= 1
      /\ Tail(waiting[c]) \in Seq(Tasks)
  BY <1>1, <1>2, TailFacts
<1>4. at[Head(waiting[c])] = c
  BY <1>3 DEF ChannelInv, WaitingOnce
<1>5. /\ Append(queue[c], Head(waiting[c])) \in Seq(Tasks)
      /\ Len(Append(queue[c], Head(waiting[c]))) = Len(queue[c]) + 1
  BY <1>1, <1>3, AppendFacts
<1>6. Sent(Head(waiting[c]), c) \in Waits
  BY <1>3, CommandsExist DEF Waits
<1>7. Capacity[c] \in Nat /\ Len(queue[c]) \in Nat
  BY <1>1, ChannelsAssumption
<1>8. TypeOK'
  BY <1>1, <1>2, <1>3, <1>5, <1>6, <1>7 DEF TypeOK
<1> QED
  BY <1>1, <1>2, <1>3, <1>4, <1>8

LEMMA ResumeKeepsInv ==
  ASSUME ChannelInv, NEW c \in Channels, Resume(c)
  PROVE  ChannelInv'
<1> DEFINE w == waiting[c]
           h == Head(waiting[c])
<1>1. /\ w \in Seq(Tasks) /\ w # <<>> /\ h = w[1] /\ h \in Tasks /\ at[h] = c
      /\ queue'[c] = Append(queue[c], h) /\ waiting'[c] = Tail(w)
      /\ \A d \in Channels : d # c => queue'[d] = queue[d] /\ waiting'[d] = waiting[d]
      /\ \A u \in Tasks : at'[u] = IF u = h THEN Sent(u, c) ELSE at[u]
      /\ TypeOK'
  BY ResumeFacts
<1>2. WaitingOnce'
  <2>1. \A d \in Channels : waiting[d] \in Seq(Tasks) /\
          \A k \in 1..Len(waiting[d]) : waiting[d][k] \in Tasks /\ at[waiting[d][k]] = d
    BY DEF ChannelInv, TypeOK, WaitingOnce
  <2>2. \A d \in Channels : \A j, k \in 1..Len(waiting[d]) :
          waiting[d][j] = waiting[d][k] => j = k
    BY DEF ChannelInv, WaitingOnce
  <2>3. ASSUME NEW d \in Channels, d # c
        PROVE  /\ \A k \in 1..Len(waiting'[d]) : at'[waiting'[d][k]] = d
               /\ \A j, k \in 1..Len(waiting'[d]) : waiting'[d][j] = waiting'[d][k] => j = k
    BY <1>1, <2>1, <2>2, <2>3
  <2>4. /\ Len(w) \in Nat /\ Len(w) >= 1 /\ Len(waiting'[c]) = Len(w) - 1
        /\ \A k \in 1..(Len(w) - 1) : waiting'[c][k] = w[k + 1]
    BY <1>1, TailFacts
  <2>5. \A k \in 1..Len(waiting'[c]) : k + 1 \in 1..Len(w) /\ waiting'[c][k] = w[k + 1]
    BY <2>4
  <2>6. \A k \in 1..Len(waiting'[c]) : w[k + 1] \in Tasks /\ w[k + 1] # h /\ at[w[k + 1]] = c
    BY <1>1, <2>1, <2>2, <2>4, <2>5
  <2>7. \A k \in 1..Len(waiting'[c]) : at'[waiting'[c][k]] = c
    BY <1>1, <2>5, <2>6
  <2>8. \A j, k \in 1..Len(waiting'[c]) : waiting'[c][j] = waiting'[c][k] => j = k
    BY <2>2, <2>4, <2>5
  <2> QED
    BY <2>3, <2>7, <2>8 DEF WaitingOnce
<1>3. HighOnce'
  <2>1. queue["high"] \in Seq(Tasks)
    BY Names DEF ChannelInv, TypeOK
  <2>2. ASSUME NEW r \in Callers
        PROVE  /\ at[r] = "reply" <=> \E k \in 1..Len(queue["high"]) : queue["high"][k] = r
               /\ \A j, k \in 1..Len(queue["high"]) :
                    queue["high"][j] = r /\ queue["high"][k] = r => j = k
    BY DEF ChannelInv, HighOnce
  <2>3. at[h] # "reply"
    BY <1>1 DEF Channels, Lanes, Inputs
  <2>4. CASE c # "high"
    <3>1. queue'["high"] = queue["high"]
      BY <1>1, <2>4, Names
    <3>2. \A r \in Callers : at'[r] = "reply" <=> at[r] = "reply"
      BY <1>1, <2>3, <2>4, Names DEF Sent
    <3> QED
      BY <2>2, <3>1, <3>2 DEF HighOnce
  <2>5. CASE c = "high"
    <3>1. /\ Len(queue'["high"]) = Len(queue["high"]) + 1 /\ Len(queue["high"]) \in Nat
          /\ \A k \in 1..Len(queue["high"]) : queue'["high"][k] = queue["high"][k]
          /\ queue'["high"][Len(queue["high"]) + 1] = h
      BY <1>1, <2>1, <2>5, AppendFacts
    <3>2. ASSUME NEW r \in Callers, r # h
          PROVE  /\ at'[r] = "reply" <=> \E k \in 1..Len(queue'["high"]) : queue'["high"][k] = r
                 /\ \A j, k \in 1..Len(queue'["high"]) :
                      queue'["high"][j] = r /\ queue'["high"][k] = r => j = k
      <4>1. at'[r] = at[r]
        BY <1>1, <3>2, Names
      <4>2. \A k \in 1..Len(queue'["high"]) :
              queue'["high"][k] = r => k \in 1..Len(queue["high"]) /\ queue["high"][k] = r
        BY <3>1, <3>2
      <4>3. \A k \in 1..Len(queue["high"]) :
              k \in 1..Len(queue'["high"]) /\ queue'["high"][k] = queue["high"][k]
        BY <3>1
      <4> QED
        BY <4>1, <4>2, <4>3, <2>2
    <3>3. ASSUME h \in Callers
          PROVE  /\ at'[h] = "reply" <=> \E k \in 1..Len(queue'["high"]) : queue'["high"][k] = h
                 /\ \A j, k \in 1..Len(queue'["high"]) :
                      queue'["high"][j] = h /\ queue'["high"][k] = h => j = k
      <4>1. \A k \in 1..Len(queue["high"]) : queue["high"][k] # h
        BY <2>2, <2>3, <3>3
      <4>2. \A k \in 1..Len(queue'["high"]) : queue'["high"][k] = h => k = Len(queue["high"]) + 1
        BY <3>1, <4>1
      <4>3. Len(queue["high"]) + 1 \in 1..Len(queue'["high"])
        BY <3>1
      <4>4. at'[h] = "reply"
        BY <1>1, <2>5, <3>3, Names DEF Sent
      <4> QED
        BY <3>1, <4>2, <4>3, <4>4
    <3>4. \A r \in Callers :
            /\ at'[r] = "reply" <=> \E k \in 1..Len(queue'["high"]) : queue'["high"][k] = r
            /\ \A j, k \in 1..Len(queue'["high"]) :
                 queue'["high"][j] = r /\ queue'["high"][k] = r => j = k
      BY <3>2, <3>3
    <3> QED
      BY <3>4 DEF HighOnce
  <2> QED
    BY <2>4, <2>5
<1> QED
  BY <1>1, <1>2, <1>3 DEF ChannelInv

---------------------------------------------------------------------------
(* Every step.                                                             *)

LEMMA QueueItself ==
  ASSUME ChannelInv
  PROVE  /\ queue \in [Channels -> Seq(Tasks)]
         /\ \A d \in Channels : Len(queue[d]) <= Capacity[d]
  BY DEF ChannelInv, TypeOK

LEMMA ServiceKeepsInv == ASSUME ChannelInv, ServiceStep PROVE ChannelInv'
<1>1. CASE HandleHigh
  BY <1>1, HandleHighKeepsInv
<1>2. CASE HandleLow
  <2>1. queue["low"] # <<>> /\ queue' = Received("low") /\ UNCHANGED <<at, waiting>>
    BY <1>2 DEF HandleLow
  <2> QED
    BY <2>1, ReceiveKeepsInv, Names
<1>3. CASE EndJitter
  <2>1. at["service"] \in Free /\ Send("service", "txs", queue)
    BY <1>3 DEF EndJitter, Free
  <2> QED
    BY <2>1, QueueItself, SendKeepsInv, Names
<1>4. ASSUME NEW c \in Inputs \cup {"txs"}, HandleSwarm(c) PROVE ChannelInv'
  <2>1. at["service"] \in Free /\ "jitter" \in Free /\ c \in Channels
    BY <1>4, Names DEF HandleSwarm, Free
  <2>2. CASE c = "txs"
    <3>1. at' = [at EXCEPT !["service"] = "jitter"] /\ UNCHANGED <<queue, waiting>>
      BY <1>4, <2>2 DEF HandleSwarm
    <3> QED
      BY <2>1, <3>1, MoveKeepsInv, Names
  <2>3. CASE c # "txs"
    <3>1. Send("service", c, queue)
      BY <1>4, <2>3 DEF HandleSwarm
    <3> QED
      BY <2>1, <3>1, QueueItself, SendKeepsInv, Names
  <2> QED
    BY <2>2, <2>3
<1> QED
  BY <1>1, <1>2, <1>3, <1>4 DEF ServiceStep

LEMMA EngineKeepsInv == ASSUME ChannelInv, EngineStep PROVE ChannelInv'
<1>1. CASE EngineBoots
  <2>1. at["engine"] \in Free /\ "idle" \in Free
    BY <1>1 DEF EngineBoots, Free
  <2>2. CASE Send("engine", Lane("block"), queue)
    BY <2>1, <2>2, QueueItself, SendKeepsInv, Names
  <2>3. CASE at' = [at EXCEPT !["engine"] = "idle"] /\ UNCHANGED <<queue, waiting>>
    BY <2>1, <2>3, MoveKeepsInv, Names
  <2> QED
    BY <1>1, <2>2, <2>3 DEF EngineBoots
<1>2. ASSUME NEW c \in Inputs, EngineTakes(c) PROVE ChannelInv'
  <2>1. at["engine"] \in Free /\ queue[c] # <<>> /\ c \in Channels /\ c # "high" /\ TypeOK
    BY <1>2, Names DEF EngineTakes, Free, Inputs, ChannelInv
  <2>2. /\ Received(c) \in [Channels -> Seq(Tasks)]
        /\ \A d \in Channels : Len(Received(c)[d]) <= Capacity[d]
        /\ Received(c)["high"] = queue["high"]
    BY <2>1, ReceivedFacts, Names
  <2>3. ASSUME NEW command \in Commands(c), Send("engine", Lane(command), Received(c))
        PROVE  ChannelInv'
    BY <2>1, <2>2, <2>3, SendKeepsInv, Names
  <2>4. CASE queue' = Received(c) /\ UNCHANGED <<at, waiting>>
    BY <2>1, <2>4, ReceiveKeepsInv
  <2> QED
    BY <1>2, <2>3, <2>4 DEF EngineTakes
<1> QED
  BY <1>1, <1>2 DEF EngineStep

LEMMA OthersKeepInv ==
  ASSUME ChannelInv, MempoolTakes \/ \E r \in Callers : Call(r)
  PROVE  ChannelInv'
<1>1. CASE MempoolTakes
  <2>1. queue["txs"] # <<>> /\ queue' = Received("txs") /\ UNCHANGED <<at, waiting>>
    BY <1>1 DEF MempoolTakes
  <2> QED
    BY <2>1, ReceiveKeepsInv, Names
<1>2. ASSUME NEW r \in Callers, Call(r) PROVE ChannelInv'
  <2>1. at[r] \in Free /\ r \in Tasks
    BY <1>2, Names DEF Call, Free
  <2>2. PICK command : Send(r, Lane(command), queue)
    BY <1>2 DEF Call
  <2> QED
    BY <2>1, <2>2, QueueItself, SendKeepsInv, Names
<1> QED
  BY <1>1, <1>2

LEMMA ChannelInvInit == Init => ChannelInv
<1> SUFFICES ASSUME Init PROVE ChannelInv
  OBVIOUS
<1>1. /\ queue = [c \in Channels |-> <<>>] /\ waiting = [c \in Channels |-> <<>>]
      /\ at = [t \in Tasks |-> IF t = "engine" THEN "boot" ELSE "idle"]
  BY DEF Init
<1>2. TypeOK
  BY <1>1, ChannelsAssumption DEF TypeOK, Waits
<1>3. WaitingOnce
  BY <1>1 DEF WaitingOnce
<1>4. HighOnce
  BY <1>1, Names DEF HighOnce
<1> QED
  BY <1>2, <1>3, <1>4 DEF ChannelInv

LEMMA ChannelInvStep == ChannelInv /\ [Next]_vars => ChannelInv'
<1> SUFFICES ASSUME ChannelInv, [Next]_vars PROVE ChannelInv'
  OBVIOUS
<1>1. CASE ServiceStep
  BY <1>1, ServiceKeepsInv
<1>2. CASE EngineStep
  BY <1>2, EngineKeepsInv
<1>3. CASE MempoolTakes \/ \E r \in Callers : Call(r)
  BY <1>3, OthersKeepInv
<1>4. CASE \E c \in Channels : Resume(c)
  BY <1>4, ResumeKeepsInv
<1>5. CASE UNCHANGED vars
  BY <1>5 DEF vars, ChannelInv, TypeOK, WaitingOnce, HighOnce
<1> QED
  BY <1>1, <1>2, <1>3, <1>4, <1>5 DEF Next

LEMMA ChannelInvHolds == Spec => []ChannelInv
<1> QED
  BY ChannelInvInit, ChannelInvStep, PTL DEF Spec

\* Channels and tasks keep their types and no channel exceeds its capacity,
\* however many tasks send (main.rs 60-68).
THEOREM ChannelsTypeCorrect == Spec => []TypeOK
<1>1. ChannelInv => TypeOK
  BY DEF ChannelInv
<1> QED
  BY <1>1, ChannelInvHolds, PTL

\* A status request has one reply to come as long as its handler waits, for
\* any number of handlers (lib.rs 81-87).
THEOREM ReplyPendingHolds == Spec => []ReplyPending
<1>1. ChannelInv => ReplyPending
  <2> SUFFICES ASSUME ChannelInv PROVE ReplyPending
    OBVIOUS
  <2>1. DOMAIN queue["high"] = 1..Len(queue["high"])
    BY Names DEF ChannelInv, TypeOK
  <2>2. \A r : r \in Elements(queue["high"]) <=> \E k \in 1..Len(queue["high"]) : queue["high"][k] = r
    BY <2>1 DEF Elements
  <2> QED
    BY <2>1, <2>2 DEF ReplyPending, ChannelInv, HighOnce
<1> QED
  BY <1>1, ChannelInvHolds, PTL

---------------------------------------------------------------------------
(* The mutual wait.                                                        *)

LEMMA MutualWaitStays ==
  ASSUME ChannelInv, MutualWait, Next
  PROVE  MutualWait'
<1> DEFINE s == at["service"]
           e == at["engine"]
<1>1. /\ s \in Inputs /\ e \in Lanes /\ s \in Channels /\ e \in Channels
      /\ Len(queue[s]) = Capacity[s] /\ Len(queue[e]) = Capacity[e]
      /\ s # "idle" /\ s # "jitter" /\ e # "idle" /\ e # "boot" /\ s # "txs" /\ e # "txs"
  BY Names DEF MutualWait, Inputs, Lanes
<1>2. /\ TypeOK /\ queue \in [Channels -> Seq(Tasks)] /\ at \in [Tasks -> Waits \cup Channels]
      /\ \A d \in Channels : Len(queue[d]) <= Capacity[d]
  BY DEF ChannelInv, TypeOK
<1>3. SUFFICES /\ at'["service"] = s /\ at'["engine"] = e
               /\ queue'[s] = queue[s] /\ queue'[e] = queue[e]
  BY <1>1 DEF MutualWait
<1>4. ~ServiceStep
  BY <1>1 DEF ServiceStep, HandleHigh, HandleLow, EndJitter, HandleSwarm
<1>5. ~EngineStep
  BY <1>1 DEF EngineStep, EngineBoots, EngineTakes
<1>6. CASE MempoolTakes
  <2>1. queue["txs"] # <<>> /\ queue' = Received("txs") /\ at' = at
    BY <1>6 DEF MempoolTakes
  <2> QED
    BY <1>1, <1>2, <2>1, ReceivedFacts, Names
<1>7. ASSUME NEW c \in Channels, Resume(c)
      PROVE  /\ at'["service"] = s /\ at'["engine"] = e
             /\ queue'[s] = queue[s] /\ queue'[e] = queue[e]
  <2>1. /\ Len(queue[c]) < Capacity[c] /\ at[Head(waiting[c])] = c
        /\ \A d \in Channels : d # c => queue'[d] = queue[d]
        /\ \A u \in Tasks : u # Head(waiting[c]) => at'[u] = at[u]
    BY <1>7, ResumeFacts
  <2>2. c # s /\ c # e
    BY <1>1, <1>2, <2>1
  <2> QED
    BY <1>1, <2>1, <2>2, Names
<1>8. ASSUME NEW r \in Callers, Call(r)
      PROVE  /\ at'["service"] = s /\ at'["engine"] = e
             /\ queue'[s] = queue[s] /\ queue'[e] = queue[e]
  <2>1. PICK command : Send(r, Lane(command), queue)
    BY <1>8 DEF Call
  <2>2. r \in Tasks /\ r # "service" /\ r # "engine" /\ Lane(command) \in Channels
    BY Names
  <2>3. /\ \A u \in Tasks : u # r => at'[u] = at[u]
        /\ \A d \in Channels : d # Lane(command) => queue'[d] = queue[d]
        /\ \/ Len(queue[Lane(command)]) < Capacity[Lane(command)]
           \/ queue'[Lane(command)] = queue[Lane(command)]
    BY <1>2, <2>1, <2>2, SendFacts
  <2>4. \A d \in Channels : Len(queue[d]) = Capacity[d] => queue'[d] = queue[d]
    BY <1>2, <2>2, <2>3, ChannelsAssumption
  <2> QED
    BY <1>1, <2>2, <2>3, <2>4, Names
<1> QED
  BY <1>4, <1>5, <1>6, <1>7, <1>8 DEF Next

\* A service and an engine that wait for each other do so for good, at any
\* capacity and whatever the RPC handlers do (p2p.rs 180, engine.rs 399).
THEOREM MutualWaitIsFinalHolds == Spec => MutualWaitIsFinal
<1>1. ChannelInv /\ [Next]_vars => [MutualWait => MutualWait']_vars
  <2> SUFFICES ASSUME ChannelInv, [Next]_vars PROVE [MutualWait => MutualWait']_vars
    OBVIOUS
  <2>1. CASE Next
    BY <2>1, MutualWaitStays
  <2>2. CASE UNCHANGED vars
    BY <2>2
  <2> QED
    BY <2>1, <2>2
<1> QED
  BY <1>1, ChannelInvHolds, PTL DEF Spec, MutualWaitIsFinal

---------------------------------------------------------------------------
(* Induction, and what a recursive function computes.                      *)

LEMMA NatSetInduction ==
  ASSUME NEW S, 0 \in S, \A n \in Nat : n \in S => n + 1 \in S
  PROVE  Nat \subseteq S
<1> DEFINE T == Nat \ S
           R == OpToRel(<, Nat)
<1>1. SUFFICES ASSUME T # {} PROVE FALSE
  OBVIOUS
<1>2. PICK x \in T : \A y \in T : <<y, x>> \notin R
  <2>1. T \subseteq Nat
    OBVIOUS
  <2> HIDE DEF T, R
  <2>2. IsWellFoundedOn(R, Nat)
    BY NatLessThanWellFounded DEF R
  <2> QED
    BY <1>1, <2>1, <2>2, WFMin
<1>3. x \in Nat /\ x # 0
  OBVIOUS
<1>4. x - 1 \in Nat /\ x - 1 < x /\ (x - 1) + 1 = x
  BY <1>3
<1>5. <<x - 1, x>> \in R
  BY <1>3, <1>4 DEF OpToRel
<1>6. x - 1 \in S
  BY <1>2, <1>4, <1>5
<1> QED
  BY <1>4, <1>6

\* What the steps h[1], ..., h[n] make of c, one after the other.
Runs(S, c, h, n) == {g \in [0 .. n -> S] : g[0] = c /\ \A i \in 1 .. n : g[i] = h[i][g[i - 1]]}

LEMMA RunsExist ==
  ASSUME NEW S, NEW c \in S, NEW n \in Nat, NEW h \in [1 .. n -> [S -> S]]
  PROVE  Runs(S, c, h, n) # {}
<1> DEFINE D == {m \in Nat : m <= n => Runs(S, c, h, m) # {}}
<1>1. 0 \in D
  <2>1. [i \in 0 .. 0 |-> c] \in Runs(S, c, h, 0)
    BY DEF Runs
  <2> QED
    BY <2>1
<1>2. ASSUME NEW m \in Nat, m \in D PROVE m + 1 \in D
  <2> SUFFICES ASSUME m + 1 <= n PROVE Runs(S, c, h, m + 1) # {}
    OBVIOUS
  <2>1. PICK g \in Runs(S, c, h, m) : TRUE
    BY <1>2
  <2> DEFINE f == [i \in 0 .. m + 1 |-> IF i = m + 1 THEN h[m + 1][g[m]] ELSE g[i]]
  <2>2. g \in [0 .. m -> S] /\ g[0] = c /\ \A i \in 1 .. m : g[i] = h[i][g[i - 1]]
    BY <2>1 DEF Runs
  <2>3. g[m] \in S /\ h[m + 1] \in [S -> S]
    BY <2>2
  <2>4. f \in [0 .. m + 1 -> S]
    BY <2>2, <2>3
  <2>5. f[0] = c /\ f[m + 1] = h[m + 1][g[m]] /\ \A i \in 0 .. m : f[i] = g[i]
    BY <2>2
  <2> HIDE DEF f
  <2>6. ASSUME NEW i \in 1 .. m + 1 PROVE f[i] = h[i][f[i - 1]]
    <3>1. CASE i = m + 1
      BY <2>5, <3>1
    <3>2. CASE i \in 1 .. m
      <4>1. i - 1 \in 0 .. m /\ i \in 0 .. m
        BY <3>2
      <4> QED
        BY <2>2, <2>5, <3>2, <4>1
    <3> QED
      BY <3>1, <3>2
  <2>7. f \in Runs(S, c, h, m + 1)
    BY <2>4, <2>5, <2>6 DEF Runs
  <2> QED
    BY <2>7
<1> HIDE DEF D
<1>3. n \in D
  BY <1>1, <1>2, NatSetInduction
<1> QED
  BY <1>3 DEF D

\* A function defined by these steps is that run: the types are not assumed.
LEMMA RunDefined ==
  ASSUME NEW S, NEW c \in S, NEW n \in Nat, NEW h \in [1 .. n -> [S -> S]], NEW f,
         f = [k \in 0 .. n |-> f[k]], f[0] = c,
         \A k \in 1 .. n : f[k - 1] \in S => f[k] = h[k][f[k - 1]]
  PROVE  f \in Runs(S, c, h, n)
<1> DEFINE D == {k \in Nat : k <= n => f[k] \in S}
<1>1. 0 \in D
  OBVIOUS
<1>2. ASSUME NEW k \in Nat, k \in D PROVE k + 1 \in D
  <2> SUFFICES ASSUME k + 1 <= n PROVE f[k + 1] \in S
    OBVIOUS
  <2>1. f[k] \in S /\ k + 1 \in 1 .. n /\ (k + 1) - 1 = k
    BY <1>2
  <2>2. f[k + 1] = h[k + 1][f[k]] /\ h[k + 1] \in [S -> S]
    BY <2>1
  <2> QED
    BY <2>1, <2>2
<1>3. Nat \subseteq D
  <2> HIDE DEF D
  <2> QED
    BY <1>1, <1>2, NatSetInduction
<1>4. \A k \in 0 .. n : f[k] \in S
  BY <1>3
<1>5. f \in [0 .. n -> S]
  BY <1>4
<1>6. \A k \in 1 .. n : k - 1 \in 0 .. n
  OBVIOUS
<1>7. \A k \in 1 .. n : f[k] = h[k][f[k - 1]]
  BY <1>4, <1>6
<1> QED
  BY <1>5, <1>7 DEF Runs

---------------------------------------------------------------------------
(* The callers among a sequence of tasks.                                  *)

LEMMA CallersAmongDef ==
  ASSUME NEW T, NEW s \in Seq(T)
  PROVE  /\ CallersAmong(s) \in [0 .. Len(s) -> Seq(T)]
         /\ CallersAmong(s)[0] = <<>>
         /\ \A k \in 1 .. Len(s) :
              CallersAmong(s)[k] = IF s[k] \in Callers THEN Append(CallersAmong(s)[k - 1], s[k])
                                                       ELSE CallersAmong(s)[k - 1]
<1> DEFINE S == Seq(T)
           n == Len(s)
           c == <<>>
           step(a, k) == IF s[k] \in Callers THEN Append(a, s[k]) ELSE a
           h == [k \in 1 .. n |-> [a \in S |-> step(a, k)]]
           Body(g) == [k \in 0 .. n |-> IF k = 0 THEN c ELSE step(g[k - 1], k)]
           f == CallersAmong(s)
<1>1. c \in S /\ n \in Nat /\ \A a \in S, k \in 1 .. n : step(a, k) \in S
  OBVIOUS
<1>2. f = CHOOSE g : g = Body(g)
  BY DEF CallersAmong
<1> HIDE DEF S, n, c, step, f
<1>3. h \in [1 .. n -> [S -> S]] /\ \A a \in S, k \in 1 .. n : h[k][a] = step(a, k)
  BY <1>1
<1> HIDE DEF h
<1>4. PICK g \in Runs(S, c, h, n) : TRUE
  BY <1>1, <1>3, RunsExist
<1>5. g = Body(g)
  <2>1. g \in [0 .. n -> S] /\ g[0] = c /\ \A i \in 1 .. n : g[i] = h[i][g[i - 1]]
    BY <1>4 DEF Runs
  <2> QED
    BY <1>1, <1>3, <2>1
<1>6. f = Body(f)
  <2> HIDE DEF Body
  <2> QED
    BY <1>2, <1>5
<1>7. f \in Runs(S, c, h, n)
  <2>1. f = [k \in 0 .. n |-> f[k]]
    BY <1>6
  <2>2. f[0] = c /\ \A k \in 1 .. n : f[k] = step(f[k - 1], k)
    BY <1>1, <1>6
  <2>3. \A k \in 1 .. n : f[k - 1] \in S => f[k] = h[k][f[k - 1]]
    BY <1>3, <2>2
  <2> QED
    BY <1>1, <1>3, <2>1, <2>2, <2>3, RunDefined
<1>8. f \in [0 .. n -> S] /\ f[0] = c /\ \A k \in 1 .. n : f[k] = step(f[k - 1], k)
  BY <1>1, <1>6, <1>7 DEF Runs
<1> QED
  BY <1>8 DEF f, n, S, c, step

\* A sequence that begins with s has the callers of s first.
LEMMA CallersAppend ==
  ASSUME NEW T, NEW s \in Seq(T), NEW x \in T
  PROVE  LET now == CallersAmong(Append(s, x))[Len(s) + 1]
             before == CallersAmong(s)[Len(s)]
         IN now = IF x \in Callers THEN Append(before, x) ELSE before
<1> DEFINE t == Append(s, x)
           D == {k \in Nat : k <= Len(s) => CallersAmong(t)[k] = CallersAmong(s)[k]}
<1>1. /\ t \in Seq(T) /\ Len(t) = Len(s) + 1 /\ Len(s) \in Nat
      /\ \A k \in 1 .. Len(s) : t[k] = s[k]
      /\ t[Len(s) + 1] = x
  BY AppendFacts
<1> HIDE DEF t
<1>2. 0 \in D
  BY <1>1, CallersAmongDef
<1>3. ASSUME NEW k \in Nat, k \in D PROVE k + 1 \in D
  <2> SUFFICES ASSUME k + 1 <= Len(s) PROVE CallersAmong(t)[k + 1] = CallersAmong(s)[k + 1]
    OBVIOUS
  <2>1. k + 1 \in 1 .. Len(s) /\ k + 1 \in 1 .. Len(t) /\ (k + 1) - 1 = k
    BY <1>1
  <2>2. CallersAmong(t)[k] = CallersAmong(s)[k] /\ t[k + 1] = s[k + 1]
    BY <1>1, <1>3, <2>1
  <2> QED
    BY <1>1, <2>1, <2>2, CallersAmongDef
<1>4. CallersAmong(t)[Len(s)] = CallersAmong(s)[Len(s)]
  <2> HIDE DEF D
  <2>1. Len(s) \in D
    BY <1>1, <1>2, <1>3, NatSetInduction
  <2> QED
    BY <1>1, <2>1 DEF D
<1>5. Len(s) + 1 \in 1 .. Len(t) /\ (Len(s) + 1) - 1 = Len(s)
  BY <1>1
<1>6. CallersAmong(t)[Len(s) + 1] = IF x \in Callers THEN Append(CallersAmong(t)[Len(s)], x)
                                                     ELSE CallersAmong(t)[Len(s)]
  BY <1>1, <1>5, CallersAmongDef
<1> QED
  BY <1>4, <1>6 DEF t

LEMMA TailOfAppend ==
  ASSUME NEW T, NEW a \in Seq(T), a # <<>>, NEW x \in T
  PROVE  Append(a, x) # <<>> /\ Tail(Append(a, x)) = Append(Tail(a), x)
  OBVIOUS

\* Without its first element a sequence has the callers it had, or those but
\* the first.
LEMMA CallersTail ==
  ASSUME NEW T, NEW s \in Seq(T), s # <<>>
  PROVE  LET now == CallersAmong(Tail(s))[Len(Tail(s))]
             before == CallersAmong(s)[Len(s)]
         IN IF Head(s) \in Callers THEN before # <<>> /\ now = Tail(before) ELSE now = before
<1> DEFINE t == Tail(s)
           Matches(now, before) ==
             IF Head(s) \in Callers THEN before # <<>> /\ now = Tail(before) ELSE now = before
           D == {k \in Nat : k <= Len(t) => Matches(CallersAmong(t)[k], CallersAmong(s)[k + 1])}
<1>1. /\ t \in Seq(T) /\ Len(s) = Len(t) + 1 /\ Len(t) \in Nat /\ Head(s) = s[1] /\ Head(s) \in T
      /\ \A k \in 1 .. Len(t) : t[k] = s[k + 1]
  BY TailFacts
<1> HIDE DEF t
<1>2. 0 \in D
  <2>1. CallersAmong(t)[0] = <<>> /\ CallersAmong(s)[0] = <<>>
    BY <1>1, CallersAmongDef
  <2>2. 1 \in 1 .. Len(s) /\ 1 - 1 = 0 /\ 0 + 1 = 1
    BY <1>1
  <2>3. CallersAmong(s)[1] = IF s[1] \in Callers THEN Append(CallersAmong(s)[1 - 1], s[1])
                                                  ELSE CallersAmong(s)[1 - 1]
    BY <2>2, CallersAmongDef
  <2>4. Append(<<>>, Head(s)) # <<>> /\ Tail(Append(<<>>, Head(s))) = <<>>
    BY <1>1
  <2>5. CallersAmong(s)[1] = IF s[1] \in Callers THEN Append(<<>>, s[1]) ELSE <<>>
    BY <2>1, <2>2, <2>3
  <2>6. Matches(CallersAmong(t)[0], CallersAmong(s)[1])
    BY <1>1, <2>1, <2>4, <2>5
  <2> QED
    BY <2>2, <2>6
<1>3. ASSUME NEW k \in Nat, k \in D PROVE k + 1 \in D
  <2> SUFFICES ASSUME k + 1 <= Len(t)
               PROVE  Matches(CallersAmong(t)[k + 1], CallersAmong(s)[(k + 1) + 1])
    OBVIOUS
  <2> DEFINE a == CallersAmong(t)[k]
             b == CallersAmong(s)[k + 1]
             x == t[k + 1]
  <2>1. /\ k + 1 \in 1 .. Len(t) /\ (k + 1) + 1 \in 1 .. Len(s) /\ k + 1 \in 0 .. Len(s)
        /\ (k + 1) - 1 = k /\ ((k + 1) + 1) - 1 = k + 1
    BY <1>1
  <2>2. Matches(a, b)
    BY <1>3, <2>1
  <2>3. x = s[(k + 1) + 1] /\ x \in T
    BY <1>1, <2>1
  <2>4. CallersAmong(t)[k + 1] = IF x \in Callers THEN Append(a, x) ELSE a
    BY <1>1, <2>1, CallersAmongDef
  <2>5. CallersAmong(s)[(k + 1) + 1] = IF x \in Callers THEN Append(b, x) ELSE b
    BY <1>1, <2>1, <2>3, CallersAmongDef
  <2>6. b \in Seq(T)
    BY <1>1, <2>1, CallersAmongDef
  <2> HIDE DEF a, b, x
  <2>7. b # <<>> => Append(b, x) # <<>> /\ Tail(Append(b, x)) = Append(Tail(b), x)
    BY <2>3, <2>6, TailOfAppend
  <2> QED
    BY <2>2, <2>4, <2>5, <2>7
<1>4. Matches(CallersAmong(t)[Len(t)], CallersAmong(s)[Len(t) + 1])
  <2> HIDE DEF D, Matches
  <2>1. Len(t) \in D
    BY <1>1, <1>2, <1>3, NatSetInduction
  <2> QED
    BY <1>1, <2>1 DEF D
<1> QED
  BY <1>1, <1>4 DEF t

\* They are elements of the sequence, and callers.
LEMMA CallersAmongElements ==
  ASSUME NEW T, NEW s \in Seq(T)
  PROVE  \A i \in 1 .. Len(CallersAmong(s)[Len(s)]) :
           \E j \in 1 .. Len(s) : CallersAmong(s)[Len(s)][i] = s[j]
<1> DEFINE f == CallersAmong(s)
           From(a) == \A i \in 1 .. Len(a) : \E j \in 1 .. Len(s) : a[i] = s[j]
           D == {k \in Nat : k <= Len(s) => From(f[k])}
<1>1. /\ f \in [0 .. Len(s) -> Seq(T)] /\ f[0] = <<>> /\ Len(s) \in Nat
      /\ \A k \in 1 .. Len(s) : f[k] = IF s[k] \in Callers THEN Append(f[k - 1], s[k]) ELSE f[k - 1]
  BY CallersAmongDef
<1> HIDE DEF f
<1>2. 0 \in D
  BY <1>1
<1>3. ASSUME NEW k \in Nat, k \in D PROVE k + 1 \in D
  <2> SUFFICES ASSUME k + 1 <= Len(s) PROVE From(f[k + 1])
    OBVIOUS
  <2>1. k \in 0 .. Len(s) /\ k + 1 \in 1 .. Len(s) /\ (k + 1) - 1 = k
    BY <1>1
  <2>2. f[k] \in Seq(T) /\ s[k + 1] \in T /\ From(f[k])
    BY <1>1, <1>3, <2>1
  <2>3. f[k + 1] = IF s[k + 1] \in Callers THEN Append(f[k], s[k + 1]) ELSE f[k]
    BY <1>1, <2>1
  <2>4. From(Append(f[k], s[k + 1]))
    <3>1. /\ Len(Append(f[k], s[k + 1])) = Len(f[k]) + 1 /\ Len(f[k]) \in Nat
          /\ \A i \in 1 .. Len(f[k]) : Append(f[k], s[k + 1])[i] = f[k][i]
          /\ Append(f[k], s[k + 1])[Len(f[k]) + 1] = s[k + 1]
      BY <2>2, AppendFacts
    <3> SUFFICES ASSUME NEW i \in 1 .. Len(f[k]) + 1
                 PROVE  \E j \in 1 .. Len(s) : Append(f[k], s[k + 1])[i] = s[j]
      BY <3>1
    <3>2. CASE i = Len(f[k]) + 1
      BY <2>1, <3>1, <3>2
    <3>3. CASE i # Len(f[k]) + 1
      BY <2>2, <3>1, <3>3
    <3> QED
      BY <3>2, <3>3
  <2> QED
    BY <2>2, <2>3, <2>4
<1>4. Len(s) \in D
  <2> HIDE DEF D
  <2> QED
    BY <1>1, <1>2, <1>3, NatSetInduction
<1> QED
  BY <1>1, <1>4 DEF f

LEMMA LineFacts ==
  ASSUME NEW T, NEW q \in Seq(T), NEW w \in Seq(T), NEW x \in T
  PROVE  /\ q \o w \in Seq(T) /\ Len(q \o w) = Len(q) + Len(w) /\ Len(q) \in Nat /\ Len(w) \in Nat
         /\ \A j \in 1 .. Len(q) : (q \o w)[j] = q[j]
         /\ \A j \in 1 .. Len(w) : (q \o w)[Len(q) + j] = w[j]
         /\ q \o Append(w, x) = Append(q \o w, x)
         /\ w = <<>> => Append(q, x) \o w = Append(q \o w, x)
<1>1. /\ q \o w \in Seq(T) /\ Len(q \o w) = Len(q) + Len(w) /\ Len(q) \in Nat /\ Len(w) \in Nat
      /\ \A j \in 1 .. Len(q) : (q \o w)[j] = q[j]
      /\ \A j \in 1 .. Len(w) : (q \o w)[Len(q) + j] = w[j]
  OBVIOUS
<1>2. q \o Append(w, x) = Append(q \o w, x)
  OBVIOUS
<1>3. w = <<>> => Append(q, x) \o w = Append(q \o w, x)
  OBVIOUS
<1> QED
  BY <1>1, <1>2, <1>3

LEMMA LineMoves ==
  ASSUME NEW T, NEW q \in Seq(T), NEW w \in Seq(T)
  PROVE  /\ w # <<>> => Append(q, Head(w)) \o Tail(w) = q \o w
         /\ q # <<>> => q \o w # <<>> /\ Head(q \o w) = Head(q) /\ Tail(q \o w) = Tail(q) \o w
<1>1. w # <<>> => Append(q, Head(w)) \o Tail(w) = q \o w
  OBVIOUS
<1>2. q # <<>> => q \o w # <<>> /\ Head(q \o w) = Head(q)
  OBVIOUS
<1>3. q # <<>> => Tail(q \o w) = Tail(q) \o w
  OBVIOUS
<1> QED
  BY <1>1, <1>2, <1>3

---------------------------------------------------------------------------
(* The line of status requests.                                            *)

LineOf(q, w) == CallersAmong(q \o w)[Len(q \o w)]

LEMMA StatusRequestsIs == StatusRequests = LineOf(queue["high"], waiting["high"])
  BY DEF StatusRequests, LineOf

\* A task that is free is not in line.
LEMMA FreeNotInLine ==
  ASSUME ChannelInv, NEW t \in Callers, at[t] \in Free
  PROVE  \A k \in DOMAIN StatusRequests : StatusRequests[k] # t
<1> DEFINE q == queue["high"]
           w == waiting["high"]
<1>1. q \in Seq(Tasks) /\ w \in Seq(Tasks) /\ at[t] # "reply" /\ at[t] # "high"
  BY Names, FreeIsNoChannel DEF ChannelInv, TypeOK
<1>2. \A k \in 1 .. Len(q) : q[k] # t
  BY <1>1 DEF ChannelInv, HighOnce
<1>3. \A k \in 1 .. Len(w) : w[k] # t
  BY <1>1, Names DEF ChannelInv, WaitingOnce
<1> HIDE DEF q, w
<1>4. /\ q \o w \in Seq(Tasks) /\ Len(q \o w) = Len(q) + Len(w) /\ Len(q) \in Nat /\ Len(w) \in Nat
      /\ \A j \in 1 .. Len(q) : (q \o w)[j] = q[j]
      /\ \A j \in 1 .. Len(w) : (q \o w)[Len(q) + j] = w[j]
  BY <1>1
<1>5. ASSUME NEW j \in 1 .. Len(q \o w) PROVE (q \o w)[j] # t
  <2>1. CASE j \in 1 .. Len(q)
    BY <1>2, <1>4, <2>1
  <2>2. CASE j \notin 1 .. Len(q)
    <3>1. j - Len(q) \in 1 .. Len(w) /\ Len(q) + (j - Len(q)) = j
      BY <1>4, <2>2
    <3> QED
      BY <1>3, <1>4, <3>1
  <2> QED
    BY <2>1, <2>2
<1>6. LineOf(q, w) \in Seq(Tasks)
  <2>1. Len(q \o w) \in 0 .. Len(q \o w)
    BY <1>4
  <2> QED
    BY <1>4, <2>1, CallersAmongDef DEF LineOf
<1>7. \A k \in 1 .. Len(LineOf(q, w)) : \E j \in 1 .. Len(q \o w) : LineOf(q, w)[k] = (q \o w)[j]
  BY <1>4, CallersAmongElements DEF LineOf
<1>8. StatusRequests = LineOf(q, w)
  BY StatusRequestsIs DEF q, w
<1>9. DOMAIN LineOf(q, w) = 1 .. Len(LineOf(q, w))
  BY <1>6
<1> QED
  BY <1>5, <1>7, <1>8, <1>9

LEMMA LineTypes ==
  ASSUME ChannelInv
  PROVE  queue["high"] \in Seq(Tasks) /\ waiting["high"] \in Seq(Tasks)
  BY Names DEF ChannelInv, TypeOK

\* A send to the high lane, into it or into the line before it, asks if it is
\* the send of a caller.
LEMMA SendAsks ==
  ASSUME ChannelInv, NEW t \in Tasks, NEW c \in Channels, at[t] \in Free,
         NEW q \in [Channels -> Seq(Tasks)], q["high"] = queue["high"],
         Send(t, c, q)
  PROVE  StatusRequests' = StatusRequests \/ (t \in Callers /\ Line!Ask(t))
<1> DEFINE qh == queue["high"]
           wh == waiting["high"]
<1>1. qh \in Seq(Tasks) /\ wh \in Seq(Tasks)
  BY LineTypes
<1>2. waiting \in [Channels -> Seq(Tasks)] /\ "high" \in Channels
  BY Names DEF ChannelInv, TypeOK
<1>3. CASE c # "high"
  <2>1. queue'["high"] = qh /\ waiting'["high"] = wh
    BY <1>2, <1>3 DEF Send
  <2>2. StatusRequests' = LineOf(qh, wh) /\ StatusRequests = LineOf(qh, wh)
    BY <2>1 DEF StatusRequests, LineOf
  <2> QED
    BY <2>2
<1>4. CASE c = "high"
  <2>1. \/ wh = <<>> /\ queue'["high"] = Append(qh, t) /\ waiting'["high"] = wh
        \/ queue'["high"] = qh /\ waiting'["high"] = Append(wh, t)
    BY <1>2, <1>4 DEF Send
  <2>2. queue'["high"] \o waiting'["high"] = Append(qh \o wh, t)
    <3> HIDE DEF qh, wh
    <3>1. /\ qh \o Append(wh, t) = Append(qh \o wh, t)
          /\ wh = <<>> => Append(qh, t) \o wh = Append(qh \o wh, t)
      BY <1>1, LineFacts
    <3>2. CASE wh = <<>> /\ queue'["high"] = Append(qh, t) /\ waiting'["high"] = wh
      BY <3>1, <3>2
    <3>3. CASE queue'["high"] = qh /\ waiting'["high"] = Append(wh, t)
      BY <3>1, <3>3
    <3> QED
      BY <2>1, <3>2, <3>3
  <2>3. StatusRequests' = CallersAmong(Append(qh \o wh, t))[Len(Append(qh \o wh, t))]
    BY <2>2 DEF StatusRequests
  <2>4. StatusRequests = LineOf(qh, wh)
    BY StatusRequestsIs
  <2>5. qh \o wh \in Seq(Tasks) /\ Len(Append(qh \o wh, t)) = Len(qh \o wh) + 1
    <3> HIDE DEF qh, wh
    <3>1. qh \o wh \in Seq(Tasks)
      BY <1>1, LineFacts
    <3> QED
      BY <3>1, AppendFacts
  <2>6. StatusRequests' = IF t \in Callers THEN Append(StatusRequests, t) ELSE StatusRequests
    <3> HIDE DEF qh, wh
    <3> QED
      BY <2>3, <2>4, <2>5, CallersAppend DEF LineOf
  <2>7. t \in Callers => \A k \in DOMAIN StatusRequests : StatusRequests[k] # t
    BY FreeNotInLine
  <2> QED
    BY <2>6, <2>7 DEF Line!Ask
<1> QED
  BY <1>3, <1>4

LEMMA ResumeKeepsLine ==
  ASSUME ChannelInv, NEW c \in Channels, Resume(c)
  PROVE  StatusRequests' = StatusRequests
<1> DEFINE qh == queue["high"]
           wh == waiting["high"]
<1>1. qh \in Seq(Tasks) /\ wh \in Seq(Tasks)
  BY LineTypes
<1>2. /\ waiting[c] # <<>> /\ queue'[c] = Append(queue[c], Head(waiting[c])) /\ waiting'[c] = Tail(waiting[c])
      /\ \A d \in Channels : d # c => queue'[d] = queue[d] /\ waiting'[d] = waiting[d]
  BY ResumeFacts
<1>3. queue'["high"] \o waiting'["high"] = qh \o wh
  <2>1. CASE c = "high"
    <3>1. wh # <<>> /\ queue'["high"] = Append(qh, Head(wh)) /\ waiting'["high"] = Tail(wh)
      BY <1>2, <2>1
    <3> HIDE DEF qh, wh
    <3> QED
      BY <1>1, <3>1, LineMoves
  <2>2. CASE c # "high"
    BY <1>2, <2>2, Names
  <2> QED
    BY <2>1, <2>2
<1> QED
  BY <1>3 DEF StatusRequests

LEMMA HandleHighAnswers ==
  ASSUME ChannelInv, HandleHigh
  PROVE  StatusRequests' = StatusRequests \/ Line!Answer
<1> DEFINE qh == queue["high"]
           wh == waiting["high"]
<1>1. qh \in Seq(Tasks) /\ wh \in Seq(Tasks) /\ qh # <<>>
  BY LineTypes DEF HandleHigh
<1>2. queue'["high"] = Tail(qh) /\ waiting'["high"] = wh
  BY <1>1, ReceivedFacts, Names DEF HandleHigh, ChannelInv
<1>3. /\ qh \o wh # <<>> /\ queue'["high"] \o waiting'["high"] = Tail(qh \o wh)
      /\ qh \o wh \in Seq(Tasks)
  <2> HIDE DEF qh, wh
  <2> QED
    BY <1>1, <1>2, LineMoves
<1>4. StatusRequests' = CallersAmong(Tail(qh \o wh))[Len(Tail(qh \o wh))]
  BY <1>3 DEF StatusRequests
<1>5. StatusRequests = LineOf(qh, wh)
  BY StatusRequestsIs
<1>6. StatusRequests' = StatusRequests \/ (StatusRequests # <<>> /\ StatusRequests' = Tail(StatusRequests))
  <2> HIDE DEF qh, wh
  <2> QED
    BY <1>3, <1>4, <1>5, CallersTail DEF LineOf
<1> QED
  BY <1>6 DEF Line!Answer

LEMMA OthersKeepLine ==
  ASSUME queue'["high"] = queue["high"], waiting'["high"] = waiting["high"]
  PROVE  StatusRequests' = StatusRequests
  BY DEF StatusRequests

LEMMA ReceiveKeepsLine ==
  ASSUME ChannelInv, NEW c \in Channels, c # "high", queue[c] # <<>>,
         queue' = Received(c), waiting' = waiting
  PROVE  StatusRequests' = StatusRequests
<1>1. queue'["high"] = queue["high"]
  BY ReceivedFacts, Names DEF ChannelInv
<1> QED
  BY <1>1, OthersKeepLine

LEMMA LineStep == ChannelInv /\ [Next]_vars => [Line!Next]_StatusRequests
<1> SUFFICES ASSUME ChannelInv, [Next]_vars
             PROVE  \/ StatusRequests' = StatusRequests
                    \/ Line!Answer
                    \/ \E r \in Callers : Line!Ask(r)
  BY DEF Line!Next
<1>1. CASE HandleHigh
  BY <1>1, HandleHighAnswers
<1>2. CASE HandleLow
  <2>1. queue["low"] # <<>> /\ queue' = Received("low") /\ waiting' = waiting
    BY <1>2 DEF HandleLow
  <2> QED
    BY <2>1, ReceiveKeepsLine, Names
<1>3. CASE EndJitter
  <2>1. at["service"] \in Free /\ Send("service", "txs", queue)
    BY <1>3 DEF EndJitter, Free
  <2> QED
    BY <2>1, QueueItself, SendAsks, Names
<1>4. ASSUME NEW c \in Inputs \cup {"txs"}, HandleSwarm(c)
      PROVE  StatusRequests' = StatusRequests \/ \E r \in Callers : Line!Ask(r)
  <2>1. at["service"] \in Free /\ c \in Channels
    BY <1>4, Names DEF HandleSwarm, Free
  <2>2. CASE c = "txs"
    BY <1>4, <2>2, OthersKeepLine DEF HandleSwarm
  <2>3. CASE c # "txs"
    <3>1. Send("service", c, queue)
      BY <1>4, <2>3 DEF HandleSwarm
    <3> QED
      BY <2>1, <3>1, QueueItself, SendAsks, Names
  <2> QED
    BY <2>2, <2>3
<1>5. CASE EngineBoots
  <2>1. at["engine"] \in Free
    BY <1>5 DEF EngineBoots, Free
  <2>2. CASE Send("engine", Lane("block"), queue)
    BY <2>1, <2>2, QueueItself, SendAsks, Names
  <2>3. CASE UNCHANGED <<queue, waiting>>
    BY <2>3, OthersKeepLine
  <2> QED
    BY <1>5, <2>2, <2>3 DEF EngineBoots
<1>6. ASSUME NEW c \in Inputs, EngineTakes(c)
      PROVE  StatusRequests' = StatusRequests \/ \E r \in Callers : Line!Ask(r)
  <2>1. at["engine"] \in Free /\ queue[c] # <<>> /\ c \in Channels /\ c # "high" /\ TypeOK
    BY <1>6, Names DEF EngineTakes, Free, Inputs, ChannelInv
  <2>2. Received(c) \in [Channels -> Seq(Tasks)] /\ Received(c)["high"] = queue["high"]
    BY <2>1, ReceivedFacts, Names
  <2>3. ASSUME NEW command \in Commands(c), Send("engine", Lane(command), Received(c))
        PROVE  StatusRequests' = StatusRequests \/ \E r \in Callers : Line!Ask(r)
    BY <2>1, <2>2, <2>3, SendAsks, Names
  <2>4. CASE queue' = Received(c) /\ UNCHANGED <<at, waiting>>
    BY <2>1, <2>4, ReceiveKeepsLine
  <2> QED
    BY <1>6, <2>3, <2>4 DEF EngineTakes
<1>7. CASE MempoolTakes
  <2>1. queue["txs"] # <<>> /\ queue' = Received("txs") /\ waiting' = waiting
    BY <1>7 DEF MempoolTakes
  <2> QED
    BY <2>1, ReceiveKeepsLine, Names
<1>8. ASSUME NEW r \in Callers, Call(r)
      PROVE  StatusRequests' = StatusRequests \/ \E u \in Callers : Line!Ask(u)
  <2>1. at[r] \in Free /\ r \in Tasks
    BY <1>8, Names DEF Call, Free
  <2>2. PICK command : Send(r, Lane(command), queue)
    BY <1>8 DEF Call
  <2> QED
    BY <2>1, <2>2, QueueItself, SendAsks, Names
<1>9. CASE \E c \in Channels : Resume(c)
  BY <1>9, ResumeKeepsLine
<1>10. CASE UNCHANGED vars
  BY <1>10, OthersKeepLine DEF vars
<1> QED
  BY <1>1, <1>2, <1>3, <1>4, <1>5, <1>6, <1>7, <1>8, <1>9, <1>10
  DEF Next, ServiceStep, EngineStep

LEMMA LineInit == Init => Line!Init
<1> SUFFICES ASSUME Init PROVE StatusRequests = <<>>
  BY DEF Line!Init
<1>1. queue["high"] = <<>> /\ waiting["high"] = <<>>
  BY Names DEF Init
<1>2. <<>> \o <<>> = <<>> /\ <<>> \in Seq(Tasks) /\ Len(<<>>) = 0
  OBVIOUS
<1>3. CallersAmong(<<>>)[0] = <<>>
  BY <1>2, CallersAmongDef
<1> QED
  BY <1>1, <1>2, <1>3 DEF StatusRequests

\* The high lane and those who wait for it are the line of StatusLine: however
\* many handlers ask and whatever the engine sends there, they are answered in
\* the order they came and each once (p2p.rs 142-146, lib.rs 81-88).
THEOREM StatusLineSpecHolds == Spec => StatusLineSpec
<1> QED
  BY LineInit, LineStep, ChannelInvHolds, PTL DEF Spec, StatusLineSpec, Line!Spec
=============================================================================
