-------------------------- MODULE NetworkChannels --------------------------
(***************************************************************************)
(* The bounded channels between the tasks of a node: the network service   *)
(* (p2p.rs), the consensus engine, the task that feeds the mempool, and    *)
(* the RPC handlers.  A message stands for the task that sent it; what it  *)
(* carries decides nothing here.  A send to a full channel suspends the    *)
(* task, which serves nothing else meanwhile, and waiters get their places *)
(* in the order they came.                                                 *)
(***************************************************************************)
EXTENDS Integers, Sequences, FiniteSets

CONSTANTS
  Callers,  \* RPC requests that may be open at one time
  Capacity  \* of each channel: 500 for "low", 100 for the others

Lanes == {"high", "low"}                  \* commands to the service
Inputs == {"blocks", "votes", "syncRequests", "syncResponses"} \* to the engine
Channels == Lanes \cup Inputs \cup {"txs"}
Tasks == Callers \cup {"service", "engine"}

ASSUME ChannelsAssumption ==
  /\ Capacity \in [Channels -> Nat \ {0}]
  /\ {"service", "engine"} \cap Callers = {}

VARIABLES
  queue,   \* of each channel: the senders of its messages, oldest first
  waiting, \* of each channel: the tasks suspended in send, in order
  at       \* of each task: "idle", the channel it is suspended at, or a wait
           \* of its own: "boot", "jitter", "reply"

vars == <<queue, waiting, at>>

---------------------------------------------------------------------------
(* Channels.                                                               *)

\* The lane of a command (PriorityNetworkSender).
Lane(command) ==
  IF command \in {"vote", "syncResponse", "status"} THEN "high" ELSE "low"

\* Where a task is when its message has been taken by channel c: a handler of
\* get_sync_status waits for the reply.
Sent(t, c) == IF t \in Callers /\ c = Lane("status") THEN "reply" ELSE "idle"

\* Mutant: a place that is free is taken past those who wait for one.
SendPastWaiters(t, c, q) ==
  IF Len(q[c]) < Capacity[c]
  THEN /\ queue' = [q EXCEPT ![c] = Append(@, t)]
       /\ at' = [at EXCEPT ![t] = Sent(t, c)]
       /\ UNCHANGED waiting
  ELSE /\ queue' = q
       /\ at' = [at EXCEPT ![t] = c]
       /\ waiting' = [waiting EXCEPT ![c] = Append(@, t)]

\* t sends to c; q is the content of the channels at that point.
Send(t, c, q) ==
  IF Len(q[c]) < Capacity[c] /\ waiting[c] = <<>>
  THEN /\ queue' = [q EXCEPT ![c] = Append(@, t)]
       /\ at' = [at EXCEPT ![t] = Sent(t, c)]
       /\ UNCHANGED waiting
  ELSE /\ queue' = q
       /\ at' = [at EXCEPT ![t] = c]
       /\ waiting' = [waiting EXCEPT ![c] = Append(@, t)]

\* The first waiter gets the place that has become free.
Resume(c) ==
  /\ waiting[c] # <<>> /\ Len(queue[c]) < Capacity[c]
  /\ queue' = [queue EXCEPT ![c] = Append(@, Head(waiting[c]))]
  /\ at' = [at EXCEPT ![Head(waiting[c])] = Sent(Head(waiting[c]), c)]
  /\ waiting' = [waiting EXCEPT ![c] = Tail(@)]

\* The content of the channels after the oldest message of c is received.
Received(c) == [queue EXCEPT ![c] = Tail(@)]

---------------------------------------------------------------------------
(* The network service: a biased select over the high lane, the swarm and  *)
(* the low lane.  What the swarm has to report is up to the network.       *)

\* Mutants: a status request is taken and its reply forgotten; commands are
\* handled by a task of their own while the service is suspended.
HandleHighNoReply ==
  /\ at["service"] = "idle" /\ queue["high"] # <<>>
  /\ queue' = Received("high")
  /\ UNCHANGED <<at, waiting>>
HandleHighApart ==
  /\ queue["high"] # <<>>
  /\ queue' = Received("high")
  /\ at' = [t \in Tasks |-> IF t \in Callers /\ t = Head(queue["high"]) THEN "idle" ELSE at[t]]
  /\ UNCHANGED waiting

HandleHigh ==
  /\ at["service"] = "idle" /\ queue["high"] # <<>>
  /\ queue' = Received("high")
  /\ at' = [t \in Tasks |-> IF t \in Callers /\ t = Head(queue["high"]) THEN "idle" ELSE at[t]]
  /\ UNCHANGED waiting

\* Mutant: without `biased'.
HandleSwarmUnbiased(c) ==
  /\ at["service"] = "idle"
  /\ IF c = "txs"
     THEN at' = [at EXCEPT !["service"] = "jitter"] /\ UNCHANGED <<queue, waiting>>
     ELSE Send("service", c, queue)

\* A gossip message, sync request or sync response; a transaction is held
\* back for a moment first.  Events that send nothing change nothing.
HandleSwarm(c) ==
  /\ at["service"] = "idle" /\ queue["high"] = <<>>
  /\ IF c = "txs"
     THEN at' = [at EXCEPT !["service"] = "jitter"] /\ UNCHANGED <<queue, waiting>>
     ELSE Send("service", c, queue)

EndJitter == at["service"] = "jitter" /\ Send("service", "txs", queue)

\* Only when neither the high lane nor the swarm is ready.
HandleLow ==
  /\ at["service"] = "idle" /\ queue["high"] = <<>> /\ queue["low"] # <<>>
  /\ queue' = Received("low")
  /\ UNCHANGED <<at, waiting>>

---------------------------------------------------------------------------
(* The tasks beside it.                                                    *)

\* The task that feeds the mempool never waits for anything else.
MempoolTakes == queue["txs"] # <<>> /\ queue' = Received("txs") /\ UNCHANGED <<at, waiting>>

\* What an arm of the engine may send: a vote can lead to a precommit, or to a
\* commit and the proposal of the next height; a response to the next request.
Commands(c) ==
  CASE c = "blocks" -> {"syncRequest", "vote"}
    [] c = "votes" -> {"vote", "block"}
    [] c = "syncRequests" -> {"syncResponse"}
    [] c = "syncResponses" -> {"syncRequest"}

\* The engine proposes when it starts, if it leads, before it receives at all.
EngineBoots ==
  /\ at["engine"] = "boot"
  /\ \/ Send("engine", Lane("block"), queue)
     \/ at' = [at EXCEPT !["engine"] = "idle"] /\ UNCHANGED <<queue, waiting>>

\* Mutant: a sync response is left in its channel until the low lane has room.
EngineTakesIfRoom(c) ==
  /\ at["engine"] = "idle" /\ queue[c] # <<>>
  /\ c = "syncResponses" => Len(queue["low"]) < Capacity["low"]
  /\ \/ \E command \in Commands(c) : Send("engine", Lane(command), Received(c))
     \/ c # "syncRequests" /\ queue' = Received(c) /\ UNCHANGED <<at, waiting>>

\* An arm of the select; each sends one command at most, a sync request is
\* always answered.  The timeout arm only runs when the inputs are empty and
\* sends nothing.
EngineTakes(c) ==
  /\ at["engine"] = "idle" /\ queue[c] # <<>>
  /\ \/ \E command \in Commands(c) : Send("engine", Lane(command), Received(c))
     \/ c # "syncRequests" /\ queue' = Received(c) /\ UNCHANGED <<at, waiting>>

\* send_transaction broadcasts what the mempool took; get_sync_status asks.
Call(r) ==
  /\ at[r] = "idle"
  /\ \E command \in {"tx", "status"} : Send(r, Lane(command), queue)

---------------------------------------------------------------------------
Init ==
  /\ queue = [c \in Channels |-> <<>>] /\ waiting = [c \in Channels |-> <<>>]
  /\ at = [t \in Tasks |-> IF t = "engine" THEN "boot" ELSE "idle"]

ServiceStep ==
  HandleHigh \/ HandleLow \/ EndJitter \/ \E c \in Inputs \cup {"txs"} : HandleSwarm(c)

EngineStep == EngineBoots \/ \E c \in Inputs : EngineTakes(c)

Next ==
  \/ ServiceStep \/ EngineStep \/ MempoolTakes
  \/ \E c \in Channels : Resume(c)
  \/ \E r \in Callers : Call(r)

Spec == Init /\ [][Next]_vars

\* Tasks that can go on are scheduled: the service takes a high command that is
\* there and ends its delay, the engine and the mempool's task receive, a free
\* place goes to a waiter.  Nothing is asked of the network, which may always
\* have more and then starves the low lane, nor of the callers.
FairSpec ==
  /\ Spec
  /\ WF_vars(HandleHigh) /\ WF_vars(EndJitter)
  /\ WF_vars(EngineStep) /\ WF_vars(MempoolTakes)
  /\ \A c \in Channels : WF_vars(Resume(c))

---------------------------------------------------------------------------
(* Properties.                                                             *)

Elements(s) == {s[k] : k \in DOMAIN s}

Waits == {"idle", "boot", "jitter", "reply"}

TypeOK ==
  /\ queue \in [Channels -> Seq(Tasks)] /\ waiting \in [Channels -> Seq(Tasks)]
  /\ at \in [Tasks -> Waits \cup Channels]
  /\ \A c \in Channels : Len(queue[c]) <= Capacity[c]

\* A handler waits for a status exactly as long as its one request is in the
\* high lane: no reply is lost and none comes twice (lib.rs 82-87, p2p.rs 211).
ReplyPending ==
  \A r \in Callers :
    /\ at[r] = "reply" <=> r \in Elements(queue["high"])
    /\ \A j, k \in DOMAIN queue["high"] :
         queue["high"][j] = r /\ queue["high"][k] = r => j = k

\* The service waits for the engine and the engine for the service.
MutualWait ==
  /\ at["service"] \in Inputs /\ Len(queue[at["service"]]) = Capacity[at["service"]]
  /\ at["engine"] \in Lanes /\ Len(queue[at["engine"]]) = Capacity[at["engine"]]

\* Once they wait for each other they do for good: there is no timeout on a
\* send and no third task that takes from their channels (p2p.rs 180 against
\* engine.rs 399).
MutualWaitIsFinal == [][MutualWait => MutualWait']_vars

\* Whatever the network sends and however often, a status request is answered
\* unless the two wait for each other: the high lane comes first (p2p.rs 142).
StatusAnsweredUnlessStuck ==
  \A r \in Callers : (at[r] = "reply" \/ at[r] = "high") ~> (at[r] = "idle" \/ MutualWait)

\* The high lane with those who wait for it is a line: callers that got a place
\* and callers that wait for one are answered in the order they asked, however
\* full the lane was and whatever else the engine sends there (p2p.rs 142-146
\* and 211-217, lib.rs 81-88).
CallersAmong(s) == \* the callers among the first k of s, for each k
  LET among[k \in 0 .. Len(s)] ==
        IF k = 0 THEN <<>>
        ELSE IF s[k] \in Callers THEN Append(among[k - 1], s[k]) ELSE among[k - 1]
  IN among

StatusRequests ==
  LET s == queue["high"] \o waiting["high"] IN CallersAmong(s)[Len(s)]
Line == INSTANCE StatusLine WITH line <- StatusRequests
StatusLineSpec == Line!Spec

\* The service always comes back to its select, unless they wait for each
\* other (p2p.rs 173-195).
ServiceResumesUnlessStuck == (at["service"] # "idle") ~> (at["service"] = "idle" \/ MutualWait)
=============================================================================
