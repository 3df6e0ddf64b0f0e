------------------------ MODULE ContractCallsProofs ------------------------
(***************************************************************************)
(* Proofs about ContractCalls, for any supply, amount, executions and      *)
(* number of crashes.                                                      *)
(***************************************************************************)
EXTENDS ContractCalls, TLAPS

\* The balances committed when the running block began.
T == Balance(stored, "treasury")
R == Balance(stored, "recipient")

\* What init has written before its host call pc.
InitEntries ==
  [k \in Keys |-> IF k \in {"treasury", "total"} THEN Supply ELSE IF k = "decimals" THEN 8
                  ELSE IF k = "recipient" THEN Absent ELSE 1]
InitPlace(k) ==
  IF k = "treasury" THEN 1 ELSE IF k = "total" THEN 2 ELSE IF k = "decimals" THEN 3
  ELSE IF k = "symbol" THEN 4 ELSE IF k = "name" THEN 5 ELSE 6
Minted(pc) == [k \in Keys |-> IF InitPlace(k) < pc THEN InitEntries[k] ELSE Absent]

\* What a transfer has written before its host call pc.
Moved(pc) ==
  [k \in Keys |-> IF T >= Amount /\ k = "treasury" /\ pc >= 4 THEN T - Amount
                  ELSE IF T >= Amount /\ k = "recipient" /\ pc >= 5 THEN R + Amount ELSE Absent]

\* The running call: what it has read and written so far.
CallInv ==
  call # NoCall =>
    /\ executing
    /\ call.kind = "deploy" \/ code
    /\ call.kind # "transfer" => call.diff = Minted(call.pc)
    /\ call.kind = "transfer" =>
         /\ call.pc >= 2 => call.seen["treasury"] = T
         /\ call.pc >= 3 /\ T >= Amount => call.seen["recipient"] = R
         /\ call.diff = Moved(call.pc)

\* What the calls of a block leave in the two accounts.
Shape ==
  \/ changes["treasury"] = Absent /\ changes["recipient"] = Absent
  \/ changes["treasury"] = Supply /\ changes["recipient"] = Absent
  \/ T >= Amount /\ changes["treasury"] = T - Amount /\ changes["recipient"] = R + Amount
  \/ T >= Amount /\ changes["treasury"] = Supply /\ changes["recipient"] = R + Amount

\* Nothing is kept without code to own it.
Owned ==
  /\ stored # Empty => code
  /\ changes # Empty => code \/ deployed

\* As long as init has not run on a token and no block is torn, the token is
\* whole, and a block mints it or moves Amount once.
Conserved(s) == s = Empty \/ (s["total"] # Absent /\ Balance(s, "treasury") + Balance(s, "recipient") = s["total"])
Whole ==
  ~reminted /\ ~torn =>
    /\ Conserved(stored)
    /\ \/ changes = Empty
       \/ stored = Empty /\ changes = InitEntries
       \/ T >= Amount /\ changes = Moved(5)

TokenInv == TypeOK /\ CallInv /\ Shape /\ Owned /\ Whole

---------------------------------------------------------------------------
(* Entries.                                                                *)

LEMMA OverTyped == ASSUME NEW f \in Entries, NEW g \in Entries PROVE Over(f, g) \in Entries
  BY DEF Over, Entries

LEMMA OverAt ==
  ASSUME NEW f, NEW g, NEW k \in Keys
  PROVE Over(f, g)[k] = IF g[k] # Absent THEN g[k] ELSE f[k]
  BY DEF Over

LEMMA EmptyTyped == Empty \in Entries /\ \A k \in Keys : Empty[k] = Absent
  BY DEF Empty, Entries

LEMMA EntriesEqual ==
  ASSUME NEW f \in Entries, NEW g \in Entries, \A k \in Keys : f[k] = g[k] PROVE f = g
  BY DEF Entries

LEMMA OverEmpty == ASSUME NEW f \in Entries PROVE Over(f, Empty) = f /\ Over(Empty, f) = f
<1>1. Over(f, Empty) \in Entries /\ Over(Empty, f) \in Entries
  BY OverTyped, EmptyTyped
<1>2. \A k \in Keys : Over(f, Empty)[k] = f[k] /\ Over(Empty, f)[k] = f[k]
  BY OverAt, EmptyTyped
<1> QED
  BY <1>1, <1>2, EntriesEqual

LEMMA OverItself == ASSUME NEW f \in Entries PROVE Over(f, f) = f
<1>1. \A k \in Keys : Over(f, f)[k] = f[k]
  BY OverAt
<1> QED
  BY <1>1, OverTyped, EntriesEqual

LEMMA BalanceTyped == TypeOK => T \in Nat /\ R \in Nat
  BY DEF TypeOK, Entries, T, R, Balance, Amounts, Keys, Absent

LEMMA WrittenTyped ==
  ASSUME TypeOK, NEW pc \in Nat
  PROVE /\ InitEntries \in Entries /\ Minted(pc) \in Entries /\ Moved(pc) \in Entries
        /\ Minted(1) = Empty /\ Moved(1) = Empty /\ Minted(7) = InitEntries
<1>1. InitEntries \in Entries
  BY ContractAssumption DEF ContractAssumption, InitEntries, Entries, Absent
<1>2. Minted(pc) \in Entries
  BY <1>1 DEF Minted, Entries
<1>3. Moved(pc) \in Entries
  BY BalanceTyped, ContractAssumption DEF ContractAssumption, Moved, Entries, Absent
<1>4. Minted(1) = Empty
  BY DEF Minted, Empty, InitPlace
<1>5. Moved(1) = Empty
  BY DEF Moved, Empty
<1>6. Minted(7) = InitEntries
  BY DEF Minted, InitEntries, InitPlace
<1> QED
  BY <1>1, <1>2, <1>3, <1>4, <1>5, <1>6

---------------------------------------------------------------------------
(* Host calls.                                                             *)

CallType ==
  [kind : Kinds, gas : Nat, pc : Nat \ {0}, diff : Entries, seen : [{"treasury", "recipient"} -> Nat]]

LEMMA CallTyped == ASSUME TypeOK, call # NoCall PROVE call \in CallType
  BY DEF TypeOK, CallType

LEMMA NoCallApart == NoCall \notin CallType
  BY DEF NoCall, CallType, Kinds

\* The next host call.
Here == Host[call.pc]

\* That of an execution of init.
LEMMA InitHost ==
  ASSUME TypeOK, call # NoCall, call.kind # "transfer"
  PROVE /\ Len(Host) = 6
        /\ call.pc = 1 => Here = Set("treasury", Supply, 8)
        /\ call.pc = 2 => Here = Set("total", Supply, 8)
        /\ call.pc = 3 => Here = Set("decimals", 8, 1)
        /\ call.pc = 4 => Here = Set("symbol", 1, 4)
        /\ call.pc = 5 => Here = Set("name", 1, 13)
        /\ call.pc = 6 => Here = Emit(27)
<1>1. Host = InitScript
  BY DEF Host, Script
<1>2. Len(InitScript) = 6
  BY DEF InitScript
<1>3. /\ InitScript[1] = Set("treasury", Supply, 8) /\ InitScript[2] = Set("total", Supply, 8)
      /\ InitScript[3] = Set("decimals", 8, 1) /\ InitScript[4] = Set("symbol", 1, 4)
      /\ InitScript[5] = Set("name", 1, 13) /\ InitScript[6] = Emit(27)
  BY DEF InitScript
<1> QED
  BY <1>1, <1>2, <1>3 DEF Here

\* And that of a transfer, by the balance it has read.
LEMMA TransferHost ==
  ASSUME TypeOK, call # NoCall, call.kind = "transfer", call.seen["treasury"] >= Amount
  PROVE /\ Len(Host) = 5
        /\ call.pc = 1 => Here = Get("treasury", 36)
        /\ call.pc = 2 => Here = Get("recipient", 36)
        /\ call.pc = 3 => Here = Set("treasury", call.seen["treasury"] - Amount, 8)
        /\ call.pc = 4 => Here = Set("recipient", call.seen["recipient"] + Amount, 8)
        /\ call.pc = 5 => Here = Emit(13)
<1> DEFINE from == call.seen["treasury"]
           to == call.seen["recipient"]
           all == << Get("treasury", 36), Get("recipient", 36), Set("treasury", from - Amount, 8),
                     Set("recipient", to + Amount, 8), Emit(13) >>
<1>1. from \in Nat /\ Amount \in Nat
  BY CallTyped, ContractAssumption DEF CallType, ContractAssumption
<1>2. Host = all
  BY <1>1 DEF Host, Script
<1>3. /\ Len(all) = 5 /\ all[1] = Get("treasury", 36) /\ all[2] = Get("recipient", 36)
      /\ all[3] = Set("treasury", from - Amount, 8) /\ all[4] = Set("recipient", to + Amount, 8)
      /\ all[5] = Emit(13)
  OBVIOUS
<1> HIDE DEF all
<1> QED
  BY <1>2, <1>3 DEF Here

LEMMA RefusedHost ==
  ASSUME TypeOK, call # NoCall, call.kind = "transfer", ~(call.seen["treasury"] >= Amount)
  PROVE /\ Len(Host) = 2
        /\ call.pc = 1 => Here = Get("treasury", 36)
        /\ call.pc = 2 => Here = Emit(34)
<1> DEFINE all == << Get("treasury", 36), Emit(34) >>
<1>1. call.seen["treasury"] \in Nat /\ Amount \in Nat
  BY CallTyped, ContractAssumption DEF CallType, ContractAssumption
<1>2. Host = all
  BY <1>1 DEF Host, Script
<1>3. Len(all) = 2 /\ all[1] = Get("treasury", 36) /\ all[2] = Emit(34)
  OBVIOUS
<1> HIDE DEF all
<1> QED
  BY <1>2, <1>3 DEF Here

\* What any host call is.
LEMMA HostTyped ==
  ASSUME TypeOK, call # NoCall, call.pc <= Len(Host)
  PROVE /\ Here.cost \in Nat /\ Here.key \in Keys /\ (Here.op = "set" => Here.val \in Nat)
        /\ Here.op = "get" => Here.key \in {"treasury", "recipient"}
<1>1. /\ call.pc \in Nat \ {0} /\ Amount \in Nat /\ Supply \in Nat
      /\ call.seen["treasury"] \in Nat /\ call.seen["recipient"] \in Nat
  BY CallTyped, ContractAssumption DEF CallType, ContractAssumption
<1>2. CASE call.kind # "transfer"
  <2>1. Len(Host) = 6
    BY <1>2, InitHost
  <2>2. call.pc \in 1 .. 6
    BY <1>1, <2>1
  <2>3. Here = Set("treasury", Supply, 8) \/ Here = Set("total", Supply, 8)
        \/ Here = Set("decimals", 8, 1) \/ Here = Set("symbol", 1, 4)
        \/ Here = Set("name", 1, 13) \/ Here = Emit(27)
    BY <1>2, <2>2, InitHost
  <2> QED
    BY <1>1, <2>3 DEF Set, Emit, Keys
<1>3. CASE call.kind = "transfer" /\ call.seen["treasury"] >= Amount
  <2>1. Len(Host) = 5
    BY <1>3, TransferHost
  <2>2. call.pc \in 1 .. 5
    BY <1>1, <2>1
  <2>3. Here = Get("treasury", 36) \/ Here = Get("recipient", 36)
        \/ Here = Set("treasury", call.seen["treasury"] - Amount, 8)
        \/ Here = Set("recipient", call.seen["recipient"] + Amount, 8) \/ Here = Emit(13)
    BY <1>3, <2>2, TransferHost
  <2>4. call.seen["treasury"] - Amount \in Nat /\ call.seen["recipient"] + Amount \in Nat
    BY <1>1, <1>3
  <2> QED
    BY <2>3, <2>4 DEF Set, Get, Emit, Keys
<1>4. CASE call.kind = "transfer" /\ ~(call.seen["treasury"] >= Amount)
  <2>1. Len(Host) = 2
    BY <1>4, RefusedHost
  <2>2. call.pc \in 1 .. 2
    BY <1>1, <2>1
  <2>3. Here = Get("treasury", 36) \/ Here = Emit(34)
    BY <1>4, <2>2, RefusedHost
  <2> QED
    BY <2>3 DEF Get, Emit, Keys
<1> QED
  BY <1>2, <1>3, <1>4

LEMMA HostCallEffect ==
  ASSUME TypeOK, HostCall
  PROVE /\ call # NoCall /\ call.pc <= Len(Host)
        /\ call' \in CallType /\ call'.kind = call.kind /\ call'.pc = call.pc + 1
        /\ call'.diff = IF Here.op = "set" THEN [call.diff EXCEPT ![Here.key] = Here.val] ELSE call.diff
        /\ call'.seen = IF Here.op = "get"
                        THEN [call.seen EXCEPT ![Here.key] = Amounts(Over(stored, call.diff)[Here.key])]
                        ELSE call.seen
<1>1. call # NoCall /\ call.pc <= Len(Host) /\ call.gas >= Here.cost
  BY DEF HostCall, Here
<1>2. call \in CallType
  BY <1>1, CallTyped
<1>3. /\ Here.cost \in Nat /\ Here.key \in Keys /\ (Here.op = "set" => Here.val \in Nat)
      /\ Here.op = "get" => Here.key \in {"treasury", "recipient"}
  BY <1>1, HostTyped
<1>4. Over(stored, call.diff) \in Entries
  BY <1>2, OverTyped DEF CallType, TypeOK
<1>5. Amounts(Over(stored, call.diff)[Here.key]) \in Nat
  BY <1>3, <1>4 DEF Amounts, Entries, Absent
<1>6. (IF Here.op = "set" THEN [call.diff EXCEPT ![Here.key] = Here.val] ELSE call.diff) \in Entries
  BY <1>2, <1>3 DEF CallType, Entries
<1>7. (IF Here.op = "get" THEN [call.seen EXCEPT ![Here.key] = Amounts(Over(stored, call.diff)[Here.key])]
       ELSE call.seen) \in [{"treasury", "recipient"} -> Nat]
  BY <1>2, <1>3, <1>5 DEF CallType
<1>8. call.gas - Here.cost \in Nat /\ call.pc + 1 \in Nat \ {0}
  BY <1>1, <1>2, <1>3 DEF CallType
<1>9. call' = [call EXCEPT !.pc = call.pc + 1, !.gas = call.gas - Here.cost,
          !.diff = IF Here.op = "set" THEN [call.diff EXCEPT ![Here.key] = Here.val] ELSE call.diff,
          !.seen = IF Here.op = "get"
                   THEN [call.seen EXCEPT ![Here.key] = Amounts(Over(stored, call.diff)[Here.key])]
                   ELSE call.seen]
  BY DEF HostCall, Here
<1> QED
  BY <1>1, <1>2, <1>6, <1>7, <1>8, <1>9 DEF CallType

\* A host call keeps what CallInv says of the call.
LEMMA HostCallStep == ASSUME TypeOK, CallInv, HostCall PROVE CallInv'
<1>0. /\ call # NoCall /\ call.pc <= Len(Host) /\ call \in CallType /\ call' \in CallType
      /\ call'.kind = call.kind /\ call'.pc = call.pc + 1
      /\ call'.diff = (IF Here.op = "set" THEN [call.diff EXCEPT ![Here.key] = Here.val] ELSE call.diff)
      /\ call'.seen = (IF Here.op = "get"
                       THEN [call.seen EXCEPT ![Here.key] = Amounts(Over(stored, call.diff)[Here.key])]
                       ELSE call.seen)
  BY HostCallEffect, CallTyped
<1>1. UNCHANGED <<stored, code, height, executing>>
  BY DEF HostCall, storeVars, blockVars
<1>2. T' = T /\ R' = R
  BY <1>1 DEF T, R, Balance
<1>3. executing /\ (call.kind = "deploy" \/ code)
  BY <1>0 DEF CallInv
<1>4. call.diff \in Entries /\ call.pc \in Nat \ {0} /\ call.seen \in [{"treasury", "recipient"} -> Nat]
  BY <1>0 DEF CallType
<1>5. ASSUME call.kind # "transfer" PROVE call'.diff = Minted(call'.pc)
  <2>0. Len(Host) = 6
    BY <1>0, <1>5, InitHost
  <2>1. call.pc \in 1 .. 6 /\ call.diff = Minted(call.pc)
    BY <1>0, <1>4, <1>5, <2>0 DEF CallInv
  <2>2. Minted(call.pc + 1) \in Entries /\ call'.diff \in Entries
    BY <1>0, <1>4, WrittenTyped DEF CallType
  <2>3. \A k \in Keys : call'.diff[k] = Minted(call.pc + 1)[k]
    <3>1. CASE call.pc = 1
      BY <1>0, <1>5, <2>1, <3>1, InitHost DEF Set, Minted, InitPlace, InitEntries, Keys
    <3>2. CASE call.pc = 2
      BY <1>0, <1>5, <2>1, <3>2, InitHost DEF Set, Minted, InitPlace, InitEntries, Keys
    <3>3. CASE call.pc = 3
      BY <1>0, <1>5, <2>1, <3>3, InitHost DEF Set, Minted, InitPlace, InitEntries, Keys
    <3>4. CASE call.pc = 4
      BY <1>0, <1>5, <2>1, <3>4, InitHost DEF Set, Minted, InitPlace, InitEntries, Keys
    <3>5. CASE call.pc = 5
      BY <1>0, <1>5, <2>1, <3>5, InitHost DEF Set, Minted, InitPlace, InitEntries, Keys
    <3>6. CASE call.pc = 6
      BY <1>0, <1>5, <2>1, <3>6, InitHost DEF Emit, Minted, InitPlace, InitEntries, Keys
    <3> QED
      BY <2>1, <3>1, <3>2, <3>3, <3>4, <3>5, <3>6
  <2> QED
    BY <1>0, <2>2, <2>3, EntriesEqual
<1>6. ASSUME call.kind = "transfer"
      PROVE /\ call'.pc >= 2 => call'.seen["treasury"] = T
            /\ call'.pc >= 3 /\ T >= Amount => call'.seen["recipient"] = R
            /\ call'.diff = Moved(call'.pc)
  <2>0. /\ call.pc >= 2 => call.seen["treasury"] = T
        /\ call.pc >= 3 /\ T >= Amount => call.seen["recipient"] = R
        /\ call.diff = Moved(call.pc)
    BY <1>0, <1>6 DEF CallInv
  <2>1. T \in Nat /\ R \in Nat /\ Amount \in Nat /\ stored \in Entries
    BY BalanceTyped, ContractAssumption DEF ContractAssumption, TypeOK
  <2>2. CASE call.pc <= 2
    <3>1. call.diff = Empty /\ Moved(call.pc + 1) = Empty
      BY <1>4, <2>0, <2>2 DEF Moved, Empty
    <3>2. \/ Here = Get("treasury", 36) /\ call.pc = 1
          \/ Here = Get("recipient", 36) /\ call.pc = 2
          \/ Here = Emit(34) /\ call.pc = 2 /\ ~(T >= Amount)
      <4>1. call.pc = 1 \/ call.pc = 2
        BY <1>4, <2>2
      <4>2. CASE call.seen["treasury"] >= Amount
        BY <1>0, <1>6, <4>1, <4>2, TransferHost
      <4>3. CASE ~(call.seen["treasury"] >= Amount)
        BY <1>0, <1>6, <2>0, <4>1, <4>3, RefusedHost
      <4> QED
        BY <4>2, <4>3
    <3>3. Over(stored, call.diff) = stored
      BY <2>1, <3>1, OverEmpty
    <3>4. call'.diff = Empty
      BY <1>0, <3>1, <3>2 DEF Get, Emit
    <3>5. CASE call.pc = 1
      <4>1. call'.seen["treasury"] = T
        BY <1>0, <1>4, <3>2, <3>3, <3>5 DEF Get, T, Balance
      <4> QED
        BY <1>0, <3>1, <3>4, <3>5, <4>1
    <3>6. CASE call.pc = 2
      <4>1. call'.seen["treasury"] = T
        BY <1>0, <1>4, <2>0, <3>2, <3>6 DEF Get, Emit
      <4>2. T >= Amount => call'.seen["recipient"] = R
        BY <1>0, <1>4, <3>2, <3>3, <3>6 DEF Get, R, Balance
      <4> QED
        BY <1>0, <3>1, <3>4, <3>6, <4>1, <4>2
    <3> QED
      BY <1>4, <2>2, <3>5, <3>6
  <2>3. CASE call.pc > 2
    <3>1. call.seen["treasury"] = T /\ T >= Amount /\ call.seen["recipient"] = R /\ call.pc \in 3 .. 5
      <4>1. call.seen["treasury"] = T
      BY <1>4, <2>0, <2>3
    <4>2. call.seen["treasury"] >= Amount
      <5>1. CASE ~(call.seen["treasury"] >= Amount)
        <6>1. Len(Host) = 2
          BY <1>0, <1>6, <5>1, RefusedHost
        <6> QED
          BY <1>0, <1>4, <2>3, <6>1
      <5> QED
        BY <5>1
    <4>3. Len(Host) = 5
      BY <1>0, <1>6, <4>2, TransferHost
    <4> QED
      BY <1>0, <1>4, <2>0, <2>3, <4>1, <4>2, <4>3
    <3>2. /\ call.pc = 3 => Here = Set("treasury", T - Amount, 8)
          /\ call.pc = 4 => Here = Set("recipient", R + Amount, 8)
          /\ call.pc = 5 => Here = Emit(13)
      BY <1>0, <1>6, <3>1, TransferHost
    <3>3. call'.seen = call.seen
      BY <1>0, <3>1, <3>2 DEF Set, Emit
    <3>4. \A k \in Keys : call'.diff[k] = Moved(call.pc + 1)[k]
      <4>1. CASE call.pc = 3
        BY <1>0, <2>0, <3>1, <3>2, <4>1 DEF Set, Moved, Keys
      <4>2. CASE call.pc = 4
        BY <1>0, <2>0, <3>1, <3>2, <4>2 DEF Set, Moved, Keys
      <4>3. CASE call.pc = 5
        BY <1>0, <2>0, <3>1, <3>2, <4>3 DEF Emit, Moved, Keys
      <4> QED
        BY <3>1, <4>1, <4>2, <4>3
    <3>5. Moved(call.pc + 1) \in Entries /\ call'.diff \in Entries
      BY <1>0, <1>4, WrittenTyped DEF CallType
    <3>6. call'.diff = Moved(call'.pc)
      BY <1>0, <3>4, <3>5, EntriesEqual
    <3> QED
      BY <3>1, <3>3, <3>6
  <2> QED
    BY <1>4, <2>2, <2>3
<1>7. ASSUME NEW pc PROVE Moved(pc)' = Moved(pc)
  BY <1>2 DEF Moved
<1>8. ASSUME NEW pc PROVE Minted(pc)' = Minted(pc)
  BY DEF Minted, InitEntries, InitPlace
<1> QED
  BY <1>0, <1>1, <1>2, <1>3, <1>5, <1>6, <1>7, <1>8 DEF CallInv

---------------------------------------------------------------------------
(* The steps of a block.                                                   *)

LEMMA TokenInitial == Init => TokenInv
<1>1. ASSUME Init PROVE TokenInv
  <2>1. TypeOK
    <3>1. stored \in Entries /\ changes \in Entries /\ block \in Seq(Executions) /\ call = NoCall
      BY <1>1, EmptyTyped DEF Init
    <3>2. /\ code \in BOOLEAN /\ deployed \in BOOLEAN /\ height \in Nat /\ executing \in BOOLEAN
          /\ reminted \in BOOLEAN /\ torn \in BOOLEAN /\ crashes \in Nat
      BY <1>1 DEF Init
    <3> QED
      BY <3>1, <3>2 DEF TypeOK
  <2>2. CallInv /\ Shape /\ Owned /\ Whole
    BY <1>1, EmptyTyped DEF Init, CallInv, Shape, Owned, Whole, Conserved, Keys
  <2> QED
    BY <2>1, <2>2 DEF TokenInv
<1> QED
  BY <1>1

\* The parts of the invariant that name no variable of the call.
LEMMA UnmovedParts ==
  ASSUME TokenInv, UNCHANGED <<storeVars, changes, deployed, reminted, torn>>
  PROVE Shape' /\ Owned' /\ Whole' /\ T' = T /\ R' = R
<1>1. T' = T /\ R' = R /\ stored' = stored /\ code' = code
  BY DEF storeVars, T, R, Balance
<1>2. Moved(5)' = Moved(5) /\ InitEntries' = InitEntries /\ Conserved(stored)' = Conserved(stored)
  BY <1>1 DEF Moved, InitEntries, Conserved
<1> QED
  BY <1>1, <1>2 DEF TokenInv, Shape, Owned, Whole, Conserved

\* A block that starts afresh, or has ended, has changed nothing and called
\* nothing.
LEMMA CleanParts ==
  ASSUME stored' = stored, changes' = Empty, call' = NoCall, torn' = torn, reminted' = reminted,
         TokenInv, stored # Empty => code'
  PROVE CallInv' /\ Shape' /\ Owned' /\ Whole'
<1>1. Conserved(stored)' = Conserved(stored)
  BY DEF Conserved
<1> QED
  BY <1>1, EmptyTyped DEF TokenInv, CallInv, Shape, Owned, Whole, Conserved, Keys

LEMMA StartCallStep == ASSUME TokenInv, StartCall PROVE TokenInv'
<1>1. /\ executing /\ block # <<>> /\ block' = Tail(block)
      /\ UNCHANGED <<storeVars, executing, changes, deployed, reminted, torn, crashes>>
  BY DEF StartCall, history
<1>2. block' \in Seq(Executions) /\ Head(block) \in [kind : Kinds, gas : Nat]
  BY <1>1, ContractAssumption DEF TokenInv, TypeOK, ContractAssumption
<1>3. Amount \in Nat
  BY ContractAssumption DEF ContractAssumption
<1>4. CASE Head(block).kind = "deploy" \/ code
  <2>1. call' = [kind |-> Head(block).kind, gas |-> Head(block).gas, pc |-> 1, diff |-> Empty,
                 seen |-> [k \in {"treasury", "recipient"} |-> Amount]]
    BY <1>4 DEF StartCall
  <2>2. call' \in CallType
    BY <1>2, <1>3, <2>1, EmptyTyped DEF CallType
  <2>3. Minted(1)' = Empty /\ Moved(1)' = Empty
    BY DEF Minted, InitPlace, InitEntries, Moved, Empty
  <2>4. call'.pc = 1 /\ call'.diff = Empty /\ call'.kind = Head(block).kind
    BY <2>1
  <2>5. CallInv'
    BY <1>1, <1>4, <2>3, <2>4 DEF CallInv, storeVars
  <2>6. TypeOK'
    BY <1>1, <1>2, <2>2 DEF TokenInv, TypeOK, CallType, storeVars
  <2> QED
    BY <1>1, <2>5, <2>6, UnmovedParts DEF TokenInv
<1>5. CASE ~(Head(block).kind = "deploy" \/ code)
  <2>1. call' = NoCall
    BY <1>5 DEF StartCall
  <2>2. TypeOK' /\ CallInv'
    BY <1>1, <1>2, <2>1 DEF TokenInv, TypeOK, CallInv, storeVars
  <2> QED
    BY <1>1, <2>2, UnmovedParts DEF TokenInv
<1> QED
  BY <1>4, <1>5

LEMMA HostCallKeeps == ASSUME TokenInv, HostCall PROVE TokenInv'
<1>1. call' \in CallType
  BY HostCallEffect DEF TokenInv
<1>2. UNCHANGED <<storeVars, blockVars, history>>
  BY DEF HostCall
<1>3. TypeOK'
  BY <1>1, <1>2 DEF TokenInv, TypeOK, CallType, storeVars, blockVars, history
<1> QED
  BY <1>2, <1>3, HostCallStep, UnmovedParts DEF TokenInv, blockVars, history

\* A call that ends has written all of init, or a transfer, or nothing.
LEMMA DiffAtEnd ==
  ASSUME TokenInv, call # NoCall, call.pc > Len(Host)
  PROVE /\ call.diff \in Entries
        /\ call.kind # "transfer" => call.diff = InitEntries
        /\ call.kind = "transfer" => call.diff = Empty \/ (T >= Amount /\ call.diff = Moved(5))
<1>0. call \in CallType /\ TypeOK /\ CallInv
  BY CallTyped DEF TokenInv
<1>1. call.diff \in Entries /\ call.pc \in Nat \ {0}
  BY <1>0 DEF CallType
<1>2. ASSUME call.kind # "transfer" PROVE call.diff = InitEntries
  <2>1. Len(Host) = 6
    BY <1>0, <1>2, InitHost
  <2>2. call.pc > 6 /\ call.diff = Minted(call.pc)
    BY <1>0, <1>2, <2>1 DEF CallInv
  <2>3. Minted(call.pc) = InitEntries
    BY <1>1, <2>2 DEF Minted, InitPlace, InitEntries
  <2> QED
    BY <2>2, <2>3
<1>3. ASSUME call.kind = "transfer" PROVE call.diff = Empty \/ (T >= Amount /\ call.diff = Moved(5))
  <2>1. Len(Host) = 5 \/ Len(Host) = 2
    BY <1>0, <1>3, TransferHost, RefusedHost
  <2>2. call.pc >= 2 /\ call.seen["treasury"] = T /\ call.diff = Moved(call.pc)
    <3>1. call.pc > 2
      <4>1. CASE Len(Host) = 5
        BY <1>1, <4>1
      <4>2. CASE Len(Host) = 2
        BY <1>1, <4>2
      <4> QED
        BY <2>1, <4>1, <4>2
    <3> QED
      BY <1>0, <1>1, <1>3, <3>1 DEF CallInv
  <2>3. CASE T >= Amount
    <3>1. Len(Host) = 5
      BY <1>0, <1>3, <2>2, <2>3, TransferHost
    <3>2. call.pc > 5
      BY <3>1
    <3>3. Moved(call.pc) = Moved(5)
      BY <1>1, <3>2 DEF Moved
    <3> QED
      BY <2>2, <2>3, <3>3
  <2>4. CASE ~(T >= Amount)
    <3>1. Moved(call.pc) = Empty
      BY <2>4 DEF Moved, Empty
    <3> QED
      BY <2>2, <3>1
  <2> QED
    BY <2>3, <2>4
<1> QED
  BY <1>1, <1>2, <1>3

LEMMA ReturnTyped ==
  ASSUME TokenInv, Return
  PROVE /\ TypeOK' /\ CallInv' /\ changes' = Over(changes, call.diff)
        /\ UNCHANGED storeVars /\ T' = T /\ R' = R
<1>1. /\ call # NoCall /\ call.pc > Len(Host) /\ changes' = Over(changes, call.diff)
      /\ deployed' = (deployed \/ call.kind = "deploy") /\ call' = NoCall
      /\ reminted' = (reminted \/ (call.kind # "transfer" /\ stored["total"] # Absent))
      /\ UNCHANGED <<storeVars, executing, block, torn, crashes>>
  BY DEF Return
<1>2. changes' \in Entries
  BY <1>1, DiffAtEnd, OverTyped DEF TokenInv, TypeOK
<1>3. T' = T /\ R' = R
  BY <1>1 DEF storeVars, T, R, Balance
<1> QED
  BY <1>1, <1>2, <1>3 DEF TokenInv, TypeOK, CallInv, storeVars

LEMMA ReturnStep == ASSUME TokenInv, Return PROVE TokenInv'
<1>1. /\ call # NoCall /\ changes' = Over(changes, call.diff)
      /\ deployed' = (deployed \/ call.kind = "deploy")
      /\ reminted' = (reminted \/ (call.kind # "transfer" /\ stored["total"] # Absent))
      /\ UNCHANGED <<stored, code, torn>> /\ T' = T /\ R' = R
  BY ReturnTyped DEF Return, storeVars
<1>2. /\ call.diff \in Entries /\ changes \in Entries
      /\ call.kind # "transfer" => call.diff = InitEntries
      /\ call.kind = "transfer" => call.diff = Empty \/ (T >= Amount /\ call.diff = Moved(5))
  BY DiffAtEnd DEF Return, TokenInv, TypeOK
<1>3. T \in Nat /\ R \in Nat /\ Amount \in Nat \ {0} /\ Supply \in Nat
  BY BalanceTyped, ContractAssumption DEF TokenInv, ContractAssumption
<1>4. /\ changes'["treasury"] = IF call.diff["treasury"] # Absent THEN call.diff["treasury"] ELSE changes["treasury"]
      /\ changes'["recipient"] = IF call.diff["recipient"] # Absent THEN call.diff["recipient"] ELSE changes["recipient"]
  BY <1>1, OverAt DEF Keys
<1>5. /\ InitEntries["treasury"] = Supply /\ InitEntries["recipient"] = Absent
      /\ InitEntries["total"] = Supply
      /\ T >= Amount => (Moved(5)["treasury"] = T - Amount /\ Moved(5)["recipient"] = R + Amount)
      /\ Empty["treasury"] = Absent /\ Empty["recipient"] = Absent
  <2>1. /\ InitEntries["treasury"] = Supply /\ InitEntries["recipient"] = Absent
        /\ InitEntries["total"] = Supply
    BY DEF InitEntries, Keys
  <2>2. T >= Amount => (Moved(5)["treasury"] = T - Amount /\ Moved(5)["recipient"] = R + Amount)
    BY DEF Moved, Keys
  <2>3. Empty["treasury"] = Absent /\ Empty["recipient"] = Absent
    BY DEF Empty, Keys
  <2> QED
    BY <2>1, <2>2, <2>3
<1>6. T >= Amount => T - Amount # Absent /\ R + Amount # Absent
  BY <1>3 DEF Absent
<1>7. Supply # Absent
  BY <1>3 DEF Absent
<1>8. Shape'
  <2>1. CASE call.kind # "transfer"
    BY <1>1, <1>2, <1>4, <1>5, <1>7, <2>1 DEF TokenInv, Shape
  <2>2. CASE call.diff = Empty
    BY <1>1, <1>4, <1>5, <2>2 DEF TokenInv, Shape
  <2>3. CASE T >= Amount /\ call.diff = Moved(5)
    BY <1>1, <1>4, <1>5, <1>6, <2>3 DEF Shape
  <2> QED
    BY <1>2, <2>1, <2>2, <2>3
<1>9. Owned'
  BY <1>1 DEF TokenInv, CallInv, Owned
<1>10. ASSUME ~reminted', ~torn'
       PROVE \/ changes' = Empty
             \/ stored = Empty /\ changes' = InitEntries
             \/ T >= Amount /\ changes' = Moved(5)
  <2>0. /\ Conserved(stored)
        /\ \/ changes = Empty
           \/ stored = Empty /\ changes = InitEntries
           \/ T >= Amount /\ changes = Moved(5)
    BY <1>1, <1>10 DEF TokenInv, Whole
  <2>1. T >= Amount => stored # Empty
    BY <1>3, EmptyTyped DEF T, Balance, Amounts, Keys
  <2>2. CASE call.kind # "transfer"
    <3>1. stored["total"] = Absent /\ stored = Empty
      BY <1>1, <1>10, <2>0, <2>2 DEF Conserved
    <3>2. changes = Empty \/ changes = InitEntries
      BY <2>0, <2>1, <3>1
    <3> QED
      BY <1>1, <1>2, <2>2, <3>1, <3>2, OverEmpty, OverItself
  <2>3. CASE call.diff = Empty
    BY <1>1, <1>2, <2>0, <2>3, OverEmpty
  <2>4. CASE T >= Amount /\ call.diff = Moved(5)
    <3>1. changes = Empty \/ changes = Moved(5)
      BY <2>0, <2>1, <2>4
    <3> QED
      BY <1>1, <1>2, <2>4, <3>1, OverEmpty, OverItself
  <2> QED
    BY <1>2, <2>2, <2>3, <2>4
<1>11. Whole'
  <2>1. Moved(5)' = Moved(5) /\ InitEntries' = InitEntries /\ Conserved(stored)' = Conserved(stored)
    BY <1>1 DEF Moved, InitEntries, Conserved
  <2> QED
    BY <1>1, <1>10, <2>1 DEF TokenInv, Whole
<1> QED
  BY <1>8, <1>9, <1>11, ReturnTyped DEF TokenInv

---------------------------------------------------------------------------
(* apply_block.                                                            *)

\* What the store has once the block is applied.
LEMMA AppliedWhole ==
  ASSUME TokenInv, ~reminted, ~torn PROVE Conserved(Over(stored, changes))
<1>1. /\ stored \in Entries /\ changes \in Entries /\ Supply \in Nat
      /\ T \in Nat /\ R \in Nat /\ Amount \in Nat \ {0}
  BY BalanceTyped, ContractAssumption DEF TokenInv, TypeOK, ContractAssumption
<1>2. /\ Conserved(stored)
      /\ \/ changes = Empty
         \/ stored = Empty /\ changes = InitEntries
         \/ T >= Amount /\ changes = Moved(5)
  BY DEF TokenInv, Whole
<1>3. CASE changes = Empty
  BY <1>1, <1>2, <1>3, OverEmpty
<1>4. CASE stored = Empty /\ changes = InitEntries
  <2>1. Over(stored, changes) = InitEntries
    BY <1>1, <1>4, OverEmpty
  <2>2. InitEntries["total"] = Supply /\ InitEntries["treasury"] = Supply /\ InitEntries["recipient"] = Absent
    BY DEF InitEntries, Keys
  <2> QED
    BY <1>1, <2>1, <2>2 DEF Conserved, Balance, Amounts, Absent
<1>5. CASE T >= Amount /\ changes = Moved(5)
  <2>1. /\ changes["treasury"] = T - Amount /\ changes["recipient"] = R + Amount
        /\ changes["total"] = Absent
    BY <1>1, <1>5 DEF Moved, Keys
  <2>2. /\ Over(stored, changes)["treasury"] = T - Amount
        /\ Over(stored, changes)["recipient"] = R + Amount
        /\ Over(stored, changes)["total"] = stored["total"]
    BY <1>1, <1>5, <2>1, OverAt DEF Keys, Absent
  <2>3. stored # Empty
    BY <1>1, <1>5, EmptyTyped DEF T, Balance, Amounts, Keys
  <2>4. stored["total"] # Absent /\ T + R = stored["total"]
    BY <1>2, <2>3 DEF Conserved, T, R
  <2> QED
    BY <1>1, <1>5, <2>2, <2>4 DEF Conserved, Balance, Amounts, Absent
<1> QED
  BY <1>2, <1>3, <1>4, <1>5

LEMMA AppliedOwned ==
  ASSUME TokenInv, Over(stored, changes) # Empty PROVE code \/ deployed
<1>1. stored # Empty \/ changes # Empty
  BY OverEmpty, EmptyTyped
<1> QED
  BY <1>1 DEF TokenInv, Owned

LEMMA ApplyStep == ASSUME TokenInv, Apply PROVE TokenInv'
<1>0. /\ executing' = FALSE /\ block' = <<>> /\ changes' = Empty /\ deployed' = FALSE
      /\ call' = NoCall /\ call = NoCall /\ UNCHANGED <<reminted, torn, crashes>>
      /\ stored \in Entries /\ changes \in Entries
  BY DEF Apply, Executed, history, TokenInv, TypeOK
<1>1. CASE UNCHANGED storeVars
  <2>1. TypeOK'
    <3>1. stored' \in Entries /\ changes' \in Entries /\ block' \in Seq(Executions)
      BY <1>0, <1>1, EmptyTyped DEF storeVars
    <3>2. code' \in BOOLEAN /\ deployed' \in BOOLEAN /\ height' \in Nat
      BY <1>0, <1>1 DEF TokenInv, TypeOK, storeVars
    <3>3. reminted' \in BOOLEAN /\ torn' \in BOOLEAN /\ crashes' \in Nat /\ executing' \in BOOLEAN
      BY <1>0 DEF TokenInv, TypeOK
    <3> QED
      BY <1>0, <3>1, <3>2, <3>3 DEF TypeOK, NoCall
  <2>2. CallInv' /\ Shape' /\ Owned' /\ Whole'
    BY <1>0, <1>1, CleanParts DEF storeVars, TokenInv, Owned
  <2> QED
    BY <2>1, <2>2 DEF TokenInv
<1>2. CASE stored' = Over(stored, changes) /\ code' = (code \/ deployed) /\ height' = height + 1
  <2>1. TypeOK'
    <3>1. stored' \in Entries /\ changes' \in Entries /\ block' \in Seq(Executions)
      BY <1>0, <1>2, EmptyTyped, OverTyped
    <3>2. code' \in BOOLEAN /\ deployed' \in BOOLEAN
      BY <1>0, <1>2 DEF TokenInv, TypeOK
    <3>3. height' \in Nat /\ crashes' \in Nat
      BY <1>0, <1>2 DEF TokenInv, TypeOK
    <3>4. reminted' \in BOOLEAN /\ torn' \in BOOLEAN /\ executing' \in BOOLEAN
      BY <1>0 DEF TokenInv, TypeOK
    <3> QED
      BY <1>0, <3>1, <3>2, <3>3, <3>4 DEF TypeOK, NoCall
  <2>2. CallInv' /\ Shape'
    BY <1>0, EmptyTyped DEF CallInv, Shape, Keys
  <2>3. Owned'
    BY <1>0, <1>2, AppliedOwned DEF Owned
  <2>4. Whole'
    <3>1. ASSUME ~reminted', ~torn' PROVE Conserved(stored')
      BY <1>0, <1>2, <3>1, AppliedWhole
    <3> QED
      BY <1>0, <3>1 DEF Whole, Conserved
  <2> QED
    BY <2>1, <2>2, <2>3, <2>4 DEF TokenInv
<1> QED
  BY <1>1, <1>2 DEF Apply

LEMMA CrashStep == ASSUME TokenInv, NEW S \in SUBSET Keys, CrashInApply(S) PROVE TokenInv'
<1>0. /\ executing' = FALSE /\ block' = <<>> /\ changes' = Empty /\ deployed' = FALSE
      /\ call' = NoCall /\ call = NoCall /\ reminted' = reminted /\ crashes' = crashes + 1
      /\ height' = height /\ torn' = (torn \/ S # {})
      /\ stored' = [k \in Keys |-> IF k \in S THEN changes[k] ELSE stored[k]]
      /\ stored \in Entries /\ changes \in Entries
      /\ code' = (code \/ deployed) \/ (S = {} /\ code' = code)
      /\ \A k \in S : changes[k] # Absent
  BY DEF CrashInApply, Executed, TokenInv, TypeOK
<1>1. stored' \in Entries
  BY <1>0 DEF Entries
<1>2. TypeOK'
  <2>1. changes' \in Entries /\ block' \in Seq(Executions)
    BY <1>0, EmptyTyped
  <2>2. code' \in BOOLEAN /\ deployed' \in BOOLEAN
    BY <1>0 DEF TokenInv, TypeOK
  <2>3. height' \in Nat /\ crashes' \in Nat
    BY <1>0 DEF TokenInv, TypeOK
  <2>4. reminted' \in BOOLEAN /\ torn' \in BOOLEAN /\ executing' \in BOOLEAN
    BY <1>0 DEF TokenInv, TypeOK
  <2> QED
    BY <1>0, <1>1, <2>1, <2>2, <2>3, <2>4 DEF TypeOK, NoCall
<1>3. CASE S = {}
  <2>1. stored' = stored
    BY <1>0, <1>1, <1>3, EntriesEqual
  <2>2. stored # Empty => code'
    <3>1. stored # Empty => code
      BY DEF TokenInv, Owned
    <3>2. code => code'
      BY <1>0, ZenonT(30)
    <3> QED
      BY <3>1, <3>2
  <2>3. torn' = torn
    BY <1>0, <1>3 DEF TokenInv, TypeOK
  <2>4. CallInv' /\ Shape' /\ Owned' /\ Whole'
    BY <1>0, <2>1, <2>2, <2>3, CleanParts DEF TokenInv, Owned
  <2> QED
    BY <1>2, <2>4 DEF TokenInv
<1>4. CASE S # {}
  <2>1. changes # Empty
    BY <1>0, <1>4, EmptyTyped
  <2>2. code'
    BY <1>0, <1>4, <2>1 DEF TokenInv, Owned
  <2>3. CallInv' /\ Shape' /\ Owned' /\ Whole'
    BY <1>0, <1>4, <2>2, EmptyTyped DEF CallInv, Shape, Owned, Whole, Keys
  <2> QED
    BY <1>2, <2>3 DEF TokenInv
<1> QED
  BY <1>3, <1>4

---------------------------------------------------------------------------
LEMMA TokenStep == TokenInv /\ [Next]_vars => TokenInv'
<1> SUFFICES ASSUME TokenInv, [Next]_vars PROVE TokenInv'
  OBVIOUS
<1>1. ASSUME NEW m \in 1 .. MaxExecutions, NEW b \in [1 .. m -> Executions], StartBlock(b)
      PROVE TokenInv'
  <2>0. /\ executing' = TRUE /\ block' = b /\ changes' = Empty /\ deployed' = FALSE /\ ~executing
        /\ UNCHANGED <<stored, code, height, call, reminted, torn, crashes>>
    BY <1>1 DEF StartBlock, storeVars, history
  <2>1. call = NoCall
    BY <2>0 DEF TokenInv, CallInv
  <2>2. b \in Seq(Executions)
    BY ContractAssumption DEF ContractAssumption
  <2>3. TypeOK'
    BY <2>0, <2>1, <2>2, EmptyTyped DEF TokenInv, TypeOK
  <2>4. CallInv' /\ Shape' /\ Owned' /\ Whole'
    BY <2>0, <2>1, CleanParts DEF TokenInv, Owned
  <2> QED
    BY <2>3, <2>4 DEF TokenInv
<1>2. CASE Fail
  <2>1. TypeOK' /\ CallInv'
    BY <1>2 DEF Fail, TokenInv, TypeOK, CallInv, storeVars, blockVars, history
  <2> QED
    BY <1>2, <2>1, UnmovedParts DEF TokenInv, Fail, blockVars, history
<1>3. CASE UNCHANGED vars
  <2>1. TypeOK'
    BY <1>3 DEF TokenInv, TypeOK, vars, storeVars, blockVars, history
  <2>2. T' = T /\ R' = R
    BY <1>3 DEF vars, storeVars, T, R, Balance
  <2>3. CallInv'
    BY <1>3, <2>2 DEF TokenInv, CallInv, vars, storeVars, blockVars, Minted, InitEntries, InitPlace, Moved
  <2> QED
    BY <1>3, <2>1, <2>3, UnmovedParts DEF TokenInv, vars, blockVars, history
<1> QED
  BY <1>1, <1>2, <1>3, StartCallStep, HostCallKeeps, ReturnStep, ApplyStep, CrashStep DEF Next

LEMMA TokenInvariant == Spec => []TokenInv
  BY TokenInitial, TokenStep, PTL DEF Spec

\* TypeOK: entries, calls and their gas keep their types; no balance is negative.
THEOREM TokenTypeCorrect == Spec => []TypeOK
  BY TokenInvariant, PTL DEF TokenInv

\* SupplyConserved: whatever calls fail and wherever, the two accounts hold the
\* supply until init runs again or a crash tears a block.
THEOREM SupplyConservedHolds == Spec => []SupplyConserved
<1>1. TokenInv => SupplyConserved
  BY DEF TokenInv, Whole, Conserved, SupplyConserved
<1> QED
  BY <1>1, TokenInvariant, PTL

\* StateNeedsCode: no failed deployment and no crash leaves an entry without code.
THEOREM StateNeedsCodeHolds == Spec => []StateNeedsCode
<1>1. TokenInv => StateNeedsCode
  BY DEF TokenInv, Owned, StateNeedsCode
<1> QED
  BY <1>1, TokenInvariant, PTL

\* What a block moves: only apply_block raises the height, and Shape says what it
\* stores.
LEMMA ApplyMoves ==
  ASSUME TokenInv, stored' = Over(stored, changes)
  PROVE LET u == Balance(stored', "treasury")   s == Balance(stored', "recipient")
        IN \/ u = T /\ s = R
           \/ u = Supply /\ s = R
           \/ T >= Amount /\ u = T - Amount /\ s = R + Amount
           \/ T >= Amount /\ u = Supply /\ s = R + Amount
<1>1. /\ stored \in Entries /\ changes \in Entries /\ Supply \in Nat /\ Amount \in Nat
      /\ T \in Nat /\ R \in Nat
  BY BalanceTyped, ContractAssumption DEF TokenInv, TypeOK, ContractAssumption
<1>2. /\ stored'["treasury"] =
           IF changes["treasury"] # Absent THEN changes["treasury"] ELSE stored["treasury"]
      /\ stored'["recipient"] =
           IF changes["recipient"] # Absent THEN changes["recipient"] ELSE stored["recipient"]
  BY <1>1, OverAt DEF Keys
<1>3. /\ changes["treasury"] = Absent => Balance(stored', "treasury") = T
      /\ changes["treasury"] \in Nat => Balance(stored', "treasury") = changes["treasury"]
      /\ changes["recipient"] = Absent => Balance(stored', "recipient") = R
      /\ changes["recipient"] \in Nat => Balance(stored', "recipient") = changes["recipient"]
  BY <1>2 DEF Balance, Amounts, Absent, T, R
<1>4. Shape
  BY DEF TokenInv
<1> QED
  BY <1>1, <1>3, <1>4 DEF Shape

\* BlockEffect: however many transfers of a block succeed, it moves Amount once.
THEOREM BlockEffectHolds == Spec => BlockEffect
<1> DEFINE A == height' # height =>
       LET t == Balance(stored, "treasury")   r == Balance(stored, "recipient")
           u == Balance(stored', "treasury")  s == Balance(stored', "recipient")
       IN \/ u = t /\ s = r
          \/ u = Supply /\ s = r
          \/ t >= Amount /\ u = t - Amount /\ s = r + Amount
          \/ t >= Amount /\ u = Supply /\ s = r + Amount
<1>1. TokenInv /\ [Next]_vars => [A]_vars
  <2> SUFFICES ASSUME TokenInv, Next, height' # height PROVE A
    OBVIOUS
  <2>1. stored' = Over(stored, changes)
    BY DEF Next, StartBlock, StartCall, HostCall, Fail, Return, Apply, CrashInApply,
           storeVars
  <2> QED
    BY <2>1, ApplyMoves DEF T, R
<1> QED
  BY <1>1, TokenInvariant, PTL DEF Spec, BlockEffect
=============================================================================
