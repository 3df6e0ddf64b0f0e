--------------------------- MODULE ContractCalls ---------------------------
(***************************************************************************)
(* The contract executions of a block (engine.rs), host call by host call  *)
(* (noirnet-vm), for the one contract of the repository (contracts/token), *)
(* and what apply_block keeps of them, with a crash inside it.             *)
(* A transaction that deploys and calls is two executions in a row.        *)
(***************************************************************************)
EXTENDS Integers, Sequences

CONSTANTS
  Supply, Amount,  \* 1 000 000 000 and 1000 in the contract
  Executions,      \* records [kind, gas]: what a block may ask for
  MaxExecutions, MaxHeight, MaxCrashes  \* bounds

Kinds == {"deploy", "init", "transfer"} \* a deployment runs init too
Keys == {"treasury", "recipient", "total", "decimals", "symbol", "name"}
Absent == -1

ASSUME ContractAssumption ==
  /\ Amount \in Nat \ {0} /\ Supply \in Nat /\ Supply >= Amount
  /\ Executions \subseteq [kind : Kinds, gas : Nat]
  /\ MaxExecutions \in Nat /\ MaxHeight \in Nat /\ MaxCrashes \in Nat

VARIABLES
  stored, code, height, \* the store: contract state, is the code there, chain height
  executing, block,     \* is a block being executed, its executions still to come
  changes, deployed,    \* its contract_state_changes and new_contracts
  call,      \* the execution context of the running call, or NoCall
  reminted, torn, crashes \* history: init ran on a token that existed; a crash
                          \* kept some of a block's changes; number of crashes

storeVars == <<stored, code, height>>
blockVars == <<executing, block, changes, deployed>>
history == <<reminted, torn, crashes>>
vars == <<storeVars, blockVars, call, history>>

NoCall == [kind |-> "none"]

\* The map of entries f with those of g on top.
Over(f, g) == [k \in Keys |-> IF g[k] # Absent THEN g[k] ELSE f[k]]
Empty == [k \in Keys |-> Absent]

---------------------------------------------------------------------------
(* Host functions and what they cost (host.rs).                            *)

Get(k, keyLen) == [op |-> "get", key |-> k, val |-> Absent, cost |-> 200 + 5 * keyLen]
Set(k, v, len) == [op |-> "set", key |-> k, val |-> v, cost |-> 500 + 10 * len]
Emit(len) == [op |-> "emit", key |-> "name", val |-> Absent, cost |-> 100 + 5 * len]

\* get_balance: no entry is a balance of zero.
Amounts(v) == IF v = Absent THEN 0 ELSE v

(* The contract (contracts/token).  Keys of balances have 36 bytes, amounts  *)
(* 8; the texts stand for themselves.                                        *)

InitScript ==
  << Set("treasury", Supply, 8), Set("total", Supply, 8), Set("decimals", 8, 1),
     Set("symbol", 1, 4), Set("name", 1, 13), Emit(27) >>

\* Mutant: the balance is not compared with the amount.
ScriptUnchecked(kind, from, to) ==
  IF kind # "transfer" THEN InitScript
  ELSE << Get("treasury", 36), Get("recipient", 36), Set("treasury", from - Amount, 8),
          Set("recipient", to + Amount, 8), Emit(13) >>

\* The host calls of an execution, given the balances it reads.
Script(kind, from, to) ==
  IF kind # "transfer" THEN InitScript
  ELSE IF from < Amount THEN << Get("treasury", 36), Emit(34) >>
  ELSE << Get("treasury", 36), Get("recipient", 36), Set("treasury", from - Amount, 8),
          Set("recipient", to + Amount, 8), Emit(13) >>

\* Before it is read a balance is taken as enough; the first call reads it.
Host == Script(call.kind, call.seen["treasury"], call.seen["recipient"])

---------------------------------------------------------------------------
(* Executions of a block.                                                  *)

StartBlock(b) ==
  /\ ~executing /\ height < MaxHeight
  /\ executing' = TRUE /\ block' = b /\ changes' = Empty /\ deployed' = FALSE
  /\ UNCHANGED <<storeVars, call, history>>

\* A call finds the code in the store or does nothing; what the block itself
\* deploys is not there yet.
StartCall ==
  /\ executing /\ block # <<>> /\ call = NoCall
  /\ block' = Tail(block)
  /\ call' = IF Head(block).kind = "deploy" \/ code
             THEN [kind |-> Head(block).kind, gas |-> Head(block).gas, pc |-> 1,
                   diff |-> Empty, seen |-> [k \in {"treasury", "recipient"} |-> Amount]]
             ELSE NoCall
  /\ UNCHANGED <<storeVars, executing, changes, deployed, history>>

\* A host function charges first.  What a call reads is what it wrote, or the
\* committed state: not what earlier calls of the block wrote.
HostCall ==
  /\ call # NoCall /\ call.pc <= Len(Host)
  /\ LET h == Host[call.pc] IN
     /\ call.gas >= h.cost
     /\ call' = [call EXCEPT
          !.pc = @ + 1, !.gas = @ - h.cost,
          !.diff = IF h.op = "set" THEN [@ EXCEPT ![h.key] = h.val] ELSE @,
          !.seen = IF h.op = "get"
                   THEN [@ EXCEPT ![h.key] = Amounts(Over(stored, call.diff)[h.key])] ELSE @]
  /\ UNCHANGED <<storeVars, blockVars, history>>

\* Mutant: what a failed call wrote is kept.
FailKeepsDiff ==
  /\ call # NoCall
  /\ changes' = Over(changes, call.diff) /\ call' = NoCall
  /\ UNCHANGED <<storeVars, executing, block, deployed, history>>

\* A call may end at any point with an error: out of host gas, out of fuel, or
\* past its deadline of wall clock time.  Nothing of it remains.
Fail ==
  /\ call # NoCall
  /\ call' = NoCall
  /\ UNCHANGED <<storeVars, blockVars, history>>

\* Mutant: the code of a deployment is not kept.
ReturnForgetsCode ==
  /\ call # NoCall /\ call.pc > Len(Host)
  /\ changes' = Over(changes, call.diff) /\ call' = NoCall
  /\ reminted' = (reminted \/ (call.kind # "transfer" /\ stored["total"] # Absent))
  /\ UNCHANGED <<storeVars, executing, block, deployed, torn, crashes>>

Return ==
  /\ call # NoCall /\ call.pc > Len(Host)
  /\ changes' = Over(changes, call.diff)
  /\ deployed' = (deployed \/ call.kind = "deploy")
  /\ call' = NoCall
  /\ reminted' = (reminted \/ (call.kind # "transfer" /\ stored["total"] # Absent))
  /\ UNCHANGED <<storeVars, executing, block, torn, crashes>>

---------------------------------------------------------------------------
(* apply_block.                                                            *)

Executed == executing /\ block = <<>> /\ call = NoCall

\* The store takes the block, or refuses it before it comes to the contracts.
Apply ==
  /\ Executed
  /\ \/ /\ stored' = Over(stored, changes) /\ code' = (code \/ deployed)
        /\ height' = height + 1
     \/ UNCHANGED storeVars
  /\ executing' = FALSE /\ block' = <<>> /\ changes' = Empty /\ deployed' = FALSE
  /\ UNCHANGED <<call, history>>

\* A crash inside it: the code comes first, then the entries in any order, the
\* height last.  S are the entries written.
CrashInApply(S) ==
  /\ Executed /\ crashes < MaxCrashes
  /\ S \subseteq {k \in Keys : changes[k] # Absent}
  /\ stored' = [k \in Keys |-> IF k \in S THEN changes[k] ELSE stored[k]]
  /\ \/ code' = (code \/ deployed)
     \/ S = {} /\ UNCHANGED code
  /\ torn' = (torn \/ S # {}) /\ crashes' = crashes + 1
  /\ executing' = FALSE /\ block' = <<>> /\ changes' = Empty /\ deployed' = FALSE
  /\ UNCHANGED <<height, call, reminted>>

---------------------------------------------------------------------------
Init ==
  /\ stored = Empty /\ code = FALSE /\ height = 0
  /\ executing = FALSE /\ block = <<>> /\ changes = Empty /\ deployed = FALSE /\ call = NoCall
  /\ reminted = FALSE /\ torn = FALSE /\ crashes = 0

Next ==
  \/ \E m \in 1..MaxExecutions : \E b \in [1..m -> Executions] : StartBlock(b)
  \/ StartCall \/ HostCall \/ Fail \/ Return \/ Apply
  \/ \E S \in SUBSET Keys : CrashInApply(S)

Spec == Init /\ [][Next]_vars

---------------------------------------------------------------------------
(* Properties.                                                             *)

Balance(s, k) == Amounts(s[k])

Entries == [Keys -> Nat \cup {Absent}]

TypeOK ==
  /\ stored \in Entries /\ changes \in Entries
  /\ code \in BOOLEAN /\ deployed \in BOOLEAN /\ height \in Nat
  /\ reminted \in BOOLEAN /\ torn \in BOOLEAN /\ crashes \in Nat
  /\ executing \in BOOLEAN /\ block \in Seq(Executions)
  /\ call = NoCall \/
     call \in [kind : Kinds, gas : Nat, pc : Nat \ {0}, diff : Entries,
               seen : [{"treasury", "recipient"} -> Nat]]

\* The tokens of the treasury and the recipient are the supply, whatever calls
\* of a block fail, and wherever, as long as init does not run again and no crash
\* tears a block (token lib.rs 73-111, engine.rs 204-217).
SupplyConserved ==
  ~reminted /\ ~torn =>
    \/ stored = Empty
    \/ Balance(stored, "treasury") + Balance(stored, "recipient") = stored["total"]

\* No entry without code: neither a failed deployment nor a crash leaves a state
\* that no contract owns (engine.rs 175, state.rs 106-113).
StateNeedsCode == stored # Empty => code

\* What a block does to the tokens: nothing, one transfer, a mint, or a transfer
\* and a mint after it.  Each call runs against the committed state, so however
\* many transfers succeed in a block, they move Amount once (engine.rs 194).
BlockEffect ==
  [][height' # height =>
       LET t == Balance(stored, "treasury")   r == Balance(stored, "recipient")
           u == Balance(stored', "treasury")  s == Balance(stored', "recipient")
       IN \/ u = t /\ s = r
          \/ u = Supply /\ s = r
          \/ t >= Amount /\ u = t - Amount /\ s = r + Amount
          \/ t >= Amount /\ u = Supply /\ s = r + Amount]_vars
=============================================================================
