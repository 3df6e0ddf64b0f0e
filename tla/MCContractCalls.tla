-------------------------- MODULE MCContractCalls --------------------------
(***************************************************************************)
(* Executions with gas for all their host calls, and with one unit less.   *)
(***************************************************************************)
EXTENDS ContractCalls

Asked ==
  {[kind |-> "deploy", gas |-> 3075], [kind |-> "deploy", gas |-> 3074],
   [kind |-> "init", gas |-> 3075],
   [kind |-> "transfer", gas |-> 2085], [kind |-> "transfer", gas |-> 2084]}
=============================================================================
