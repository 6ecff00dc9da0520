-------------------------- MODULE MCExecutionStore --------------------------
(***************************************************************************)
(* ExecutionStore on two jobs and two workers, every budget from none to   *)
(* two attempts and two distinguishable results.                           *)
(***************************************************************************)
EXTENDS ExecutionStore
=============================================================================
