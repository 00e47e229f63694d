-------------------------- MODULE MCExecutionHandler --------------------------
(* Small instances of ExecutionHandler for TLC. *)
EXTENDS ExecutionHandler, TLC

\* Requests are interchangeable, and so are executions.
Symmetry == Permutations(Requests) \cup Permutations(Executions)
=============================================================================
