--------------------------- MODULE MCExecutionJob ---------------------------
EXTENDS ExecutionJob
(* Two runs compete for the one lease; the workflow step is an opaque      *)
(* value to the table, so one step is enough.                              *)
=============================================================================
