------------------------- MODULE MCExecutionRequests -------------------------
(***************************************************************************)
(* Instances of the execution requests for TLC.                            *)
(***************************************************************************)
EXTENDS ExecutionRequests

CONSTANT h
=============================================================================
