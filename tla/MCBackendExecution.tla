-------------------------- MODULE MCBackendExecution --------------------------
(***************************************************************************)
(* Instances of the execution in the backend for TLC.                      *)
(***************************************************************************)
EXTENDS BackendExecution

CONSTANTS a, b, w

\* Component a stops importing b, b starts to import a, and an operator is taken
\* out of workflow w: in between the components import each other.
Editions == [id \in Ids |-> CASE id = a -> <<{b}, {}>>
                              [] id = b -> <<{}, {a}>>
                              [] id = w -> <<{a, b}, {b}>>]
=============================================================================
