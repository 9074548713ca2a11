------------------------- MODULE MCExecutionEngine -------------------------
(***************************************************************************)
(* Instances of the execution engine for TLC: every way of connecting a few *)
(* operators in a nested workflow.                                         *)
(***************************************************************************)
EXTENDS ExecutionEngine

CONSTANTS root, v, a, b, p

\* An operator p beside a workflow v with the operators a and b.
InnerParent == [n \in {p, v, a, b} |-> IF n \in {a, b} THEN v ELSE root]
======================================================================
