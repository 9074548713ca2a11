-------------------------- MODULE MCWorkflowEditing --------------------------
(***************************************************************************)
(* Instances of workflow editing for TLC.                                  *)
(***************************************************************************)
EXTENDS WorkflowEditing, TLC

CONSTANTS a, b, float, any

In(name, dt, required) == [name |-> name, dt |-> dt, required |-> required]
Out(name, dt) == [name |-> name, dt |-> dt]

Small == [inputs |-> {In("p", float, FALSE)}, outputs |-> {Out("o", float)}]

\* The input takes everything and is required, the output is gone.
Grown == [inputs |-> {In("p", any, TRUE)}, outputs |-> {}]

\* A draft starts as a copy of the revision before and may grow and shrink again
\* before it is released.
Growing == <<{Small}, {Small, Grown}>>

Alike == Permutations(Operators)
=============================================================================
