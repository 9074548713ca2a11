----------------------- MODULE MCTransformationStore -----------------------
(***************************************************************************)
(* Instances of TransformationStore for TLC.  The workflows w1, w2, w3 may  *)
(* be nested in this order over component c1, and an operator for w1 may be *)
(* put into w3, which must be refused where it closes the circle.  The code *)
(* of c1 may import c2.                                                    *)
(***************************************************************************)
EXTENDS TransformationStore

CONSTANTS w1, w2, w3, w4, c1, c2, o1, o2, o3, o4

ChainPlacements == {[wf |-> w1, op |-> o1, tr |-> w2],
                    [wf |-> w2, op |-> o2, tr |-> w3],
                    [wf |-> w3, op |-> o3, tr |-> c1],
                    [wf |-> w3, op |-> o4, tr |-> w1]}

RingPlacements == {[wf |-> w1, op |-> o1, tr |-> w2],
                   [wf |-> w2, op |-> o2, tr |-> w3],
                   [wf |-> w3, op |-> o3, tr |-> w4],
                   [wf |-> w4, op |-> o4, tr |-> w1]}

Import1 == {<<c1, c2>>}
NoImports == {}
=============================================================================
