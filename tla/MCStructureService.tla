------------------------- MODULE MCStructureService -------------------------
(***************************************************************************)
(* Instances of the structure service for TLC.                             *)
(***************************************************************************)
EXTENDS StructureService

CONSTANTS k1, k2, k3, l1, t1

OneType == [k \in Keys |-> t1]

\* The configured structure: k2 below k1, the source at k2.
StartPair == {[types |-> {t1},
               above |-> [k \in {k1, k2} |-> IF k = k2 THEN k1 ELSE NoKey],
               refs  |-> [l \in {l1} |-> {k2}]]}
=============================================================================
