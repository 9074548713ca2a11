--------------------------- MODULE MCRevisionImport ---------------------------
(***************************************************************************)
(* Instances of importing for TLC.                                         *)
(***************************************************************************)
EXTENDS RevisionExport

CONSTANTS c1, c2, w1, w2

\* The two workflows, and the two components, are revisions of one group each.
Groups == [r \in Revisions |-> IF r \in Components THEN c1 ELSE w1]
Timestamps == [r \in Revisions |-> IF r \in {c1, w2} THEN 2 ELSE 1]

Requests == {{"deprecate_older_revisions"}, {"abort_on_error"},
             {"allow_overwrite_released", "deprecate_older_revisions"}}

\* Dependencies first and last.
BothWays == {<<c1, c2, w1, w2>>, <<w2, w1, c2, c1>>}
=============================================================================
