------------------------- MODULE RevisionLifecycle -------------------------
(***************************************************************************)
(* What the revision store promises about a single transformation          *)
(* revision: its life cycle DRAFT -> RELEASED -> DISABLED and the freezing  *)
(* of its body.  It abstracts from how workflows are nested; the body of a  *)
(* revision is whatever its execution depends on (the code of a component, *)
(* the operators of a workflow and the revisions they instantiate).        *)
(***************************************************************************)
CONSTANTS Ids,     \* the ids of transformation revisions
          Bodies   \* the bodies a revision may have

VARIABLES state,   \* id -> life cycle state, "ABSENT" when there is no row
          body     \* id -> the body of the revision

vars == <<state, body>>

States == {"DRAFT", "RELEASED", "DISABLED"}

Init == /\ state = [id \in Ids |-> "ABSENT"]
        /\ body \in [Ids -> Bodies]

\* A new row appears, in whatever state and with whatever body it was sent.
New(id) == /\ state[id] = "ABSENT"
           /\ \E s \in States, b \in Bodies :
                 /\ state' = [state EXCEPT ![id] = s]
                 /\ body' = [body EXCEPT ![id] = b]

\* A draft is edited, or put away as DISABLED without ever being released.
EditDraft(id) == /\ state[id] = "DRAFT"
                 /\ \E s \in {"DRAFT", "DISABLED"}, b \in Bodies :
                       /\ state' = [state EXCEPT ![id] = s]
                       /\ body' = [body EXCEPT ![id] = b]

\* A release publishes what is stored, not what the request carries.
Release(id) == /\ state[id] = "DRAFT"
               /\ state' = [state EXCEPT ![id] = "RELEASED"]
               /\ UNCHANGED body

Deprecate(id) == /\ state[id] = "RELEASED"
                 /\ state' = [state EXCEPT ![id] = "DISABLED"]
                 /\ UNCHANGED body

\* Only a draft may disappear.
Remove(id) == /\ state[id] = "DRAFT"
              /\ \E b \in Bodies :
                    /\ state' = [state EXCEPT ![id] = "ABSENT"]
                    /\ body' = [body EXCEPT ![id] = b]

Next == \E id \in Ids : \/ New(id)
                        \/ EditDraft(id)
                        \/ Release(id)
                        \/ Deprecate(id)
                        \/ Remove(id)

Spec == Init /\ [][Next]_vars
=============================================================================
