------------------------ MODULE ComponentAdapter ------------------------
(***************************************************************************)
(* Components as sources and sinks (adapters/component_adapter and the     *)
(* part of backend/execution.py that reads them): what is offered in       *)
(* dialogs, what the backend accepts in a wiring and sends along, and what *)
(* the runtime checks before it runs a component as a workflow of its own. *)
(*                                                                         *)
(* A component is a record of its type, state, category, its inputs (name  *)
(* -> whether it is required), the number of its outputs, what it returns  *)
(* and the components it imports.  Types of data are left out.             *)
(***************************************************************************)
EXTENDS Naturals, FiniteSets

CONSTANTS
    None,
    Components,         \* id -> stored transformation revision
    AllowDraft,         \* COMPONENT_ADAPTER_ALLOW_DRAFT_COMPONENTS
    SourceCategories,   \* the categories allowed, None for all
    SinkCategories

Stored(id) == id \in DOMAIN Components

(* get_allowed_component_states                                            *)
AllowedStates(withDisabled) ==
    {"RELEASED"} \cup (IF AllowDraft THEN {"DRAFT"} ELSE {})
                 \cup (IF withDisabled THEN {"DISABLED"} ELSE {})

Allows(categories, category) == categories = None \/ category \in categories

Usable(categories, withDisabled) ==
    {id \in DOMAIN Components :
        /\ Components[id].type = "COMPONENT"
        /\ Components[id].state \in AllowedStates(withDisabled)
        /\ Allows(categories, Components[id].category)}

HasData(id) == "data" \in DOMAIN Components[id].inputs

AllSources(categories, withDisabled) ==
    {id \in Usable(categories, withDisabled) : Components[id].outputs = 1}
AllSinks(categories, withDisabled) ==
    {id \in Usable(categories, withDisabled) : Components[id].outputs = 0 /\ HasData(id)}

Sources == AllSources(SourceCategories, FALSE)
Sinks == AllSinks(SinkCategories, FALSE)

(* One level of the structure: the categories, or what is in one of them.  *)
(* A category allowed for one of the two offers both.                      *)
Shown(category) ==
    None \in {SourceCategories, SinkCategories} \/ category \in SourceCategories \cup SinkCategories
Categories ==
    {c \in {Components[id].category : id \in {i \in DOMAIN Components : Components[i].type = "COMPONENT"}} :
        Shown(c)}
SourcesIn(category) == IF Shown(category) THEN AllSources({category}, FALSE) ELSE {}
SinksIn(category) == IF Shown(category) THEN AllSinks({category}, FALSE) ELSE {}

(* Known ones are found although they are deprecated by now.               *)
SourceFound(id) ==
    id \in AllSources(None, TRUE) /\ Allows(SourceCategories, Components[id].category)
SinkFound(id) ==
    id \in AllSinks(None, TRUE) /\ Allows(SinkCategories, Components[id].category)

Timestamps == {"timestampFrom", "timestampTo"}
NeedsNoTimestamps(id) ==
    \A n \in DOMAIN Components[id].inputs \cap Timestamps : ~Components[id].inputs[n]

(* extract_filters_from_component: name -> whether it has to be filled.    *)
Filters(id, asSink) ==
    [n \in DOMAIN Components[id].inputs \ (Timestamps \cup IF asSink THEN {"data"} ELSE {}) |->
        Components[id].inputs[n]]

-----------------------------------------------------------------------------
(* Preparing an execution.                                                 *)

IdOf(w) == IF w.ref_key # None THEN w.ref_key ELSE w.ref_id
IdsOf(ws) == {IdOf(w) : w \in {v \in ws : v.adapter = "component-adapter"}}

Checked(id, categories) ==
    /\ Components[id].type = "COMPONENT"
    /\ Components[id].state \in AllowedStates(TRUE)
    /\ Allows(categories, Components[id].category)
ValidSource(id) == Checked(id, SourceCategories) /\ Components[id].outputs = 1
ValidSink(id) == Checked(id, SinkCategories) /\ HasData(id) /\ Components[id].outputs = 0

(* load_componen_adapter_wirings_components: whether it raises.            *)
ComponentsRefused(in, out) ==
    \/ \E id \in IdsOf(in) : ~Stored(id) \/ ~ValidSource(id)
    \/ \E id \in IdsOf(out) : ~Stored(id) \/ ~ValidSink(id)

(* The components the runtime is given for the wirings.                    *)
Provided(in, out) == IdsOf(in) \cup IdsOf(out)

-----------------------------------------------------------------------------
(* Running a component.                                                    *)

(* The inputs without a default, as the component is built up again from   *)
(* what the runtime was given.                                             *)
Required(id) == {n \in DOMAIN Components[id].inputs : Components[id].inputs[n]}

(* The wiring names inputs of the component and all that are required.     *)
WiringFits(id, names) == Required(id) \subseteq names /\ names \subseteq DOMAIN Components[id].inputs

Starts(id, names, provided) == id \in provided /\ WiringFits(id, names)

SourceStarts(w, provided) ==
    Starts(IdOf(w), DOMAIN w.filters, provided) /\ Components[IdOf(w)].outputs = 1

(* A filter named like the input for the data would wire that input twice. *)
SinkStarts(w, provided) ==
    /\ Starts(IdOf(w), DOMAIN w.filters \cup {"data"}, provided)
    /\ Components[IdOf(w)].outputs = 0 /\ HasData(IdOf(w))
    /\ "data" \notin DOMAIN w.filters
=============================================================================
