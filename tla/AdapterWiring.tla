-------------------------- MODULE AdapterWiring --------------------------
(***************************************************************************)
(* The wiring of an execution: what models/wiring.py accepts and makes of  *)
(* it, and the resolution of virtual structure sources and sinks           *)
(* (adapters/virtual_structure_adapter/resolve_wirings.py).                *)
(*                                                                         *)
(* A wiring as it is written holds the fields given only, "uri" among      *)
(* them; once accepted it holds all of them.  Filters are a function on    *)
(* the keys given.  The spelling of uris is left out.                      *)
(***************************************************************************)
EXTENDS Naturals, Sequences, FiniteSets, TLC

CONSTANTS
    None,
    Registered,     \* the adapter keys known to the runtime
    IntegerKeys,    \* the keys that are integers
    Shortcuts,      \* uri_wiring_shortcuts: host -> <<adapter key, path>>
    BatchSize       \* of fetch_collection_of_..._from_db_by_id: 500

ASSUME BatchAssumption == BatchSize \in Nat \ {0}

WiringDefaults ==
    [adapter |-> "direct_provisioning", ref_id |-> None, ref_id_type |-> None, ref_key |-> None,
     type |-> None, default |-> FALSE, filters |-> <<>>, attrs |-> <<>>, uri |-> None]

Complete(given) ==
    [field \in DOMAIN given \cup DOMAIN WiringDefaults |->
        IF field \in DOMAIN given THEN given[field] ELSE WiringDefaults[field]]

DirectKeys == {"direct_provisioning", "1"}
IsInteger(key) == key \in IntegerKeys
Reserved == {"from", "to", "id"}

(* The validators of the fields: what is not given is not validated, so    *)
(* that a ref_id may be missing though it may not be null.                 *)
FieldsValid(given) ==
    LET w == Complete(given)
    IN  /\ w.adapter \in Registered \/ ~IsInteger(w.adapter)
        /\ "ref_id" \in DOMAIN given => given.ref_id # None \/ w.adapter \in DirectKeys
        /\ w.type # None => \/ w.type[1] # "metadata"
                            \/ w.adapter \in DirectKeys \cup {"component-adapter"}
                            \/ w.ref_id_type # None /\ w.ref_key # None
        /\ DOMAIN w.filters \cap Reserved = {}

WithoutNulls(filters) == [k \in DOMAIN filters |-> IF filters[k] = None THEN "" ELSE filters[k]]

(* update_wiring_from_uri; uri is [host, path, query, fragment].           *)
FromUri(w, uri) ==
    LET short == uri.host \in DOMAIN Shortcuts
        path == IF short THEN Shortcuts[uri.host][2] ELSE uri.path
    IN  [w EXCEPT !.adapter = CASE uri.host = None -> @
                                [] short -> Shortcuts[uri.host][1]
                                [] OTHER -> uri.host,
                  !.ref_id = IF path = None THEN @ ELSE path,
                  !.filters = uri.query @@ @]

(* With a fragment the query is parsed where the fragment is meant: its    *)
(* lists of values fit none of the fields a fragment may set.              *)
UriRefused(uri) == DOMAIN uri.query # {} /\ uri.fragment # None

(* What becomes of a wiring, None if it is refused.                        *)
Accepted(given) ==
    LET w == [Complete(given) EXCEPT !.filters = WithoutNulls(@)]
        expanded == FromUri(w, w.uri)
    IN  CASE ~FieldsValid(given) -> None
          [] FieldsValid(given) /\ w.uri = None -> w
          [] OTHER -> IF UriRefused(w.uri) \/ ~FieldsValid(expanded) THEN None ELSE expanded

(* WorkflowWiring: a name is wired once.                                   *)
AcceptedWirings(given) ==
    LET ws == [i \in DOMAIN given |-> Accepted(given[i])]
    IN  IF \/ \E i \in DOMAIN ws : ws[i] = None
           \/ \E i, j \in DOMAIN ws : i # j /\ given[i].name = given[j].name
        THEN None ELSE ws

-----------------------------------------------------------------------------
(* Virtual structure.                                                      *)

Virtual(w) == w.adapter = "virtual-structure-adapter"
VirtualPlaces(ws) == {i \in DOMAIN ws : Virtual(ws[i])}

(* The rows come with several queries, for the virtual wirings in their    *)
(* order: all that are in its batch, in any order.                         *)
Turn(places, i) == Cardinality({k \in places : k <= i})
LengthOfBatch(places) == (Cardinality(places) + BatchSize - 1) \div BatchSize

\* Fault: one query for all of them.
OneBatch(places, i) == 0

BatchOf(places, i) == (Turn(places, i) - 1) \div LengthOfBatch(places)

(* The dictionary of rows has a row once, at the place of the first wiring *)
(* with its id: the orders that these places may have in it.               *)
FetchedOrders(ws, stored) ==
    LET places == VirtualPlaces(ws)
        firsts == {i \in places : /\ ws[i].ref_id \in stored
                                  /\ \A k \in places : k < i => ws[k].ref_id # ws[i].ref_id}
    IN  {order \in [1..Cardinality(firsts) -> firsts] :
            \A a, b \in DOMAIN order : a < b => /\ order[a] # order[b]
                                               /\ BatchOf(places, order[a]) <= BatchOf(places, order[b])}

(* update_wirings and add_vst_metadata_to_input_wiring_attrs; entry is the *)
(* virtual source or sink.                                                 *)
Referenced(w, entry) ==
    [w EXCEPT !.adapter = entry.adapter,
              !.ref_id = IF w.type = <<"metadata", "any">> THEN entry.ref_id ELSE entry.target,
              !.ref_key = IF w.type = <<"metadata", "any">> THEN entry.ref_key ELSE @,
              !.ref_id_type = IF w.type = <<"metadata", "any">> THEN "thingnode" ELSE @,
              !.filters = entry.preset @@ @,
              !.attrs = entry.meta_data @@ @]

(* What the wirings may become; entries is id -> virtual source or sink.   *)
(* Rows are matched to the wirings by position, and their numbers must     *)
(* agree.                                                                  *)
Resolutions(ws, entries) ==
    LET places == VirtualPlaces(ws)
        row(order, i) == entries[ws[order[Turn(places, i)]].ref_id]
        resolved(order) ==
            [i \in DOMAIN ws |-> IF i \in places THEN Referenced(ws[i], row(order, i)) ELSE ws[i]]
    IN  IF places = {} THEN {[error |-> "no", wirings |-> ws]}
        ELSE {IF order = <<>> THEN [error |-> "handling"]
              ELSE IF DOMAIN order # 1..Cardinality(places) THEN [error |-> "raised"]
              ELSE [error |-> "no", wirings |-> resolved(order)] :
                order \in FetchedOrders(ws, DOMAIN entries)}

-----------------------------------------------------------------------------
(* get_source_adapter, get_sink_adapter: what is not registered is taken   *)
(* for a generic REST adapter.                                             *)
AdapterOf(key) ==
    CASE key \in Registered -> IF key \in DirectKeys THEN "direct_provisioning" ELSE key
      [] key \notin Registered /\ ~IsInteger(key) -> "generic-rest"
      [] OTHER -> "unknown"
=============================================================================
