-------------------------- MODULE StructureService --------------------------
(***************************************************************************)
(* The structure service (hd/structure) behind the virtual structure       *)
(* adapter: the tables of thing nodes, sources and sinks, replaced or      *)
(* updated in place by whole structures, which come over the endpoint or   *)
(* from the configuration at startup.  Elements have an external id, by     *)
(* which structures are written, and a uuid, by which rows refer to each    *)
(* other.  One action is one transaction; deletion and update are two.     *)
(***************************************************************************)
EXTENDS Naturals

CONSTANTS
    Keys, Leaves,   \* external ids of thing nodes, and of sources and sinks
    NoKey,          \* no external id
    Types, TypeOf,  \* element types; the type of every thing node
    ForeignKeys,    \* the database enforces foreign keys (PostgreSQL, not SQLite)
    SelfContained,  \* structures that are sent contain their element types
    KeepsRoots,     \* no structure sent for an update turns a stored child into a root
    Startup,        \* the structure the service starts with, {} or one
    Overwrites,     \* completely_overwrite_an_existing_virtual_structure_at_hd_startup
    MaxUuid,        \* bound: uuids one external id has in use at once
    MaxCrashes      \* bound

ASSUME KeysAssumption == NoKey \notin Keys /\ Keys \cap Leaves = {}
ASSUME TypesAssumption == TypeOf \in [Keys -> Types]
ASSUME FlagsAssumption == {ForeignKeys, SelfContained, KeepsRoots, Overwrites} \subseteq BOOLEAN
ASSUME BoundsAssumption == MaxUuid \in Nat \ {0, 1} /\ MaxCrashes \in Nat

\* A uuid is written as the external id it was made for and a number.
NoId == <<NoKey, 0>>
Uuids == (Keys \cup Leaves) \X (1 .. MaxUuid)
Ids == Uuids \cup {NoId}

NoNode == [id |-> NoId, above |-> NoKey, parent |-> NoId]
NoLeaf == [id |-> NoId, refs |-> {}, at |-> {}]

VARIABLES
    types,    \* the stored element types
    node,     \* thing node -> its row: id, parent_external_node_id, parent_node_id
    leaf,     \* source or sink -> its row: id, thing_node_external_ids, associations
    pc,       \* "idle", "updating" between the two transactions, "down"
    pending,  \* the structure to be stored after the deletion
    last,     \* the last update: how it ended, and the elements that were sent
    crashes   \* crashes so far

tables == <<types, node, leaf>>
vars == <<tables, pc, pending, last, crashes>>

Stored(k) == node[k].id # NoId
StoredLeaf(l) == leaf[l].id # NoId
Empty == types = {} /\ (\A k \in Keys : ~Stored(k)) /\ \A l \in Leaves : ~StoredLeaf(l)

NoPayload == [types |-> {}, above |-> <<>>, refs |-> <<>>, id |-> <<>>, parent |-> <<>>]

Init ==
    /\ types = {}
    /\ node = [k \in Keys |-> NoNode]
    /\ leaf = [l \in Leaves |-> NoLeaf]
    /\ pc = "idle" /\ pending = NoPayload
    /\ last = [ended |-> "none", nodes |-> {}, leaves |-> {}] /\ crashes = 0

-----------------------------------------------------------------------------
(* Structures that are sent: CompleteStructure.                            *)

\* Fault: only a node that is its own parent counts.
CircularAtOnce(above) == \E k \in DOMAIN above : above[k] = k

\* check_for_circular_reference.
Circular(above) == \E C \in (SUBSET DOMAIN above) \ {{}} : \A k \in C : above[k] \in C

\* validate_root_nodes_parent_ids_are_none and validate_source_sink_references are
\* in the domains: parents and attachments are thing nodes of the structure.
Forests == UNION {{f \in [K -> K \cup {NoKey}] : ~Circular(f)} : K \in SUBSET Keys}
Attachments(K) == UNION {[L -> SUBSET K] : L \in SUBSET Leaves}

\* A uuid nobody uses, as uuid4 makes them; rows that are replaced use none.
InUse == (UNION {{node[k].id, node[k].parent} : k \in Keys})
           \cup (UNION {{leaf[l].id} \cup leaf[l].at : l \in Leaves})
FreshId(x, used) == CHOOSE i \in {x} \X (1 .. MaxUuid) : i \notin used

\* Written by hand an element has no uuid, and gets a new one; in a copy of what
\* GET /complete returned it has the stored one, and its parent's.
Uuid(x, copied, used) ==
    IF copied /\ x \in Keys /\ Stored(x) THEN node[x].id
    ELSE IF copied /\ x \in Leaves /\ StoredLeaf(x) THEN leaf[x].id ELSE FreshId(x, used)

Payload(ts, above, refs, copied, used) ==
    [types |-> ts, above |-> above, refs |-> refs,
     id |-> [x \in DOMAIN above \cup DOMAIN refs |-> Uuid(x, copied, used)],
     parent |-> [k \in DOMAIN above |-> IF copied THEN node[k].parent ELSE NoId]]

ElementTypes(K) == {ts \in (SUBSET Types) \ {{}} : SelfContained => {TypeOf[k] : k \in K} \subseteq ts}

\* The configured structure passes the same validation.
ASSUME StartupAssumption ==
    \A s \in Startup : /\ s.above \in Forests /\ s.refs \in Attachments(DOMAIN s.above)
                       /\ s.types \in ElementTypes(DOMAIN s.above)

-----------------------------------------------------------------------------
(* update_structure.                                                       *)

\* Thing nodes whose element type is not in the structure are skipped.
Upserted(p) == {k \in DOMAIN p.above : TypeOf[k] \in p.types}

\* Fault: a new uuid instead of the parent's.
ParentIdMadeUp(p, k) == <<k, MaxUuid + 1>>

\* set_parent_ids: the parent's uuid as the structure has it.
ParentIdSent(p, k) == IF p.above[k] # NoKey THEN p.id[p.above[k]] ELSE p.parent[k]

\* INSERT ... ON CONFLICT DO UPDATE; an existing row keeps its uuids.
Upsert(p) ==
    [k \in Keys |->
        IF k \notin Upserted(p) THEN node[k]
        ELSE IF Stored(k) THEN [node[k] EXCEPT !.above = p.above[k]]
        ELSE [id |-> p.id[k], above |-> p.above[k], parent |-> ParentIdSent(p, k)]]

\* The statement violates the foreign key of a row it inserts.
IntegrityError(p) ==
    /\ ForeignKeys
    /\ \E k \in Upserted(p) :
          /\ ~Stored(k)
          /\ ParentIdSent(p, k) \notin {NoId} \cup {Upsert(p)[j].id : j \in Keys}

\* update_parent_ids, on what the upsert returned.
UpdateParentIds(p) ==
    [k \in Keys |->
        IF k \in Upserted(p) /\ p.above[k] \in Upserted(p)
        THEN [Upsert(p)[k] EXCEPT !.parent = Upsert(p)[p.above[k]].id]
        ELSE Upsert(p)[k]]

\* Fault: associations are added to the stored ones.
UpsertLeavesAdding(p) ==
    [l \in Leaves |->
        IF l \notin DOMAIN p.refs THEN leaf[l]
        ELSE [id |-> IF StoredLeaf(l) THEN leaf[l].id ELSE p.id[l],
              refs |-> p.refs[l],
              at |-> leaf[l].at \cup {Upsert(p)[k].id : k \in p.refs[l] \cap Upserted(p)}]]

\* upsert_sources and upsert_sinks: the associations become those that are sent.
UpsertLeaves(p) ==
    [l \in Leaves |->
        IF l \notin DOMAIN p.refs THEN leaf[l]
        ELSE [id |-> IF StoredLeaf(l) THEN leaf[l].id ELSE p.id[l],
              refs |-> p.refs[l],
              at |-> {Upsert(p)[k].id : k \in p.refs[l] \cap Upserted(p)}]]

UpdateStructure(p) ==
    IF IntegrityError(p)
    THEN last' = [ended |-> "integrityError", nodes |-> {}, leaves |-> {}] /\ UNCHANGED tables
    ELSE /\ last' = [ended |-> "ok", nodes |-> Upserted(p), leaves |-> DOMAIN p.refs]
         /\ types' = types \cup p.types
         /\ node' = UpdateParentIds(p)
         /\ leaf' = UpsertLeaves(p)

DeleteStructure ==
    /\ types' = {}
    /\ node' = [k \in Keys |-> NoNode]
    /\ leaf' = [l \in Leaves |-> NoLeaf]

-----------------------------------------------------------------------------
(* The endpoint and the prepopulation.                                     *)

\* A structure takes the place of the stored one, or is stored in addition.
Replace(p) ==
    \/ /\ ~Empty
       /\ DeleteStructure
       /\ pc' = "updating" /\ pending' = p
       /\ UNCHANGED <<last, crashes>>
    \/ /\ Empty
       /\ UpdateStructure(p)
       /\ pc' = "idle"
       /\ UNCHANGED <<pending, crashes>>

UpdateInPlace(p) ==
    /\ UpdateStructure(p)
    /\ pc' = "idle"
    /\ UNCHANGED <<pending, crashes>>

\* No root that is sent is a child in the tables, or in the structure it was copied from.
RootsKept(p) == \A k \in DOMAIN p.above : p.above[k] = NoKey => node[k].above = NoKey
RootsSent(p) == \A k \in DOMAIN p.above : p.above[k] = NoKey => p.parent[k] = NoId

\* update_structure_endpoint.
UpdateEndpoint ==
    /\ pc = "idle"
    /\ \E above \in Forests, copied \in BOOLEAN :
          \E refs \in Attachments(DOMAIN above), ts \in ElementTypes(DOMAIN above) :
             \/ LET p == Payload(ts, above, refs, copied, {})
                IN  (KeepsRoots => RootsSent(p)) /\ Replace(p)
             \/ LET p == Payload(ts, above, refs, copied, InUse)
                IN  (KeepsRoots => RootsKept(p)) /\ UpdateInPlace(p)

\* The second transaction, after the deletion.
FinishReplace ==
    /\ pc = "updating"
    /\ UpdateStructure(pending)
    /\ pc' = "idle" /\ pending' = NoPayload
    /\ UNCHANGED crashes

Crash ==
    /\ pc # "down" /\ crashes < MaxCrashes
    /\ pc' = "down" /\ pending' = NoPayload
    /\ crashes' = crashes + 1
    /\ UNCHANGED <<tables, last>>

\* The service starts; if prepopulation is switched on it runs first, and failing
\* does not stop the start.
Start ==
    /\ pc = "down"
    /\ IF Startup = {}
       THEN pc' = "idle" /\ UNCHANGED <<tables, pending, last, crashes>>
       ELSE \E s \in Startup :
               IF Overwrites
               THEN Replace(Payload(s.types, s.above, s.refs, FALSE, {}))
               ELSE UpdateInPlace(Payload(s.types, s.above, s.refs, FALSE, InUse))

Next == UpdateEndpoint \/ FinishReplace \/ Crash \/ Start

Spec == Init /\ [][Next]_vars

\* A handler that has begun goes on, and the container starts the service again.
FairSpec == Spec /\ WF_vars(FinishReplace) /\ WF_vars(Start)

-----------------------------------------------------------------------------
(* Properties.                                                             *)

\* Every variable stays in its type; associations lead to uuids.
TypeOK ==
    /\ types \subseteq Types
    /\ node \in [Keys -> [id : Ids, above : Keys \cup {NoKey}, parent : Ids]]
    /\ leaf \in [Leaves -> [id : Ids, refs : SUBSET Keys, at : SUBSET Uuids]]
    /\ pc \in {"idle", "updating", "down"}
    /\ last \in [ended : {"none", "ok", "integrityError"}, nodes : SUBSET Keys, leaves : SUBSET Leaves]
    /\ crashes \in 0 .. MaxCrashes

\* get_children leads from the roots to every thing node: whatever updates moved,
\* no nodes are their own ancestors and no parent_node_id leads nowhere.
EveryNodeIsFound ==
    ~ \E C \in (SUBSET {k \in Keys : Stored(k)}) \ {{}} :
         \A k \in C : \/ \E j \in C : node[k].parent = node[j].id
                      \/ node[k].parent \notin {NoId} \cup {node[j].id : j \in Keys}

\* Uuids and external ids tell the same hierarchy, whichever of the two statements
\* wrote a row: update_parent_ids corrects every parent_node_id that was sent wrong.
HierarchiesAgree ==
    \A k \in Keys : node[k].above # NoKey => node[k].parent = node[node[k].above].id

\* A source or sink appears at exactly the thing nodes its row names, although
\* the two are written by different statements and nodes move in between.
LeavesAreAtTheirNodes ==
    \A l \in Leaves : leaf[l].at = {node[k].id : k \in {j \in leaf[l].refs : Stored(j)}}

\* The stored structure by external ids, as get_children finds it.
ParentKey(k) ==
    IF \E j \in Keys : Stored(j) /\ node[j].id = node[k].parent
    THEN CHOOSE j \in Keys : Stored(j) /\ node[j].id = node[k].parent
    ELSE NoKey

Structure == INSTANCE VirtualStructure WITH
    nodes  <- {k \in Keys : Stored(k)},
    parent <- [k \in Keys |-> ParentKey(k)],
    leaves <- {l \in Leaves : StoredLeaf(l)},
    sent   <- last.nodes \cup last.leaves,
    places <- [l \in Leaves |-> {k \in Keys : Stored(k) /\ node[k].id \in leaf[l].at}]

\* Rows and uuids implement replacing and merging of structures.
ImplementsVirtualStructure == Structure!Spec

\* "New elements from the provided JSON structure will be added, and existing
\* elements will be updated." (virtual_structure_adapter.md:302): no structure that
\* passed validation is refused by the database. The code does not keep this where
\* foreign keys are enforced.
ValidStructuresAreStored == last.ended # "integrityError"

\* A service that died, even between deletion and update, has the structure of its
\* configuration again some day.
PrepopulationRecovers ==
    \A s \in Startup :
        pc = "down" ~> (pc = "idle" /\ \A k \in DOMAIN s.above : Stored(k))
=============================================================================
