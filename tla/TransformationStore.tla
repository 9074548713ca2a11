------------------------ MODULE TransformationStore ------------------------
(***************************************************************************)
(* The database of transformation revisions and its nestings table, as     *)
(* hetdesrun/persistence/dbservice/{revision,nesting}.py maintain them for  *)
(* the handlers of backend/service/transformation_router.py.  One action   *)
(* is one database transaction; a transaction that raises changes nothing  *)
(* and is simply not enabled.                                              *)
(***************************************************************************)
EXTENDS Naturals, FiniteSets

CONSTANTS
    Workflows, Components,  \* revision ids, by the type of the revision
    OpIds,                  \* operator ids
    Placements,             \* [wf, op, tr]: operators a client may put into wf
    ImportEdges,            \* <<c, d>>: the code of c may import component d
    PostStates,             \* states of the revisions clients POST
    ImportStates,           \* states in which PUT or import creates revisions
    PutStates,              \* states of the PUT or imported stored revisions
    OverwriteFlags,         \* values of allow_overwrite_released in requests
    IgnoreStateFlags,       \* values of ignore_state in delete requests
    StaleClients,           \* may payloads be made from an outdated view?
    MaxDepth                \* bound of the model on the depth of a nesting

Ids == Workflows \cup Components
States == {"DRAFT", "RELEASED", "DISABLED"}

\* An operator: its id, the revision it instantiates and the state that
\* revision had when the operator was made, or DISABLED as deprecation mark.
Operator == [id : OpIds, tr : Ids, state : States]
Nesting == [wf : Workflows, viaOp : OpIds, via : Ids,
            depth : Nat \ {0}, op : OpIds, tr : Ids]

ASSUME ConstantsAssumption ==
    /\ Workflows \cap Components = {}
    /\ Placements \subseteq [wf : Workflows, op : OpIds, tr : Ids]
    /\ ImportEdges \subseteq Components \X Components
    /\ PostStates \subseteq States
    /\ ImportStates \subseteq States
    /\ PutStates \subseteq States
    /\ OverwriteFlags \subseteq BOOLEAN
    /\ IgnoreStateFlags \subseteq BOOLEAN
    /\ StaleClients \in BOOLEAN
    /\ MaxDepth \in Nat

VARIABLES
    state,     \* id -> state of the stored revision, or "ABSENT"
    content,   \* id -> the operators of a workflow ({} for a component)
    imports,   \* id -> the components a component's code imports
    nestings   \* the rows of the nestings table

vars == <<state, content, imports, nestings>>

Init == /\ state = [id \in Ids |-> "ABSENT"]
        /\ content = [id \in Ids |-> {}]
        /\ imports = [id \in Ids |-> {}]
        /\ nestings = {}

Present(id) == state[id] # "ABSENT"

-----------------------------------------------------------------------------
(* Payloads.  A client sends a whole revision.  Its operators are stored   *)
(* ones or new instances of a revision made by to_operator, which copies   *)
(* the state the client sees; with StaleClients that may be an older one,  *)
(* seen before in this instance or in the one the payload was exported from. *)

Age == [s \in States \cup {"ABSENT"} |->
          CASE s = "DRAFT" -> 1 [] s = "RELEASED" -> 2
            [] s = "DISABLED" -> 3 [] OTHER -> 4]

SeenStates(tr) == {s \in States : IF StaleClients THEN Age[s] <= Age[state[tr]]
                                                  ELSE s = state[tr]}

Inserted(wf) ==
    UNION {{[id |-> p.op, tr |-> p.tr, state |-> s] : s \in SeenStates(p.tr)} :
             p \in {q \in Placements :
                      /\ q.wf = wf
                      /\ StaleClients \/ \A o \in content[wf] :
                                            <<o.id, o.tr>> # <<q.op, q.tr>>}}

UniqueIds(c) == \A o1, o2 \in c : o1.id = o2.id => o1 = o2

Contents(id) ==
    IF id \in Workflows
    THEN {c \in SUBSET (content[id] \cup Inserted(id)) : UniqueIds(c)}
    ELSE {{}}

Codes(id) == IF id \in Components
             THEN SUBSET {d \in Components : <<id, d>> \in ImportEdges}
             ELSE {{}}

\* content_operators_only_drafts_allowed_in_draft_workflows
ValidContent(s, c) == s # "DRAFT" => \A o \in c : o.state # "DRAFT"

-----------------------------------------------------------------------------
(* The nestings table: update_nesting.                                     *)

RowsOf(wf) == {r \in nestings : r.wf = wf}
RowsWithout(wf) == {r \in nestings : r.wf # wf}

DirectRow(wf, o) == [wf |-> wf, viaOp |-> o.id, via |-> o.tr,
                     depth |-> 1, op |-> o.id, tr |-> o.tr]

DerivedRow(wf, o, r) == [wf |-> wf, viaOp |-> o.id, via |-> o.tr,
                         depth |-> r.depth + 1, op |-> r.op, tr |-> r.tr]

DirectRows(wf, c) == {DirectRow(wf, o) : o \in c}

\* Fault: only the direct operators of a subworkflow are taken over.
DerivedRowsOneLevel(wf, c) ==
    UNION {{DerivedRow(wf, o, r) : r \in {n \in RowsOf(o.tr) : n.depth = 1}} :
             o \in {p \in c : p.tr \in Workflows}}

DerivedRows(wf, c) ==
    UNION {{DerivedRow(wf, o, r) : r \in RowsOf(o.tr)} :
             o \in {p \in c : p.tr \in Workflows}}

\* The primary key of the table; merge() lets the last row of a key win, and
\* the order of the derived rows is that of an unordered select.
Key(r) == <<r.wf, r.viaOp, r.depth, r.op>>

Merged(rows) == {m \in SUBSET rows :
                   \A r \in rows : \E k \in m :
                      Key(k) = Key(r) /\ \A l \in m : Key(l) = Key(r) => l = k}

\* Merged(rows) without enumerating subsets when no two rows share a key.
MergeOutcomes(rows) ==
    IF \A r, l \in rows : Key(r) = Key(l) => r = l THEN {rows} ELSE Merged(rows)

\* Fault: the revisions nested at lower levels are forgotten.
DisallowedAncestorsOnlyItself(wf, c) == {wf}
DisallowedAncestors(wf, c) == {wf} \cup {r.tr : r \in DerivedRows(wf, c)}

CycleDetected(wf, c, rows) ==
    \/ \E o \in c : o.tr = wf
    \/ \E r \in rows : r.tr = wf /\ r.wf \in DisallowedAncestors(wf, c)

UpdateNesting(wf, c) ==
    /\ \A o \in c : Present(o.tr) \/ o.tr = wf          \* foreign keys
    /\ \E new \in MergeOutcomes(DirectRows(wf, c) \cup DerivedRows(wf, c)) :
          /\ \A r \in new : r.depth <= MaxDepth
          /\ ~ CycleDetected(wf, c, RowsWithout(wf) \cup new)
          /\ nestings' = RowsWithout(wf) \cup new

SaveNesting(id, c) == IF id \in Workflows THEN UpdateNesting(id, c)
                                          ELSE UNCHANGED nestings

-----------------------------------------------------------------------------
(* Deprecation marks.                                                      *)

\* operator.state = State.DISABLED, for the marked operators of a content.
Disabled(o) == [o EXCEPT !.state = "DISABLED"]
Mark(c, marked) == {IF o \in marked THEN Disabled(o) ELSE o : o \in c}

\* Fault: only the workflows that can still be edited get the mark.
PassOnDeprecationToDrafts(cs, id) ==
    LET via(w) == {r.viaOp : r \in {n \in nestings : n.wf = w /\ n.tr = id}}
    IN  [w \in Ids |-> IF state[w] = "DRAFT" THEN Mark(cs[w], {o \in cs[w] : o.id \in via(w)})
                                            ELSE cs[w]]

\* pass_on_deprecation: the operator via which the nestings table says that a
\* workflow contains id gets marked, in every such workflow.
PassOnDeprecation(cs, id) ==
    LET via(w) == {r.viaOp : r \in {n \in nestings : n.wf = w /\ n.tr = id}}
    IN  [w \in Ids |-> Mark(cs[w], {o \in cs[w] : o.id \in via(w)})]

ContainsDeprecated(wf) == \E o \in content[wf] : o.state = "DISABLED"

NewSubworkflow(id, o) == /\ o.tr \in Workflows
                         /\ \A e \in content[id] : e.id # o.id

\* update_content: operators that are new to the workflow and instantiate a
\* workflow which contains a deprecated operator are marked themselves.
MarkNewOperators(id, c) ==
    Mark(c, {o \in c : NewSubworkflow(id, o) /\ ContainsDeprecated(o.tr)})

\* check_direct_component_imports, for a payload in state s with imports im.
ImportsAllowed(s, im) ==
    s # "DRAFT" => \A d \in im : state[d] \notin {"ABSENT", "DRAFT"}

-----------------------------------------------------------------------------
(* The transactions.                                                       *)

\* The end of update_or_create_single_transformation_revision, from update_tr
\* or add_tr on: a DISABLED revision returns before its nestings are updated.
Store(id, s, c, im) ==
    /\ state' = [state EXCEPT ![id] = s]
    /\ imports' = [imports EXCEPT ![id] = im]
    /\ \/ /\ s = "DISABLED"
          /\ content' = PassOnDeprecation([content EXCEPT ![id] = c], id)
          /\ UNCHANGED nestings
       \/ /\ s # "DISABLED"
          /\ content' = [content EXCEPT ![id] = c]
          /\ SaveNesting(id, c)

\* POST: store_single_transformation_revision.
Post(id, s, c, im) ==
    /\ ~ Present(id)
    /\ ValidContent(s, c)
    /\ state' = [state EXCEPT ![id] = s]
    /\ content' = [content EXCEPT ![id] = c]
    /\ imports' = [imports EXCEPT ![id] = im]
    /\ SaveNesting(id, c)

\* PUT or import of a revision that is not stored yet.
PutNew(id, s, c, im) ==
    /\ ~ Present(id)
    /\ ValidContent(s, c)
    /\ ImportsAllowed(s, im)
    /\ Store(id, s, c, im)

\* Fault: is_modifiable is not consulted.
SaveAlways(id, s, c, im, overwrite) ==
    /\ Present(id)
    /\ <<state[id], s>> \notin {<<"DRAFT", "RELEASED">>, <<"RELEASED", "DISABLED">>}
    /\ ValidContent(s, c)
    /\ ImportsAllowed(s, im)
    /\ \A o \in c : NewSubworkflow(id, o) => Present(o.tr)
    /\ Store(id, s, MarkNewOperators(id, c), im)

\* PUT or import of a stored revision that neither releases nor deprecates it.
Save(id, s, c, im, overwrite) ==
    /\ Present(id)
    /\ <<state[id], s>> \notin {<<"DRAFT", "RELEASED">>, <<"RELEASED", "DISABLED">>}
    /\ ValidContent(s, c)
    /\ ImportsAllowed(s, im)
    /\ \/ <<s, c, im>> = <<state[id], content[id], imports[id]>>
       \/ state[id] = "DRAFT"
       \/ overwrite
    /\ \A o \in c : NewSubworkflow(id, o) => Present(o.tr)   \* contains_deprecated reads it
    /\ Store(id, s, MarkNewOperators(id, c), im)

\* Fault: release does not validate the stored content again.
ReleaseUnvalidated(id, im) ==
    /\ state[id] = "DRAFT"
    /\ StaleClients \/ im = imports[id]
    /\ ImportsAllowed("RELEASED", im)
    /\ Store(id, "RELEASED", content[id], imports[id])

\* PUT or import that releases: the imports of the payload are checked, but
\* the stored content stays (if_applicable_release_or_deprecate).
Release(id, im) ==
    /\ state[id] = "DRAFT"
    /\ StaleClients \/ im = imports[id]
    /\ ImportsAllowed("RELEASED", im)
    /\ ValidContent("RELEASED", content[id])
    /\ Store(id, "RELEASED", content[id], imports[id])

\* PUT or import that deprecates: the stored revision is kept but its state.
Deprecate(id, im) ==
    /\ state[id] = "RELEASED"
    /\ StaleClients \/ im = imports[id]
    /\ ImportsAllowed("DISABLED", im)
    /\ Store(id, "DISABLED", content[id], imports[id])

\* Fault: the row is deleted although other nestings refer to it.
DeleteReferenced(id, ignoreState) ==
    /\ Present(id)
    /\ ignoreState \/ state[id] = "DRAFT"
    /\ nestings' = RowsWithout(id)
    /\ state' = [state EXCEPT ![id] = "ABSENT"]
    /\ content' = [content EXCEPT ![id] = {}]
    /\ imports' = [imports EXCEPT ![id] = {}]

\* DELETE: delete_single_transformation_revision, with the foreign keys of the
\* nestings table.
Delete(id, ignoreState) ==
    /\ Present(id)
    /\ ignoreState \/ state[id] = "DRAFT"
    /\ \A r \in RowsWithout(id) : r.tr # id /\ r.via # id
    /\ nestings' = RowsWithout(id)
    /\ state' = [state EXCEPT ![id] = "ABSENT"]
    /\ content' = [content EXCEPT ![id] = {}]
    /\ imports' = [imports EXCEPT ![id] = {}]

PostRevision(id) == \E s \in PostStates, c \in Contents(id), im \in Codes(id) :
                       Post(id, s, c, im)

PutRevision(id) ==
    \E im \in Codes(id) :
        \/ \E s \in ImportStates, c \in Contents(id) : PutNew(id, s, c, im)
        \/ \E s \in PutStates, c \in Contents(id), overwrite \in OverwriteFlags :
              Save(id, s, c, im, overwrite)
        \/ "RELEASED" \in PutStates /\ Release(id, im)
        \/ "DISABLED" \in PutStates /\ Deprecate(id, im)

DeleteRevision(id) == \E ignoreState \in IgnoreStateFlags : Delete(id, ignoreState)

Next == \E id \in Ids : \/ PostRevision(id)
                        \/ PutRevision(id)
                        \/ DeleteRevision(id)

Spec == Init /\ [][Next]_vars
-----------------------------------------------------------------------------
(* Properties.                                                             *)

\* Every variable has its type, and operator ids are unique in a workflow.
TypeOK ==
    /\ state \in [Ids -> States \cup {"ABSENT"}]
    /\ content \in [Ids -> SUBSET Operator]
    /\ imports \in [Ids -> SUBSET Components]
    /\ nestings \subseteq Nesting
    /\ \A id \in Ids :
          /\ UniqueIds(content[id])
          /\ \A o \in content[id] : [wf |-> id, op |-> o.id, tr |-> o.tr] \in Placements

\* No path (post, put, release of stored content, deprecation, overwriting
\* import) stores a released or deprecated workflow with an operator that is
\* marked DRAFT, although release and deprecation do not store the content
\* that was validated.
NoDraftOperatorOutsideDrafts ==
    \A w \in Workflows : state[w] \in {"RELEASED", "DISABLED"} =>
                           \A o \in content[w] : o.state # "DRAFT"

\* As long as a workflow is not deprecated, the depth 1 rows of the nestings
\* table are exactly the operators of its stored content.
DirectNestingsMatchContent ==
    \A w \in Workflows : state[w] \in {"DRAFT", "RELEASED"} =>
                           {r \in RowsOf(w) : r.depth = 1} = DirectRows(w, content[w])

\* Every row of the nestings table refers to stored revisions only.
ForeignKeysHold ==
    \A r \in nestings : Present(r.wf) /\ Present(r.via) /\ Present(r.tr)

\* Whatever clients delete, an operator of a stored workflow that is not
\* deprecated instantiates a stored revision.
OperatorTargetsExist ==
    \A w \in Workflows : state[w] \in {"DRAFT", "RELEASED"} =>
                           \A o \in content[w] : Present(o.tr)

\* "In every workflow where instances of this component revision are used,
\* they are marked as deprecated" (docs/versioning_in_hetida_designer.md:24),
\* for every order of deprecations, insertions and edits.
DeprecatedInstancesAreMarked ==
    \A w \in Workflows : state[w] \in {"DRAFT", "RELEASED"} =>
        \A o \in content[w] : state[o.tr] = "DISABLED" => o.state = "DISABLED"

\* "in particular checks all imports are released if component is RELEASED"
\* (revision.py:549), although release keeps the stored code and checks the
\* code of the payload.
ReleasedImportsAreReleased ==
    \A c \in Components : state[c] \in {"RELEASED", "DISABLED"} =>
                             \A d \in imports[c] : state[d] \in {"RELEASED", "DISABLED"}

\* The revisions a workflow's execution needs: everything reachable through
\* operators (what collect_child_nodes walks), the least set that contains the
\* targets of the workflow's operators and of those of its members.
Targets(w) == {o.tr : o \in content[w]}

Nested(w, ids) == Targets(w) \subseteq ids /\ \A v \in ids : Targets(v) \subseteq ids

Reachable(w) == {t \in Ids : \A ids \in SUBSET Ids : Nested(w, ids) => t \in ids}

\* get_direct_child_trafos_by_operator_id finds every revision in the rows
\* that get_all_nested_transformation_revisions has read.
Executable(w) == Reachable(w) \subseteq {r.tr : r \in RowsOf(w)}

\* A released workflow without deprecated operators at any level executes:
\* its rows, copied from those its subworkflows had when it was last saved,
\* still cover everything that can be reached from it.
UndeprecatedReleasedIsExecutable ==
    \A w \in Workflows :
        /\ state[w] = "RELEASED"
        /\ \A v \in {w} \cup Reachable(w) :
              state[v] = "RELEASED" /\ \A o \in content[v] : o.state = "RELEASED"
        => Executable(w)

\* "An update introducing a cycle should be detected"
\* (tests/test_draft_operators.py:216): no stored workflow reaches itself.
ContentIsAcyclic == \A w \in Workflows : w \notin Reachable(w)

\* What update_nesting does detect, although the rows it reads may be stale:
\* no stored workflow that is not deprecated reaches itself within three
\* operators, of which no subworkflow is deprecated.
Live(t) == state[t] \in {"DRAFT", "RELEASED"}

ShortCyclesAreDetected ==
    LET next(ws) == UNION {Targets(v) : v \in {t \in ws : Live(t)}}
    IN  \A w \in Workflows : Live(w) =>
            w \notin next({w}) \cup next(next({w})) \cup next(next(next({w})))

\* The life cycle of revisions: implements RevisionLifecycle.
Body(id) == [operators |-> {<<o.id, o.tr>> : o \in content[id]},
             imports   |-> imports[id]]

Bodies == [operators : SUBSET {<<p.op, p.tr>> : p \in Placements}, imports : SUBSET Components]

Lifecycle == INSTANCE RevisionLifecycle WITH body <- [id \in Ids |-> Body(id)]

\* Released and deprecated revisions keep their body and never go back, and
\* only drafts disappear (docstring of class TransformationRevision).
ImplementsLifecycle == Lifecycle!Spec
=============================================================================
