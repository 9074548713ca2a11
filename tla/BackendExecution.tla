---------------------------- MODULE BackendExecution ----------------------------
(***************************************************************************)
(* An execution request from the backend's database to the modules of the  *)
(* runtime (hd/backend/execution.py, hd/persistence/dbservice/revision.py, *)
(* hd/utils.py).  prepare_execution_input reads the revision, the nested   *)
(* ones and the imported components in transactions of their own, each     *)
(* through a cache of its own, while other processes save, release and     *)
(* deprecate.  Released revisions are never overwritten, which the         *)
(* configuration demands where the caches are enabled                      *)
(* (hd/webservice/config.py:248).                                          *)
(***************************************************************************)
EXTENDS ComponentLoading

CONSTANTS
    Caching,       \* enable_caching_for_non_draft_trafos_for_execution
    Deprecatable   \* bound of the model: the revisions that get deprecated

ASSUME CachingAssumption == Caching \in BOOLEAN
ASSUME DeprecatableAssumption == Deprecatable \subseteq Ids

VARIABLES
    db,         \* the revisions in the database
    rootCache, nestedCache, importCache,
    phase,      \* of the execution: idle, nestings, nested, imports, runtime, done
    root,       \* the revision executed
    rows,       \* the components nested in it by the nestings table
    nested,     \* component -> the nested revision
    imported,   \* component -> the imported revision
    outcome,    \* ok or why it failed
    asked,      \* history: the database when the execution was requested
    disturbed,  \* history: something was written while this process was preparing
    sound       \* history: released when all that the stored content uses was, likewise

execution == <<phase, root, rows, nested, imported, outcome, asked>>
caches == <<rootCache, nestedCache, importCache>>
vars == <<db, caches, execution, disturbed, sound, loadVars>>

Initial == [id \in Ids |-> [of |-> id, version |-> 1, state |-> "DRAFT"]]
None == [of |-> "none"]

TypeOK ==
    /\ LoadingTypeOK
    /\ \A id \in Ids : db[id] \in Revisions /\ db[id].of = id
    /\ \A cache \in {rootCache, nestedCache, importCache} :
        \A id \in DOMAIN cache : cache[id] \in Revisions /\ cache[id].of = id
    /\ phase \in {"idle", "nestings", "nested", "imports", "runtime", "done"}
    /\ root \in Revisions \cup {None}
    /\ rows \in SUBSET Components
    /\ \A c \in DOMAIN nested : nested[c] \in Codes
    /\ \A c \in DOMAIN imported : imported[c] \in Codes
    /\ asked = Nothing \/ DOMAIN asked = Ids
    /\ \A id \in DOMAIN asked : asked[id] \in Revisions /\ asked[id].of = id
    /\ disturbed \in BOOLEAN /\ sound \in SUBSET Ids
    /\ outcome \in {"none", "ok", "integrity", "cycle"}

NoExecution ==
    /\ phase = "idle" /\ root = None /\ rows = {} /\ nested = Nothing /\ imported = Nothing
    /\ asked = Nothing /\ outcome = "none"

Init ==
    /\ db = Initial
    /\ rootCache = Nothing /\ nestedCache = Nothing /\ importCache = Nothing
    /\ NoExecution /\ disturbed = FALSE /\ sound = {}
    /\ LoadingInit

-----------------------------------------------------------------------------
(* Other processes.  What they write while the runtime works comes to the   *)
(* same as written after the answer.                                       *)

Preparing == phase \in {"nestings", "nested", "imports"}

Write ==
    /\ phase = "idle" \/ Preparing
    /\ disturbed' = (disturbed \/ Preparing)
    /\ UNCHANGED <<caches, execution, loadVars>>

\* Fault: released revisions are overwritten, too.
SaveReleased(id) ==
    /\ db[id].version < Len(Contents[id])
    /\ db' = [db EXCEPT ![id].version = @ + 1]
    /\ UNCHANGED sound
    /\ Write

Save(id) ==
    /\ db[id].state = "DRAFT" /\ db[id].version < Len(Contents[id])
    /\ db' = [db EXCEPT ![id].version = @ + 1]
    /\ UNCHANGED sound
    /\ Write

\* What is no draft uses no drafts: the operators of the stored workflow, but the
\* imports of the component as the request states it, v, an outdated or an unsaved
\* version.
Admitted(id, v) ==
    \A c \in Contents[id][IF id \in Workflows THEN db[id].version ELSE v] : db[c].state # "DRAFT"

\* The stored content stays; the state is written into a component's code.
Release(id, v) ==
    /\ db[id].state = "DRAFT"
    /\ Admitted(id, v)
    /\ db' = [db EXCEPT ![id].state = "RELEASED"]
    /\ sound' = IF Uses(db[id]) \subseteq sound THEN sound \cup {id} ELSE sound
    /\ Write

Deprecate(id, v) ==
    /\ db[id].state = "RELEASED" /\ id \in Deprecatable
    /\ Admitted(id, v)
    /\ db' = [db EXCEPT ![id].state = "DISABLED"]
    /\ UNCHANGED sound
    /\ Write

-----------------------------------------------------------------------------
(* Reading through a cache.                                                *)

\* Fault: drafts are cached, too.
KeepAny(cache, id) == Extended(cache, id, db[id])

\* What a cache holds after id was read through it.
Keep(cache, id) ==
    IF id \in DOMAIN cache \/ ~Caching \/ db[id].state = "DRAFT"
    THEN cache ELSE Extended(cache, id, db[id])

Get(cache, id) == IF id \in DOMAIN cache THEN cache[id] ELSE db[id]

-----------------------------------------------------------------------------
(* prepare_execution_input.                                                *)

\* wrap_component_in_tr_workflow: the operators of the workflow a component is
\* executed in.
Wrapped(id) == {id}

Begin(id) ==
    /\ phase = "idle"
    /\ root' = Get(rootCache, id) /\ rootCache' = Keep(rootCache, id)
    /\ IF id \in Workflows
       THEN phase' = "nestings" /\ nested' = Nothing
       ELSE phase' = "imports" /\ nested' = [c \in Wrapped(id) |-> root']
    /\ asked' = db
    /\ UNCHANGED <<db, nestedCache, importCache, rows, imported, outcome, disturbed, sound, loadVars>>

\* find_all_nested_transformation_revisions: the rows follow the stored content.
ReadNestings ==
    /\ phase = "nestings"
    /\ rows' = Uses(db[root.of])
    /\ phase' = "nested"
    /\ UNCHANGED <<db, caches, root, nested, imported, asked, outcome, disturbed, sound, loadVars>>

\* Each select of a transaction sees what is committed by then.
ReadNested(c) ==
    /\ phase = "nested" /\ c \in rows \ DOMAIN nested
    /\ nested' = Extended(nested, c, Get(nestedCache, c))
    /\ nestedCache' = Keep(nestedCache, c)
    /\ UNCHANGED <<db, rootCache, importCache, phase, root, rows, imported, asked, outcome,
                   disturbed, sound, loadVars>>

\* get_direct_child_trafos_by_operator_id: DBIntegrityError if an operator's
\* revision was not among the nested ones.
BuildNodes ==
    /\ phase = "nested" /\ rows = DOMAIN nested
    /\ IF Uses(root) \subseteq rows
       THEN phase' = "imports" /\ UNCHANGED outcome
       ELSE phase' = "done" /\ outcome' = "integrity"
    /\ UNCHANGED <<db, caches, root, rows, nested, imported, asked, disturbed, sound, loadVars>>

\* Fault: what was read already is read again.
WantedAgain ==
    (UNION {Uses(nested[c]) : c \in DOMAIN nested})
    \cup (UNION {Uses(imported[c]) : c \in DOMAIN imported})

\* Imported by what was read and not read as an import.  Imports are known by a
\* string and nested components by a UUID, so an import that is nested, too, is
\* read again.
Wanted ==
    ((UNION {Uses(nested[c]) : c \in DOMAIN nested})
     \cup (UNION {Uses(imported[c]) : c \in DOMAIN imported})) \ DOMAIN imported

ReadImport(c) ==
    /\ phase = "imports" /\ c \in Wanted
    /\ imported' = Extended(imported, c, Get(importCache, c))
    /\ importCache' = Keep(importCache, c)
    /\ UNCHANGED <<db, rootCache, nestedCache, phase, root, rows, nested, asked, outcome,
                   disturbed, sound, loadVars>>

\* The nodes' components.
Nodes == IF root.of \in Workflows THEN Uses(root) ELSE Wrapped(root.of)

\* The execution's input, imports last, reaches the runtime.
CallRuntime ==
    /\ phase = "imports" /\ Wanted = {}
    /\ phase' = "runtime"
    /\ provided' = [c \in DOMAIN nested \cup DOMAIN imported |->
                        IF c \in DOMAIN imported THEN imported[c] ELSE nested[c]]
    /\ toLoad' = Nodes
    /\ rows' = {} /\ nested' = Nothing /\ imported' = Nothing
    /\ UNCHANGED <<db, caches, root, asked, outcome, disturbed, sound,
                   importing, modules>>

-----------------------------------------------------------------------------
(* The runtime and the answer.                                             *)

Load ==
    /\ phase = "runtime"
    /\ LoadStep
    /\ UNCHANGED <<db, caches, execution, disturbed, sound>>

LoadFails ==
    /\ phase = "runtime" /\ CycleFound
    /\ phase' = "done" /\ outcome' = "cycle"
    /\ importing' = <<>> /\ toLoad' = {}
    /\ UNCHANGED <<db, caches, root, rows, nested, imported, asked, disturbed, sound, provided,
                   modules>>

Run ==
    /\ phase = "runtime" /\ toLoad = {}
    /\ phase' = "done" /\ outcome' = "ok"
    /\ UNCHANGED <<db, caches, root, rows, nested, imported, asked, disturbed, sound, loadVars>>

Forget ==
    /\ phase' = "idle" /\ root' = None /\ rows' = {} /\ nested' = Nothing
    /\ imported' = Nothing /\ asked' = Nothing /\ outcome' = "none"
    /\ provided' = Nothing /\ toLoad' = {} /\ importing' = <<>>

Answer ==
    /\ phase = "done"
    /\ Forget
    /\ UNCHANGED <<db, caches, disturbed, sound, modules>>

\* The process of backend and runtime ends and is started again.
Restart ==
    /\ Forget
    /\ rootCache' = Nothing /\ nestedCache' = Nothing /\ importCache' = Nothing
    /\ modules' = Nothing /\ disturbed' = FALSE
    /\ UNCHANGED <<db, sound>>

Prepare ==
    \/ ReadNestings \/ BuildNodes \/ CallRuntime
    \/ \E c \in Components : ReadNested(c) \/ ReadImport(c)

Next ==
    \/ \E id \in Ids :
          \/ Save(id) \/ Begin(id)
          \/ \E v \in 1 .. Len(Contents[id]) : Release(id, v) \/ Deprecate(id, v)
    \/ Prepare
    \/ Load \/ LoadFails \/ Run \/ Answer
    \/ Restart

\* The process goes on with an execution it has begun.
Fairness == WF_vars(Prepare \/ Load \/ LoadFails \/ Run \/ Answer)

Spec == Init /\ [][Next]_vars /\ Fairness

-----------------------------------------------------------------------------
(* Properties.                                                             *)

\* Every node runs code of its component that is at least as new as what was
\* stored when the execution was requested, through three caches and the modules
\* of earlier executions.
NodesRunFreshCode ==
    outcome = "ok" => \A c \in Nodes : provided[c].version >= asked[c].version

\* Executing what was released when all it uses was released before, down to the last
\* import, neither misses a nested revision nor runs into an import cycle, whatever is
\* written between the reads, and whatever else was released over drafts.
ReleasedExecutionsSucceed ==
    phase = "done" /\ asked[root.of].state # "DRAFT" /\ root.of \in sound => outcome = "ok"

\* It runs, down to the last import, the content of released components, although
\* drafts of them and of their importers ran in the same process before: no
\* preparation so far was disturbed by a write.
ReleasedRunsReleased ==
    outcome = "ok" /\ asked[root.of].state # "DRAFT" /\ root.of \in sound /\ ~disturbed =>
        \A code \in Running(Nodes) :
            code.state # "DRAFT" /\ code.version = db[code.of].version

\* Every execution is answered, or lost with its process.
ExecutionsEnd == phase # "idle" ~> phase = "idle"

=============================================================================
