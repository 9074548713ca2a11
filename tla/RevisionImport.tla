--------------------------- MODULE RevisionImport ---------------------------
(***************************************************************************)
(* Importing a package of transformation revisions and cleaning up what    *)
(* is stored (hd/exportimport, hd/trafoutils).  An import filters the      *)
(* revisions, orders them by nesting level, stores one after another, each *)
(* in a transaction of its own, and then deprecates older revisions of     *)
(* their groups; maintenance deprecates in all groups and deletes drafts,  *)
(* deprecated revisions or everything, one transaction each again.  The    *)
(* package lists its revisions in any order and contains what they depend  *)
(* on; imports of it, with other filters each time, maintenance and        *)
(* crashes follow each other.  Of the store (TransformationStore) only     *)
(* what decides about success is kept; update_component_code is off, as at *)
(* startup.                                                                *)
(***************************************************************************)
EXTENDS Naturals, Sequences, FiniteSetsExt, SequencesExt

CONSTANTS
    Components, Workflows,
    GroupOf,      \* revision -> its revision group
    ReleasedAt,   \* revision -> its release timestamp, different in a group
    Orders,       \* the orders in which packages list their revisions
    WithImports,  \* components may import components
    Options       \* sets of what is asked for: "abort_on_error",
                  \* "allow_overwrite_released", "deprecate_older_revisions"

Revisions == Components \cup Workflows

ASSUME KindsAssumption == Components \cap Workflows = {} /\ IsFiniteSet(Revisions)
\* A package lists each revision once.
ASSUME OrdersAssumption == Orders \subseteq SetToSeqs(Revisions)
ASSUME TimestampsAssumption ==
    \A r, s \in Revisions : GroupOf[r] = GroupOf[s] /\ ReleasedAt[r] = ReleasedAt[s] => r = s
ASSUME OptionsAssumption ==
    /\ WithImports \in BOOLEAN
    /\ UNION Options \subseteq {"abort_on_error", "allow_overwrite_released", "deprecate_older_revisions"}

VARIABLES
    package,  \* what is imported: deps and state of every revision, and their order
    db,       \* the state of every stored revision
    code,     \* the state that a stored component's code says it has
    marked,   \* stored workflows with an operator marked deprecated
    options,  \* of the running import
    queue,    \* revisions still to be tried, or to be deleted
    groups,   \* revision groups in which older revisions are to be deprecated
    report,   \* success_per_trafo of the running import
    pc        \* "idle", "importing", "deprecating", "deleting", or "purging":
              \* deleting everything to import the base transformations

stored == <<db, code, marked>>
vars == <<package, stored, options, queue, groups, report, pc>>

\* The revisions below r, by operators of workflows.
Below(r, deps) ==
    LET below[s \in Revisions] ==
            IF s \in Components THEN {} ELSE deps[s] \cup UNION {below[d] : d \in deps[s]}
    IN  below[r]

\* Revisions depend on those before them in one fixed enumeration; components
\* import components; what a workflow that is not a draft contains is released.
Enumeration == SetToSeq(Components) \o SetToSeq(Workflows)
Before(r) == {Enumeration[i] : i \in {i \in 1 .. Len(Enumeration) :
                 \E j \in i + 1 .. Len(Enumeration) : Enumeration[j] = r}}
MayDependOn(r) == IF r \in Workflows THEN Before(r)
                  ELSE IF WithImports THEN Before(r) ELSE {}

Packages ==
    {p \in [deps  : {d \in [Revisions -> SUBSET Revisions] : \A r \in Revisions : d[r] \subseteq MayDependOn(r)},
            state : [Revisions -> {"DRAFT", "RELEASED"}],
            order : Orders] :
        \A r \in Revisions : p.state[r] = "RELEASED" =>
            \A d \in p.deps[r] : p.state[d] = "RELEASED"}

Init ==
    /\ package \in Packages
    /\ db = [r \in Revisions |-> "ABSENT"]
    /\ code = [r \in Components |-> "ABSENT"]
    /\ marked = {} /\ options = {} /\ queue = <<>> /\ groups = {}
    /\ report = [r \in Revisions |-> "IGNORED"]
    /\ pc = "idle"

-----------------------------------------------------------------------------
(* filter_and_order_trafos.                                                *)

\* get_direct_dependencies: components have none.
DirectDependencies(r) == IF r \in Components THEN {} ELSE package.deps[r]

\* nesting_level: one more than the nested workflows, components are at level 0.
Levels ==
    LET level[r \in Revisions] ==
            IF r \in Components THEN 0
            ELSE 1 + Max({0} \cup {level[d] : d \in package.deps[r]})
    IN  level

Top == Max({0} \cup {Levels[r] : r \in Revisions})

\* Fault: from lower to higher levels.
PassingUpwards(asked) ==
    LET passing[n \in 0 .. Top + 1] ==
            IF n = 0 THEN asked
            ELSE LET upper == passing[n - 1]
                 IN  upper \cup UNION {DirectDependencies(r) : r \in {s \in upper : Levels[s] = n - 1}}
    IN  passing[Top + 1]

\* update_filter_for_dependencies, from higher to lower levels.
Passing(asked) ==
    LET passing[n \in 0 .. Top + 1] ==
            IF n = 0 THEN asked
            ELSE LET upper == passing[n - 1]
                 IN  upper \cup UNION {DirectDependencies(r) : r \in {s \in upper : Levels[s] = Top + 1 - n}}
    IN  passing[Top + 1]

\* What is filtered for: ids stands for whatever else is, type, name, category, group.
Params == [ids : (SUBSET Revisions) \ {{}},
           state : {"ANY", "DRAFT", "RELEASED", "DISABLED"},
           include_deprecated : BOOLEAN]

\* basic_trafo_filter_map.
Matching(params, state) ==
    {r \in params.ids :
        /\ params.state \in {"ANY", state[r]}
        /\ state[r] = "DISABLED" => params.include_deprecated}

\* The revisions that pass, by increasing level, each level as the package lists it.
ListedBefore(q, r) ==
    \E i, j \in DOMAIN package.order : i < j /\ package.order[i] = q /\ package.order[j] = r
Earlier(q, r) == \/ Levels[q] < Levels[r]
                 \/ Levels[q] = Levels[r] /\ ListedBefore(q, r)
Ordered(passing) ==
    [n \in 1 .. Cardinality(passing) |->
        CHOOSE r \in passing : Cardinality({q \in passing : Earlier(q, r)}) = n - 1]

-----------------------------------------------------------------------------
(* import_importable.                                                      *)

\* The operation returns, or its process dies.
Over ==
    /\ pc' = "idle" /\ options' = {} /\ queue' = <<>> /\ groups' = {}
    /\ report' = [r \in Revisions |-> "IGNORED"]

Begin ==
    /\ pc = "idle"
    /\ \E asked \in {Matching(params, package.state) : params \in Params},
          include_dependencies \in BOOLEAN :
          LET passing == IF include_dependencies THEN Passing(asked) ELSE asked
          IN  /\ queue' = Ordered(passing)
              /\ report' = [r \in Revisions |-> IF r \in passing THEN "NOT_TRIED" ELSE "IGNORED"]
    /\ options' \in Options
    /\ pc' = "importing"
    /\ UNCHANGED <<package, stored, groups>>

\* Fault: drafts are checked like released components.
ImportsFoundByDrafts(r, state, store) ==
    r \in Components => \A d \in package.deps[r] : store[d] \notin {"ABSENT", "DRAFT"}

\* check_direct_component_imports, of r with this state.
ImportsFound(r, state, store) ==
    r \in Components /\ state # "DRAFT" =>
        \A d \in package.deps[r] : store[d] \notin {"ABSENT", "DRAFT"}

\* Fault: only operators that are workflows are looked up.
SubworkflowsFound(r, store) ==
    r \in Workflows => \A d \in package.deps[r] \ Components : store[d] # "ABSENT"

\* The nestings' foreign keys and contains_deprecated.
OperatorsFound(r, store) == r \in Workflows => \A d \in package.deps[r] : store[d] # "ABSENT"

\* is_modifiable: deprecation changed the state, or marked an operator.
Modifiable(r) ==
    \/ db[r] = package.state[r] /\ r \notin marked
    \/ db[r] \notin {"RELEASED", "DISABLED"}
    \/ "allow_overwrite_released" \in options

\* update_or_create_single_transformation_revision.
Importable(r) == ImportsFound(r, package.state[r], db) /\ OperatorsFound(r, db) /\ Modifiable(r)

\* The code is a column of the stored component; its header names a state. The code of
\* a package's component names the package's state, as exports write it.
WithCode(r, state) == IF r \in Components THEN [code EXCEPT ![r] = state] ELSE code

Import(r) ==
    /\ Importable(r)
    /\ db' = [db EXCEPT ![r] = package.state[r]]
    /\ code' = WithCode(r, package.state[r])
    /\ marked' = marked \ {r}
    /\ report' = [report EXCEPT ![r] = "SUCCESS"]

\* One transaction; its errors are caught.
ImportNext ==
    /\ pc = "importing" /\ queue # <<>>
    /\ \/ Import(Head(queue))
       \/ /\ ~Importable(Head(queue)) /\ "abort_on_error" \notin options
          /\ report' = [report EXCEPT ![Head(queue)] = "FAILED"]
          /\ UNCHANGED stored
    /\ queue' = Tail(queue)
    /\ UNCHANGED <<package, options, groups, pc>>

\* No deprecation either.
Abort ==
    /\ pc = "importing" /\ queue # <<>>
    /\ ~Importable(Head(queue)) /\ "abort_on_error" \in options
    /\ Over
    /\ UNCHANGED <<package, stored>>

EndImports ==
    /\ pc = "importing" /\ queue = <<>> /\ "deprecate_older_revisions" \notin options
    /\ Over
    /\ UNCHANGED <<package, stored>>

\* In the groups of all that passed the filter, imported or not.
BeginDeprecation ==
    /\ pc = "importing" /\ queue = <<>> /\ "deprecate_older_revisions" \in options
    /\ pc' = "deprecating"
    /\ groups' = {GroupOf[r] : r \in {r \in Revisions : report[r] # "IGNORED"}}
    /\ UNCHANGED <<package, stored, options, queue, report>>

ReleasedIn(g) == {r \in Revisions : GroupOf[r] = g /\ db[r] = "RELEASED"}

Outdated(g) == {r \in ReleasedIn(g) : \E s \in ReleasedIn(g) : ReleasedAt[s] > ReleasedAt[r]}

\* Fault: the component is stored with the code it had.
KeptCode(r, state) == code

\* update_code: the header of the code is generated anew, the state it names with it.
UpdatedCode(r, state) == WithCode(r, state)

\* update_or_create_transformation_revision, and the marks of its operators.
Deprecate(r) ==
    /\ db' = [db EXCEPT ![r] = "DISABLED"]
    /\ code' = UpdatedCode(r, "DISABLED")
    /\ marked' = marked \cup {w \in Workflows : db[w] # "ABSENT" /\ r \in Below(w, package.deps)}

\* deprecate_all_but_latest_in_group: one revision. Where imports of a component are
\* missing the error ends the whole operation.
DeprecateNext ==
    /\ pc = "deprecating"
    /\ \E g \in groups : \E r \in Outdated(g) :
          IF ImportsFound(r, "DISABLED", db)
          THEN /\ Deprecate(r)
               /\ UNCHANGED <<package, options, queue, groups, report, pc>>
          ELSE Over /\ UNCHANGED <<package, stored>>

EndDeprecation ==
    /\ pc = "deprecating" /\ \A g \in groups : Outdated(g) = {}
    /\ Over
    /\ UNCHANGED <<package, stored>>

-----------------------------------------------------------------------------
(* Maintenance (purge.py).                                                 *)

Stored == {r \in Revisions : db[r] # "ABSENT"}

\* deprecate_all_but_latest_per_group.
DeprecateAllButLatest ==
    /\ pc = "idle"
    /\ groups' = {GroupOf[r] : r \in {r \in Revisions : db[r] = "RELEASED"}}
    /\ pc' = "deprecating"
    /\ UNCHANGED <<package, stored, options, queue, report>>

\* The workflows whose nestings have r.
Containing(r) == {w \in Workflows \cap Stored : r \in Below(w, package.deps)}

\* Fault: no workflow that is not deprecated has r as an operator itself.
UnusedDirectly(r) == \A w \in Workflows \cap Stored : r \in package.deps[w] => db[w] = "DISABLED"

\* is_unused: contained in deprecated workflows at most, on any level.
Unused(r) == \A w \in Containing(r) : db[w] = "DISABLED"

\* delete_drafts, delete_unused_deprecated, delete_all_and_refill.
Selected(operation) ==
    CASE operation = "delete_drafts" -> {r \in Stored : db[r] = "DRAFT"}
      [] operation = "delete_unused_deprecated" -> {r \in Stored : db[r] = "DISABLED" /\ Unused(r)}
      [] operation = "purge" -> Stored

\* Reading the dependencies of what is to be deleted, imports included, raises
\* when a component imports one that is not stored, and nothing is deleted. Imports may
\* come from the cache of executions, where one that was deleted is still found: the
\* processes of the model have executed nothing.
Imported(r) ==
    LET imported[s \in Revisions] ==
            {s} \cup UNION {IF d \in Stored THEN imported[d] ELSE {d} : d \in package.deps[s]}
    IN  imported[r]
Readable(selected) == UNION {Imported(r) : r \in selected} \subseteq Stored

\* delete_transformation_revisions: higher levels first.
DeletionOrder(selected) == Reverse(Ordered(selected))

BeginDeletion ==
    /\ pc = "idle"
    /\ \E operation \in {"delete_drafts", "delete_unused_deprecated", "purge"} :
          /\ Readable(Selected(operation))
          /\ queue' = DeletionOrder(Selected(operation))
          /\ pc' = IF operation = "purge" THEN "purging" ELSE "deleting"
    /\ UNCHANGED <<package, stored, options, groups, report>>

\* The nestings' foreign keys; a revision's own nestings are deleted before it.
Deletable(r) == Containing(r) = {}

\* delete_single_transformation_revision; a refusal ends the whole operation.
DeleteNext ==
    /\ pc \in {"deleting", "purging"} /\ queue # <<>>
    /\ IF Deletable(Head(queue))
       THEN /\ db' = [db EXCEPT ![Head(queue)] = "ABSENT"]
            /\ code' = WithCode(Head(queue), "ABSENT")
            /\ marked' = marked \ {Head(queue)}
            /\ queue' = Tail(queue)
            /\ UNCHANGED <<package, options, groups, report, pc>>
       ELSE Over /\ UNCHANGED <<package, stored>>

EndDeletion ==
    /\ pc = "deleting" /\ queue = <<>>
    /\ Over
    /\ UNCHANGED <<package, stored>>

\* import_transformations_from_dir, without any options.
Refill ==
    /\ pc = "purging" /\ queue = <<>>
    /\ queue' = Ordered(Revisions)
    /\ report' = [r \in Revisions |-> "NOT_TRIED"]
    /\ pc' = "importing"
    /\ UNCHANGED <<package, stored, options, groups>>

\* What is committed stays.
Crash ==
    /\ pc # "idle"
    /\ Over
    /\ UNCHANGED <<package, stored>>

Next ==
    \/ Begin \/ ImportNext \/ Abort \/ EndImports
    \/ BeginDeprecation \/ DeprecateNext \/ EndDeprecation
    \/ DeprecateAllButLatest \/ BeginDeletion \/ DeleteNext \/ EndDeletion \/ Refill
    \/ Crash

Spec == Init /\ [][Next]_vars

\* What has begun goes on.
FairSpec ==
    Spec /\ WF_vars(ImportNext) /\ WF_vars(Abort) /\ WF_vars(EndImports)
         /\ WF_vars(BeginDeprecation) /\ WF_vars(DeprecateNext) /\ WF_vars(EndDeprecation)
         /\ WF_vars(DeleteNext) /\ WF_vars(EndDeletion) /\ WF_vars(Refill)

-----------------------------------------------------------------------------
(* Properties.                                                             *)

TypeOK ==
    /\ db \in [Revisions -> {"ABSENT", "DRAFT", "RELEASED", "DISABLED"}]
    /\ code \in [Components -> {"ABSENT", "DRAFT", "RELEASED", "DISABLED"}]
    /\ marked \subseteq {w \in Workflows : db[w] # "ABSENT"}
    /\ options \in Options \cup {{}}
    /\ queue \in Seq(Revisions) /\ IsInjective(queue)
    /\ groups \subseteq {GroupOf[r] : r \in Revisions}
    /\ report \in [Revisions -> {"IGNORED", "NOT_TRIED", "FAILED", "SUCCESS"}]
    /\ pc \in {"idle", "importing", "deprecating", "deleting", "purging"}

\* With include_dependencies the filter lets pass the revisions asked for and
\* everything below them, and nothing else, in one pass over the levels.
FilterIsClosure ==
    pc = "idle" => \A asked \in SUBSET Revisions :
        Passing(asked) = asked \cup UNION {Below(r, package.deps) : r \in asked}

\* Once maintenance has begun to delete it is not refused half way: what it selected
\* and the order by levels leave nothing that a remaining workflow contains, so
\* "a deprecated trafo rev will not be deleted if it is used indirectly across
\* multiple nesting levels in a workflow which is not deprecated"
\* (maintenance_router.py:159) needs no refusal by the database.
DeletionIsNotRefused ==
    pc \in {"deleting", "purging"} /\ queue # <<>> => Deletable(Head(queue))

\* Every stored workflow has its operators' revisions stored, after any crash.
StoreIsClosed ==
    \A w \in Workflows : db[w] # "ABSENT" => \A d \in Below(w, package.deps) : db[d] # "ABSENT"

\* "Automatically determines correct order (by dependency / nesting) so that
\* depending trafo revisions can be provided in arbitrary order"
\* (transformation_router.py:713): when nothing is filtered out and nothing is
\* stored that must not be overwritten, nothing fails. The code does not keep this:
\* components have no order among themselves.
CompletePackagesAreImported ==
    (\A r \in Revisions : report[r] # "IGNORED" /\ db[r] # "DISABLED" /\ r \notin marked)
        => \A r \in Revisions : report[r] # "FAILED"

\* When nothing is deleted any more, importing the package as a whole again and
\* again stores all of it, whatever maintenance died in the middle and whatever order
\* the imports of its components would have needed: every time one more of those the
\* failed ones wait for is there.
RepeatedImportsComplete ==
    (/\ <>[](pc \notin {"deleting", "purging"})
     /\ []<>(pc = "importing" /\ queue = <<>> /\ \A r \in Revisions : report[r] # "IGNORED"))
        => <>[](Stored = Revisions)
=============================================================================
