---------------------------- MODULE WorkflowEditing ----------------------------
(***************************************************************************)
(* A draft workflow between the editor and the backend: the user draws and *)
(* removes, names inputs and outputs, fixes inputs to constants, shows and *)
(* hides optional inputs (frontend workflow editor and io dialog) and      *)
(* upgrades operators while revisions are edited, released and deprecated. *)
(* Every save is validated before it is stored and every read validates    *)
(* again; upgrades are stored without validation.                          *)
(***************************************************************************)
EXTENDS OperatorUpgrade, Sequences, FiniteSetsExt

CONSTANT Revisions   \* the interfaces each revision can have, the oldest revision first

Shapes == UNION {Revisions[n] : n \in DOMAIN Revisions}

ASSUME RevisionsAssumption ==
    Revisions \in Seq(SUBSET Interfaces \ {{}}) /\ Len(Revisions) > 0

\* io_names_unique; connectors without a name are filtered. As a connector's id starts
\* with its name, an input and an output do not share a name either.
ASSUME NamesAssumption ==
    \A rev \in Shapes :
        /\ \A s, t \in rev.inputs : s.name = t.name => s = t
        /\ \A s, t \in rev.outputs : s.name = t.name => s = t
        /\ \A s \in rev.inputs, t \in rev.outputs : s.name # t.name

VARIABLES
    stored,     \* the content in the database
    interface,  \* the io interface in the database, all that lists of revisions show
    current,    \* the interface each revision has
    uses,       \* operator -> the revision it instantiates, 0 if there is none
    drafts,     \* the operators whose state is DRAFT
    published,  \* bound and state: revisions 1 .. published have been released
    deprecated  \* the revisions that are DISABLED

vars == <<stored, interface, current, uses, drafts, published, deprecated>>

RevisionNumbers == 1 .. Len(Revisions)
Available == (1 .. published) \ deprecated

\* The content and the interface as the frontend gets them.
seen == Validated(stored)
seenInterface == Fitted(interface, seen)

TypeOK ==
    /\ stored.ops \in SUBSET Operators
    /\ \A o \in Operators : stored.ins[o] \in SUBSET OperatorInputs
                            /\ stored.outs[o] \in SUBSET OperatorOutputs
    /\ stored.links \in SUBSET LinkSpace
    /\ stored.inputs \in SUBSET ContentIOs /\ stored.outputs \in SUBSET ContentIOs
    /\ stored.constants \in SUBSET Constants
    /\ interface.inputs \in SUBSET ContentIOs /\ interface.outputs \in SUBSET ContentIOs
    /\ current \in [RevisionNumbers -> Shapes]
    /\ \A r \in RevisionNumbers : current[r] \in Revisions[r]
    /\ uses \in [Operators -> 0 .. Len(Revisions)]
    /\ drafts \in SUBSET stored.ops
    /\ published \in 0 .. Len(Revisions) /\ deprecated \in SUBSET (1 .. published)

Init ==
    /\ stored = NoContent /\ interface = InterfaceOf(NoContent)
    /\ current \in [RevisionNumbers -> Shapes]
    /\ \A r \in RevisionNumbers : current[r] \in Revisions[r]
    /\ uses = [o \in Operators |-> 0] /\ drafts = {}
    /\ published = 1 /\ deprecated = {}

-----------------------------------------------------------------------------
(* Edits: the frontend changes its copy and puts it.                       *)

\* update_tr: one statement writes both.
Write(c, i) == stored' = c /\ interface' = i

\* A put whose links form a loop is refused.
Put(c) == Valid(c) /\ Write(Validated(c), Fitted(seenInterface, Validated(c)))

\* Connectors of a new operator are those of the revision's interface, optional
\* inputs hidden.
InputsOf(r) ==
    {[id |-> <<t.name, 1>>, dt |-> t.dt, required |-> t.required, exposed |-> t.required] :
        t \in current[r].inputs}
OutputsOf(r) == {[id |-> <<t.name, 1>>, dt |-> t.dt] : t \in current[r].outputs}

\* An operator from the sidebar.
AddOperator(op, r) ==
    /\ op \notin seen.ops /\ r \notin deprecated
    /\ Put([seen EXCEPT !.ops = @ \cup {op},
                        !.ins[op] = InputsOf(r), !.outs[op] = OutputsOf(r)])
    /\ uses' = [uses EXCEPT ![op] = r]
    /\ drafts' = IF r > published THEN drafts \cup {op} ELSE drafts
    /\ UNCHANGED <<current, published, deprecated>>

\* The operator and its constants; the rest is left to the validation.
RemoveOperator(op) ==
    /\ op \in seen.ops
    /\ Put([seen EXCEPT !.ops = @ \ {op}, !.ins[op] = {}, !.outs[op] = {},
                        !.constants = {const \in @ : const.at[1] # op}])
    /\ uses' = [uses EXCEPT ![op] = 0]
    /\ drafts' = drafts \ {op}
    /\ UNCHANGED <<current, published, deprecated>>

\* The flowchart shows a constant at its operator input and draws no link there.
ShownConstants == {const \in seen.constants : InputAt(seen, const.at) # {}}

DrawnLinks == {l \in seen.links : \A const \in ShownConstants : l.to.at # const.at}

\* The inputs of an operator at which the flowchart lets a link end.
OpenInputs(b) ==
    {i \in seen.ins[b] :
        /\ i.exposed
        /\ \A l \in DrawnLinks : l.to.op = NoOperator \/ l.to.at # <<b, i.id>>
        /\ \A const \in ShownConstants : const.at # <<b, i.id>>}

\* A link between two operators whose data types are compatible. (One drawn at the
\* workflow's own inputs and outputs names the workflow as its operator and is
\* dropped by the validation.)
DrawLink(a, b) ==
    /\ a # b
    /\ \E o \in seen.outs[a], i \in OpenInputs(b) :
        /\ Compatible(o.dt, i.dt)
        /\ Put([seen EXCEPT !.links = @ \cup {[from |-> Vertex(a, <<a, o.id>>, o.dt),
                                               to |-> Vertex(b, <<b, i.id>>, i.dt)]}])
    /\ UNCHANGED <<current, uses, drafts, published, deprecated>>

RemoveLink ==
    /\ \E l \in DrawnLinks : Put([seen EXCEPT !.links = @ \ {l}])
    /\ UNCHANGED <<current, uses, drafts, published, deprecated>>

\* The dialog for optional inputs; hiding one empties the name of the input of
\* the workflow there and leaves constants alone.
ShowOptional(op) ==
    /\ \E i \in {j \in seen.ins[op] : ~j.required} :
        Put([seen EXCEPT !.ins[op] = (@ \ {i}) \cup {[i EXCEPT !.exposed = ~i.exposed]},
                         !.inputs = {IF io.at = <<op, i.id>> /\ i.exposed
                                     THEN [io EXCEPT !.named = FALSE] ELSE io : io \in @}])
    /\ UNCHANGED <<current, uses, drafts, published, deprecated>>

-----------------------------------------------------------------------------
(* The dialog for inputs and outputs of the workflow.                      *)

\* The dialog looks up the operator and the connector of every item.
IODialogOpens ==
    \A io \in seen.inputs \cup seen.outputs \cup seen.constants :
        /\ io.at[1] \in seen.ops
        /\ InputAt(seen, io.at) \cup OutputAt(seen, io.at) # {}

\* Links of named inputs and outputs and of constants are made anew with the
\* item's data type; links between operators stay unless an end is an item.
DialogLinks(inputs, outputs, constants) ==
    {l \in seen.links :
        /\ NoOperator \notin {l.from.op, l.to.op}
        /\ {l.from.at, l.to.at} \cap {io.at : io \in inputs \cup outputs} = {}}
    \cup {[from |-> Vertex(NoOperator, io.at, io.dt), to |-> Vertex(io.at[1], io.at, io.dt)] :
              io \in {x \in inputs : x.named} \cup constants}
    \cup {[from |-> Vertex(io.at[1], io.at, io.dt), to |-> Vertex(NoOperator, io.at, io.dt)] :
              io \in {x \in outputs : x.named}}

Configure(inputs, outputs, constants) ==
    /\ IODialogOpens
    /\ Put([seen EXCEPT !.inputs = inputs, !.outputs = outputs, !.constants = constants,
                        !.links = DialogLinks(inputs, outputs, constants)])
    /\ UNCHANGED <<current, uses, drafts, published, deprecated>>

Shown(io) == \E i \in InputAt(seen, io.at) : i.exposed
Swapped(set, old, new) == (set \ {old}) \cup {new}
Unnamed(item) == [at |-> item.at, dt |-> item.dt, named |-> FALSE]

\* Give an input a name or take it away.
NameInput ==
    \E io \in seen.inputs :
        /\ Shown(io)
        /\ Configure(Swapped(seen.inputs, io, [io EXCEPT !.named = ~@]),
                     seen.outputs, seen.constants)

NameOutput ==
    \E io \in seen.outputs :
        Configure(seen.inputs, Swapped(seen.outputs, io, [io EXCEPT !.named = ~@]),
                  seen.constants)

\* Turn an input into a constant or a constant into an unnamed input.
FixInput ==
    \E io \in seen.inputs :
        /\ Shown(io)
        /\ Configure(seen.inputs \ {io}, seen.outputs,
                     seen.constants \cup {[at |-> io.at, dt |-> io.dt]})

ReleaseInput ==
    \E const \in seen.constants :
        /\ Shown(const)
        /\ Configure(seen.inputs \cup {Unnamed(const)}, seen.outputs, seen.constants \ {const})

-----------------------------------------------------------------------------
(* Revisions and upgrades.                                                 *)

\* A draft is edited, other workflows' operators of it stay as they are.
EditDraft(r) ==
    /\ r > published
    /\ \E rev \in Revisions[r] : current' = [current EXCEPT ![r] = rev]
    /\ UNCHANGED <<stored, interface, uses, drafts, published, deprecated>>

\* A revision is released; the dialog offers to deprecate all others.
Publish ==
    /\ published < Len(Revisions)
    /\ published' = published + 1
    /\ \E others \in {deprecated, 1 .. published} :
        /\ deprecated' = others
        /\ drafts' = {o \in drafts : uses[o] \notin others}
    /\ UNCHANGED <<stored, interface, current, uses>>

Newest == IF Available = {} THEN 0 ELSE Max(Available)

\* The upgrade of one operator to a revision of the user's choice.
ChangeRevision(op, r) ==
    /\ r # uses[op] /\ uses' = [uses EXCEPT ![op] = r]
    /\ op \in seen.ops /\ r \notin deprecated
    /\ HasUuids(seen, op, current[r])
    /\ LET content == Upgraded(seen, op, current[r])
       IN  Write(content, UpgradedInterface(seenInterface, seen, content))
    /\ drafts' = IF r > published THEN drafts \cup {op} ELSE drafts \ {op}
    /\ UNCHANGED <<current, published, deprecated>>

\* The upgrade of all operators: drafts to the present state of their revision,
\* others to the newest released one, if there is one.
Target(op) ==
    IF op \in drafts THEN uses[op] ELSE IF Newest = 0 THEN uses[op] ELSE Newest

\* Fault: same_revision_no_op for drafts, too.
TouchedIfChanged == {o \in seen.ops : Target(o) # uses[o]}

Touched == {o \in seen.ops : o \in drafts \/ Newest # 0}

\* upgrade_operators_in_workflow: one operator after the other.
AllUpgraded ==
    FoldSet(LAMBDA o, w :
        LET content == Upgraded(w.content, o, current[Target(o)])
        IN  [content |-> content, interface |-> UpgradedInterface(w.interface, w.content, content)],
        [content |-> seen, interface |-> seenInterface], Touched)

UpgradeAll ==
    /\ drafts' = {o \in drafts : uses[o] > published}
    /\ uses' = [o \in Operators |-> IF o \in seen.ops THEN Target(o) ELSE 0]
    /\ \A o \in Touched : HasUuids(seen, o, current[Target(o)])
    /\ Write(AllUpgraded.content, AllUpgraded.interface)
    /\ UNCHANGED <<current, published, deprecated>>

Next ==
    \/ \E op \in Operators, r \in RevisionNumbers : AddOperator(op, r) \/ ChangeRevision(op, r)
    \/ \E op \in Operators : RemoveOperator(op) \/ ShowOptional(op)
    \/ \E a, b \in Operators : DrawLink(a, b)
    \/ RemoveLink
    \/ NameInput \/ NameOutput \/ FixInput \/ ReleaseInput
    \/ \E r \in RevisionNumbers : EditDraft(r)
    \/ Publish \/ UpgradeAll

Spec == Init /\ [][Next]_vars

-----------------------------------------------------------------------------
(* Properties.                                                             *)

\* What the workflow gives an operator input: by a link, an input or a constant.
Feeders(c, at) ==
    {l \in c.links : l.from.op # NoOperator /\ l.to.at = at}
    \cup {io \in c.inputs : io.at = at} \cup {const \in c.constants : const.at = at}

\* Links from operators whose output an upgrade replaces.
UpgradedSources(o) ==
    {l \in seen.links :
        /\ l.to.op = o /\ l.from.op # NoOperator
        /\ [name |-> l.from.at[2][1], dt |-> l.from.dt] \notin current[uses'[l.from.op]].outputs}

\* Whatever was edited, upgraded, shown or hidden, in what the editor and an
\* execution read every shown operator input gets its value from exactly one
\* place, a link from another operator, an input of the workflow or a constant.
ShownInputsAreFedOnce ==
    \A o \in seen.ops : \A i \in seen.ins[o] :
        i.exposed => Cardinality(Feeders(seen, <<o, i.id>>)) = 1

\* What is read, after saves as after upgrades, is not cleaned up again when it is
\* saved and read: the clean-ups of the validators build on each other, but one
\* round of them is enough. Its interface is that of its content, and so is what
\* lists of revisions show, which no validation fits to the stored content.
ReadingIsStable ==
    /\ Validated(seen) = seen
    /\ seenInterface = InterfaceOf(seen) /\ interface = InterfaceOf(stored)

\* The operator has the inputs and outputs of the interface, with its data types.
LooksLike(o, rev) ==
    /\ {[name |-> i.id[1], dt |-> i.dt, required |-> i.required] : i \in seen.ins[o]} = rev.inputs
    /\ {[name |-> p.id[1], dt |-> p.dt] : p \in seen.outs[o]} = rev.outputs

\* An operator marked neither as a draft's nor as deprecated looks like its revision,
\* although it may have been made from a draft that was edited afterwards; and after
\* any sequence of edits and upgrades required inputs are shown.
OperatorsMatchRevisions ==
    \A o \in seen.ops :
        /\ o \notin drafts /\ uses[o] \notin deprecated => LooksLike(o, current[uses[o]])
        /\ \A i \in seen.ins[o] : i.required => i.exposed

\* The upgrade of all operators leaves none that differs from its revision as it is
\* now, those of edited drafts included, unless all revisions are deprecated; and what
\* is added or upgraded by itself looks like its revision.
UpgradesBringUpToDate ==
    [][/\ UpgradeAll => \A o \in seen.ops :
            o \in drafts \/ Newest # 0 => LooksLike(o, current[uses[o]])'
       /\ \A o \in Operators :
            uses'[o] \notin {0, uses[o]} => LooksLike(o, current[uses[o]])']_vars

Upgrading == UpgradeAll \/ \E op \in Operators, r \in RevisionNumbers : ChangeRevision(op, r)

\* An upgrade, of one operator or of all, keeps the links, inputs and constants
\* at every connector whose name and data type the revision now used has, too; a
\* constant must have that data type itself.
ConnectionsSurvive ==
    [][Upgrading =>
        \A o \in seen.ops :
            /\ \A i \in seen.ins[o] :
                i.exposed /\ (\E t \in current[uses'[o]].inputs : t.name = i.id[1] /\ t.dt = i.dt)
                => {f \in Feeders(seen, <<o, i.id>>) : f \in seen.constants => f.dt = i.dt}
                       \ UpgradedSources(o) \subseteq Feeders(seen', <<o, i.id>>)
            /\ \A p \in seen.outs[o] :
                [name |-> p.id[1], dt |-> p.dt] \in current[uses'[o]].outputs
                => {io \in seen.outputs : io.at = <<o, p.id>>} \subseteq seen'.outputs]_vars

\* Upgrading operators produces a workflow that does not need any fixing by the
\* validators, neither now nor when it is read. The code does not keep this: links are
\* kept whatever the new data types are.
StoredNeedsNoFixing == Validated(stored) = stored

\* A hidden optional input gets the default value of the operator and nothing
\* from the workflow. The code does not keep this: a constant stays in effect.
HiddenInputsUseDefault ==
    \A o \in seen.ops : \A i \in seen.ins[o] :
        ~i.exposed => Feeders(seen, <<o, i.id>>) = {}

=============================================================================
