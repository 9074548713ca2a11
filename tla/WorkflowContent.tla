---------------------------- MODULE WorkflowContent ----------------------------
(***************************************************************************)
(* The content of a draft workflow and what its validation makes of it     *)
(* (hd/persistence/models/workflow.py, link.py, io.py): links that do not  *)
(* fit are dropped, inputs and outputs nobody needs are dropped, operator  *)
(* inputs and outputs without a connection get unnamed ones.  Every        *)
(* request and every read from the database passes through it.             *)
(*                                                                         *)
(* A connector is identified by its name and a generation, standing for    *)
(* its uuid: a connector that replaces one of the same name has another    *)
(* generation.  An input, output or constant of the workflow is identified *)
(* by the operator connector it belongs to.  Names of workflow inputs and  *)
(* outputs are told apart only as given or empty.                          *)
(***************************************************************************)
EXTENDS Integers, FiniteSets

CONSTANTS
    Operators,   \* the operators a workflow may have
    NoOperator,  \* the operator of a link end at the workflow itself
    Names,       \* names of operator inputs and outputs
    DataTypes,   \* data types of connectors
    AnyType,     \* DataType.Any
    MaxUuid      \* bound: generations of connectors of one name

ASSUME ContentAssumption ==
    /\ IsFiniteSet(Operators) /\ NoOperator \notin Operators
    /\ AnyType \in DataTypes /\ MaxUuid \in Nat \ {0}

ConnectorIds == Names \X (1 .. MaxUuid)

OperatorInputs ==
    [id : ConnectorIds, dt : DataTypes, required : BOOLEAN, exposed : BOOLEAN]
OperatorOutputs == [id : ConnectorIds, dt : DataTypes]

\* A link from output, input or constant `from` to input or output `to`; an end
\* at the workflow has no operator, its connector is the io item of `at`.
Vertices == [op : Operators \cup {NoOperator}, at : Operators \X ConnectorIds, dt : DataTypes]
LinkSpace == [from : Vertices, to : Vertices]

\* Inputs and outputs of the workflow.
ContentIOs == [at : Operators \X ConnectorIds, dt : DataTypes, named : BOOLEAN]
Constants == [at : Operators \X ConnectorIds, dt : DataTypes]

NoContent ==
    [ops |-> {}, ins |-> [o \in Operators |-> {}], outs |-> [o \in Operators |-> {}],
     links |-> {}, inputs |-> {}, outputs |-> {}, constants |-> {}]

Vertex(op, at, dt) == [op |-> op, at |-> at, dt |-> dt]

Compatible(dt, other) == dt = other \/ AnyType \in {dt, other}

\* The operator input or output at a connector, as a set of at most one.
InputAt(c, at) == {i \in c.ins[at[1]] : i.id = at[2]}
OutputAt(c, at) == {o \in c.outs[at[1]] : o.id = at[2]}

-----------------------------------------------------------------------------
(* Links.                                                                  *)

StartFits(c, l) == \E o \in OutputAt(c, l.from.at) : o.dt = l.from.dt
EndFits(c, l) == \E i \in InputAt(c, l.to.at) : i.dt = l.to.dt /\ i.exposed

\* Links with missing or not matching operator inputs or outputs are deleted.
FittingLinks(c) ==
    {l \in c.links :
        /\ l.from.op = NoOperator \/ StartFits(c, l)
        /\ l.to.op = NoOperator \/ EndFits(c, l)}

\* Links by their start and by their end.
LinksFrom(links, op, at) == {l \in links : l.from.op = op /\ l.from.at = at}
LinksTo(links, op, at) == {l \in links : l.to.op = op /\ l.to.at = at}

\* Links between operators that form a loop are an error.
HasLoop(links) ==
    \E ring \in (SUBSET Operators) \ {{}} :
        \A o \in ring : \E l \in links : l.to.op = o /\ l.from.op \in ring

-----------------------------------------------------------------------------
(* Inputs.                                                                 *)

\* An input stays if its operator input exists, fits and is shown, and the link
\* that ends there, if any, starts at it.
InputNeeded(c, links, io) ==
    /\ \E i \in InputAt(c, io.at) : Compatible(io.dt, i.dt) /\ i.exposed
    /\ \A l \in LinksTo(links, io.at[1], io.at) : l.from.op = NoOperator

\* A named input also needs the link to its operator input.
NamedInputNeeded(links, io) ==
    \E l \in LinksFrom(links, NoOperator, io.at) :
        l.from.dt = io.dt /\ l.to.op = io.at[1] /\ l.to.at = io.at

\* Fault: links are not looked at when inputs are cleaned up.
KeptInputsByOperator(c, links) ==
    {io \in c.inputs : \E i \in InputAt(c, io.at) : Compatible(io.dt, i.dt) /\ i.exposed}

KeptInputs(c, links) ==
    {io \in c.inputs : InputNeeded(c, links, io) /\ (io.named => NamedInputNeeded(links, io))}

\* An unnamed input for every shown operator input that has neither an input nor
\* a constant nor a link from another operator.
AddedInputs(c, links, kept) ==
    UNION {{[at |-> <<o, i.id>>, dt |-> i.dt, named |-> FALSE] :
                i \in {j \in c.ins[o] :
                    /\ j.exposed
                    /\ \A io \in kept : io.at # <<o, j.id>>
                    /\ \A const \in c.constants : const.at # <<o, j.id>>
                    /\ \A l \in LinksTo(links, o, <<o, j.id>>) : l.from.op = NoOperator}}
           : o \in c.ops}

-----------------------------------------------------------------------------
(* Outputs.                                                                *)

\* An output stays if its operator output exists and fits and every link that
\* starts there ends at it.
OutputNeeded(c, links, io) ==
    /\ \E o \in OutputAt(c, io.at) : Compatible(io.dt, o.dt)
    /\ \A l \in LinksFrom(links, io.at[1], io.at) : l.to.op = NoOperator

NamedOutputNeeded(links, io) ==
    \E l \in links : l.to.op = NoOperator /\ l.to.at = io.at /\ l.to.dt = io.dt
                     /\ l.from.op = io.at[1] /\ l.from.at = io.at

KeptOutputs(c, links) ==
    {io \in c.outputs : OutputNeeded(c, links, io) /\ (io.named => NamedOutputNeeded(links, io))}

\* An unnamed output for every operator output that has no output and no link,
\* or a link to an output that is gone.
AddedOutputs(c, links, kept) ==
    UNION {{[at |-> <<o, out.id>>, dt |-> out.dt, named |-> FALSE] :
                out \in {p \in c.outs[o] :
                    /\ \A io \in kept : io.at # <<o, p.id>>
                    /\ \/ LinksFrom(links, o, <<o, p.id>>) = {}
                       \/ \E l \in LinksFrom(links, o, <<o, p.id>>) : l.to.op = NoOperator}}
           : o \in c.ops}

-----------------------------------------------------------------------------
(* The whole content.                                                      *)

\* A link at an input or output of the workflow that is gone or has no name is
\* deleted; constants have no name and keep theirs.
InnerOrUsed(links, inputs, outputs, constants) ==
    {l \in links :
        /\ l.from.op = NoOperator =>
              \/ \E io \in inputs : io.at = l.from.at /\ io.named
              \/ \E const \in constants : const.at = l.from.at
        /\ l.to.op = NoOperator => \E io \in outputs : io.at = l.to.at /\ io.named}

\* Fault: links that do not fit are deleted after inputs and outputs were cleaned up.
ValidatedLinksLast(c) ==
    LET inputs == KeptInputs(c, c.links) \cup AddedInputs(c, c.links, KeptInputs(c, c.links))
        outputs == KeptOutputs(c, c.links) \cup AddedOutputs(c, c.links, KeptOutputs(c, c.links))
    IN  [c EXCEPT !.links = InnerOrUsed(FittingLinks(c), inputs, outputs, c.constants),
                  !.inputs = inputs, !.outputs = outputs]

\* The validators of WorkflowContent in the order they run.
Validated(c) ==
    LET links == FittingLinks(c)
        keptInputs == KeptInputs(c, links)
        inputs == keptInputs \cup AddedInputs(c, links, keptInputs)
        keptOutputs == KeptOutputs(c, links)
        outputs == keptOutputs \cup AddedOutputs(c, links, keptOutputs)
    IN  [c EXCEPT !.links = InnerOrUsed(links, inputs, outputs, c.constants),
                  !.inputs = inputs, !.outputs = outputs]

Valid(c) == ~HasLoop(FittingLinks(c))

-----------------------------------------------------------------------------
(* The io interface of the revision, kept next to the content.             *)

InterfaceOf(c) == [inputs |-> c.inputs, outputs |-> c.outputs]

\* Items that match stay, others with the same id are replaced, items the content
\* does not have are removed and missing ones are added.
FittedIOs(ios, contentIOs) ==
    (ios \cap contentIOs)
    \cup {w \in contentIOs : \E io \in ios : io.at = w.at /\ io # w}
    \cup {w \in contentIOs : \A io \in ios : io.at # w.at}

\* Fault: outputs are not looked at.
FittedInputs(interface, c) == [interface EXCEPT !.inputs = FittedIOs(@, c.inputs)]

Fitted(interface, c) ==
    [inputs |-> FittedIOs(interface.inputs, c.inputs),
     outputs |-> FittedIOs(interface.outputs, c.outputs)]

=============================================================================
