---------------------------- MODULE OperatorUpgrade ----------------------------
(***************************************************************************)
(* Replacing the revision an operator of a draft workflow instantiates     *)
(* (hd/trafoutils/upgrade_operators.py).  The operator keeps its id; its   *)
(* inputs and outputs are matched by name with those of the new revision,  *)
(* kept where the data types fit and replaced otherwise.                   *)
(***************************************************************************)
EXTENDS WorkflowContent

\* The interface of a revision: its inputs and its outputs.
Interfaces ==
    [inputs : SUBSET [name : Names, dt : DataTypes, required : BOOLEAN],
     outputs : SUBSET [name : Names, dt : DataTypes]]

\* A connector id nothing in the content refers to.
Mentioned(c, op) ==
    {i.id : i \in c.ins[op] \cup c.outs[op]}
    \cup {io.at[2] : io \in {x \in c.inputs \cup c.outputs : x.at[1] = op}}
    \cup {const.at[2] : const \in {x \in c.constants : x.at[1] = op}}
    \cup {l.from.at[2] : l \in {x \in c.links : x.from.at[1] = op}}
    \cup {l.to.at[2] : l \in {x \in c.links : x.to.at[1] = op}}

FreeUuids(c, op, name) == {k \in 1 .. MaxUuid : <<name, k>> \notin Mentioned(c, op)}
NewId(c, op, name) ==
    <<name, CHOOSE k \in FreeUuids(c, op, name) : \A j \in FreeUuids(c, op, name) : k <= j>>

\* The new uuids an upgrade to a revision may need are left.
HasUuids(c, op, rev) ==
    \A i \in rev.inputs \cup rev.outputs : FreeUuids(c, op, i.name) # {}

-----------------------------------------------------------------------------
(* Operator inputs and outputs.                                            *)

\* The new data type is the old one or takes everything.
StillFits(old, new) == new = old \/ new = AnyType

\* Fault: an input that becomes required stays hidden.
KeptInHidden(i, t) == [i EXCEPT !.dt = t.dt, !.required = t.required]

\* An input that changes between required and optional is shown.
KeptIn(i, t) ==
    [i EXCEPT !.dt = t.dt, !.required = t.required,
              !.exposed = IF t.required # i.required THEN TRUE ELSE i.exposed]

KeptOperatorInputs(c, op, rev) ==
    UNION {{KeptIn(i, t) : t \in {u \in rev.inputs : u.name = i.id[1] /\ StillFits(i.dt, u.dt)}}
           : i \in c.ins[op]}

NewOperatorInputs(c, op, rev, kept) ==
    {[id |-> NewId(c, op, t.name), dt |-> t.dt, required |-> t.required, exposed |-> t.required] :
        t \in {u \in rev.inputs : \A i \in kept : i.id[1] # u.name}}

KeptOperatorOutputs(c, op, rev) ==
    UNION {{[o EXCEPT !.dt = t.dt] :
                t \in {u \in rev.outputs : u.name = o.id[1] /\ StillFits(o.dt, u.dt)}}
           : o \in c.outs[op]}

NewOperatorOutputs(c, op, rev, kept) ==
    {[id |-> NewId(c, op, t.name), dt |-> t.dt] :
        t \in {u \in rev.outputs : \A o \in kept : o.id[1] # u.name}}

-----------------------------------------------------------------------------
(* The workflow around the operator.                                       *)

\* Links are meant to be dropped where the types do not fit strictly any more,
\* but the connector's id is compared with the operator's: every link is kept.
FixedLinks(c, op, rev) == c.links

\* Constants of the operator stay where name and data type still fit.
FixedConstants(c, op, inputs) ==
    {const \in c.constants :
        const.at[1] = op => \E i \in inputs : i.id[1] = const.at[2][1] /\ i.dt = const.dt}

\* Fault: inputs at connectors that were kept are replaced.
FixedInputsAnew(c, op, kept, new) ==
    {io \in c.inputs : io.at[1] # op}
    \cup {[at |-> <<op, i.id>>, dt |-> i.dt, named |-> FALSE] :
            i \in {j \in kept \cup new : j.required}}

\* Inputs of the workflow at the operator stay by the name of the operator
\* input; new required inputs get one.
FixedInputs(c, op, kept, new) ==
    {io \in c.inputs : io.at[1] = op => \E i \in kept : i.id[1] = io.at[2][1]}
    \cup {[at |-> <<op, i.id>>, dt |-> i.dt, named |-> FALSE] : i \in {j \in new : j.required}}

FixedOutputs(c, op, kept, new) ==
    {io \in c.outputs : io.at[1] = op => \E o \in kept : o.id[1] = io.at[2][1]}
    \cup {[at |-> <<op, o.id>>, dt |-> o.dt, named |-> FALSE] : o \in new}

\* upgrade_workflow_operator_in_place: its final validation checks a copy and
\* changes nothing.
Upgraded(c, op, rev) ==
    LET keptIns == KeptOperatorInputs(c, op, rev)
        newIns == NewOperatorInputs(c, op, rev, keptIns)
        keptOuts == KeptOperatorOutputs(c, op, rev)
        newOuts == NewOperatorOutputs(c, op, rev, keptOuts)
    IN  [c EXCEPT !.ins[op] = keptIns \cup newIns,
                  !.outs[op] = keptOuts \cup newOuts,
                  !.links = FixedLinks(c, op, rev),
                  !.constants = FixedConstants(c, op, keptIns \cup newIns),
                  !.inputs = FixedInputs(c, op, keptIns, newIns),
                  !.outputs = FixedOutputs(c, op, keptOuts, newOuts)]

\* Items stay in the interface while the content has them with their data type;
\* those of new connectors are added.
UpgradedIOs(ios, before, after) ==
    {io \in ios : \E w \in after : w.at = io.at /\ w.dt = io.dt} \cup (after \ before)

UpgradedInterface(interface, before, after) ==
    [inputs |-> UpgradedIOs(interface.inputs, before.inputs, after.inputs),
     outputs |-> UpgradedIOs(interface.outputs, before.outputs, after.outputs)]

=============================================================================
