------------------------- MODULE WorkflowEditingProofs -------------------------
(***************************************************************************)
(* Proofs about the editing of a draft workflow: what one round of the     *)
(* validators makes of any content, what an upgrade keeps, and what holds  *)
(* of every content the editor and an execution read, for all operators,   *)
(* interfaces and sequences of edits and upgrades.                         *)
(***************************************************************************)
EXTENDS WorkflowEditing, FiniteSetTheorems, WellFoundedInduction, TLAPS

Contents ==
    [ops : SUBSET Operators, ins : [Operators -> SUBSET OperatorInputs],
     outs : [Operators -> SUBSET OperatorOutputs], links : SUBSET LinkSpace,
     inputs : SUBSET ContentIOs, outputs : SUBSET ContentIOs, constants : SUBSET Constants]

Inner(l) == l.from.op # NoOperator /\ l.to.op # NoOperator

\* A link ends at connectors of the operators it names; one at the workflow leads
\* from or to the item of its connector.
EndsBelong(c) ==
    \A l \in c.links :
        /\ l.from.op = NoOperator => l.to.op # NoOperator
        /\ ~Inner(l) => l.from.at = l.to.at
        /\ l.from.op # NoOperator => l.from.op = l.from.at[1]
        /\ l.to.op # NoOperator => l.to.op = l.to.at[1]

\* No connector has two items of a kind or two links, and a constant is the only
\* source of its operator input.
SingleSources(c) ==
    /\ \A l, m \in c.links : Inner(l) /\ Inner(m) /\ l.to.at = m.to.at => l = m
    /\ \A x, y \in c.inputs : x.at = y.at => x = y
    /\ \A x, y \in c.outputs : x.at = y.at => x = y
    /\ \A x, y \in c.constants : x.at = y.at => x = y
    /\ \A const \in c.constants :
          /\ \A io \in c.inputs : io.at # const.at
          /\ \A l \in c.links : Inner(l) => l.to.at # const.at

\* An operator's inputs and outputs are told apart by their names.
ConnectorsNamed(c) ==
    \A o \in Operators :
        /\ \A i, j \in c.ins[o] : i.id[1] = j.id[1] => i = j
        /\ \A p, q \in c.outs[o] : p.id[1] = q.id[1] => p = q
        /\ \A i \in c.ins[o], p \in c.outs[o] : i.id[1] # p.id[1]
        /\ o \notin c.ops => c.ins[o] = {} /\ c.outs[o] = {}

WellFormed(c) == c \in Contents /\ EndsBelong(c) /\ SingleSources(c) /\ ConnectorsNamed(c)

\* An operator output leads to an output of the workflow or to operators, not both.
OneKindOfTarget(c) ==
    \A l, m \in c.links :
        l.from.op # NoOperator /\ l.from.op = m.from.op /\ l.from.at = m.from.at
            => (l.to.op = NoOperator <=> m.to.op = NoOperator)

\* Operator o looks like a revision.
Matches(c, o, rev) ==
    /\ {[name |-> i.id[1], dt |-> i.dt, required |-> i.required] : i \in c.ins[o]} = rev.inputs
    /\ {[name |-> p.id[1], dt |-> p.dt] : p \in c.outs[o]} = rev.outputs
    /\ \A i \in c.ins[o] : i.required => i.exposed

\* Revision r, which operator o instantiates, is a draft only if the operator is in d,
\* the operators marked so; one without a mark looks like its revision.
MarksHold(c, o, r, d) ==
    /\ r # 0 /\ \A i \in c.ins[o] : i.required => i.exposed
    /\ r > published => o \in d
    /\ o \notin d /\ r \notin deprecated => Matches(c, o, current[r])

EditingInv ==
    /\ WellFormed(stored) /\ OneKindOfTarget(stored)
    /\ interface = InterfaceOf(stored)
    /\ uses \in [Operators -> 0 .. Len(Revisions)] /\ drafts \in SUBSET stored.ops
    /\ \A o \in stored.ops : MarksHold(stored, o, uses[o], drafts)
    /\ current \in [RevisionNumbers -> Shapes]
    /\ published \in 0 .. Len(Revisions) /\ deprecated \in SUBSET (1 .. published)

-----------------------------------------------------------------------------
(* One round of the validators.                                            *)

NewInputs(c) ==
    KeptInputs(c, FittingLinks(c)) \cup AddedInputs(c, FittingLinks(c), KeptInputs(c, FittingLinks(c)))
NewOutputs(c) ==
    KeptOutputs(c, FittingLinks(c)) \cup AddedOutputs(c, FittingLinks(c), KeptOutputs(c, FittingLinks(c)))
NewLinks(c) == InnerOrUsed(FittingLinks(c), NewInputs(c), NewOutputs(c), c.constants)

\* The unnamed item of a connector, and the connectors that get one.
Item(o, x) == [at |-> <<o, x.id>>, dt |-> x.dt, named |-> FALSE]

OpenIn(c, links, kept, o, i) ==
    /\ i.exposed
    /\ \A k \in kept : k.at # <<o, i.id>>
    /\ \A const \in c.constants : const.at # <<o, i.id>>
    /\ \A l \in links : l.to.op = o /\ l.to.at = <<o, i.id>> => l.from.op = NoOperator

OpenOut(links, kept, o, p) ==
    /\ \A k \in kept : k.at # <<o, p.id>>
    /\ \/ \A l \in links : ~ (l.from.op = o /\ l.from.at = <<o, p.id>>)
       \/ \E l \in links : l.from.op = o /\ l.from.at = <<o, p.id>> /\ l.to.op = NoOperator

LEMMA AddedInputsAre ==
    ASSUME NEW c, NEW links, NEW kept, NEW io
    PROVE  io \in AddedInputs(c, links, kept) <=>
             \E o \in c.ops : \E i \in c.ins[o] : io = Item(o, i) /\ OpenIn(c, links, kept, o, i)
<1> DEFINE Open(o) == {j \in c.ins[o] :
                        /\ j.exposed
                        /\ \A k \in kept : k.at # <<o, j.id>>
                        /\ \A const \in c.constants : const.at # <<o, j.id>>
                        /\ \A l \in LinksTo(links, o, <<o, j.id>>) : l.from.op = NoOperator}
<1>1. AddedInputs(c, links, kept) = UNION {{Item(o, i) : i \in Open(o)} : o \in c.ops}
  BY DEF AddedInputs, Item
<1>2. \A o, i : i \in Open(o) <=> i \in c.ins[o] /\ OpenIn(c, links, kept, o, i)
  BY DEF LinksTo, OpenIn
<1> HIDE DEF Open
<1>3. io \in AddedInputs(c, links, kept) <=> \E o \in c.ops : \E i \in Open(o) : io = Item(o, i)
  BY <1>1
<1> QED
  BY <1>2, <1>3

LEMMA AddedOutputsAre ==
    ASSUME NEW c, NEW links, NEW kept, NEW io
    PROVE  io \in AddedOutputs(c, links, kept) <=>
             \E o \in c.ops : \E p \in c.outs[o] : io = Item(o, p) /\ OpenOut(links, kept, o, p)
<1> DEFINE Open(o) == {p \in c.outs[o] :
                        /\ \A k \in kept : k.at # <<o, p.id>>
                        /\ \/ LinksFrom(links, o, <<o, p.id>>) = {}
                           \/ \E l \in LinksFrom(links, o, <<o, p.id>>) : l.to.op = NoOperator}
<1>1. AddedOutputs(c, links, kept) = UNION {{Item(o, p) : p \in Open(o)} : o \in c.ops}
  BY DEF AddedOutputs, Item
<1>2. \A o, p : LinksFrom(links, o, <<o, p.id>>) = {}
              <=> \A l \in links : ~ (l.from.op = o /\ l.from.at = <<o, p.id>>)
  BY DEF LinksFrom
<1>3. \A o, p : p \in Open(o) <=> p \in c.outs[o] /\ OpenOut(links, kept, o, p)
  BY <1>2 DEF LinksFrom, OpenOut
<1> HIDE DEF Open
<1>4. io \in AddedOutputs(c, links, kept) <=> \E o \in c.ops : \E p \in Open(o) : io = Item(o, p)
  BY <1>1
<1> QED
  BY <1>3, <1>4

\* Input io is one that the validators leave with these links.
InputStays(c, links, io) ==
    /\ \E i \in c.ins[io.at[1]] : i.id = io.at[2] /\ Compatible(io.dt, i.dt) /\ i.exposed
    /\ \A l \in links : l.to.op = io.at[1] /\ l.to.at = io.at => l.from.op = NoOperator
    /\ io.named => \E l \in links : /\ l.from.op = NoOperator /\ l.from.at = io.at
                                    /\ l.from.dt = io.dt /\ l.to.op = io.at[1] /\ l.to.at = io.at

OutputStays(c, links, io) ==
    /\ \E p \in c.outs[io.at[1]] : p.id = io.at[2] /\ Compatible(io.dt, p.dt)
    /\ \A l \in links : l.from.op = io.at[1] /\ l.from.at = io.at => l.to.op = NoOperator
    /\ io.named => \E l \in links : /\ l.to.op = NoOperator /\ l.to.at = io.at /\ l.to.dt = io.dt
                                    /\ l.from.op = io.at[1] /\ l.from.at = io.at

LEMMA KeptAre ==
    ASSUME NEW c, NEW links, NEW io
    PROVE  /\ io \in KeptInputs(c, links) <=> io \in c.inputs /\ InputStays(c, links, io)
           /\ io \in KeptOutputs(c, links) <=> io \in c.outputs /\ OutputStays(c, links, io)
BY DEF KeptInputs, InputNeeded, NamedInputNeeded, KeptOutputs, OutputNeeded, NamedOutputNeeded,
       InputAt, OutputAt, LinksFrom, LinksTo, InputStays, OutputStays

LEMMA ContentFields ==
    ASSUME NEW c \in Contents
    PROVE  /\ c.ops \subseteq Operators
           /\ \A o \in Operators : c.ins[o] \subseteq OperatorInputs /\ c.outs[o] \subseteq OperatorOutputs
           /\ c.links \subseteq LinkSpace /\ c.inputs \subseteq ContentIOs
           /\ c.outputs \subseteq ContentIOs /\ c.constants \subseteq Constants
BY DEF Contents

LEMMA SameContent ==
    ASSUME NEW c \in Contents, NEW d \in Contents, c.ops = d.ops, c.ins = d.ins, c.outs = d.outs,
           c.links = d.links, c.inputs = d.inputs, c.outputs = d.outputs, c.constants = d.constants
    PROVE  c = d
BY DEF Contents

LEMMA ValidatedFields ==
    ASSUME NEW c \in Contents
    PROVE  /\ Validated(c) = [c EXCEPT !.links = NewLinks(c), !.inputs = NewInputs(c),
                                       !.outputs = NewOutputs(c)]
           /\ Validated(c) \in Contents
           /\ Validated(c).ops = c.ops /\ Validated(c).ins = c.ins /\ Validated(c).outs = c.outs
           /\ Validated(c).constants = c.constants
           /\ Validated(c).links = NewLinks(c)
           /\ Validated(c).inputs = NewInputs(c) /\ Validated(c).outputs = NewOutputs(c)
<1>1. Validated(c) = [c EXCEPT !.links = NewLinks(c), !.inputs = NewInputs(c),
                               !.outputs = NewOutputs(c)]
  BY DEF Validated, NewLinks, NewInputs, NewOutputs
<1>2. NewLinks(c) \in SUBSET LinkSpace
  BY ContentFields DEF NewLinks, InnerOrUsed, FittingLinks
<1>3. NewInputs(c) \in SUBSET ContentIOs
  <2> SUFFICES ASSUME NEW io \in AddedInputs(c, FittingLinks(c), KeptInputs(c, FittingLinks(c)))
               PROVE  io \in ContentIOs
    BY ContentFields, KeptAre DEF NewInputs
  <2>1. PICK o \in c.ops : \E i \in c.ins[o] : io = Item(o, i)
    BY AddedInputsAre
  <2> QED
    BY <2>1, ContentFields DEF ContentIOs, OperatorInputs, Item
<1>4. NewOutputs(c) \in SUBSET ContentIOs
  <2> SUFFICES ASSUME NEW io \in AddedOutputs(c, FittingLinks(c), KeptOutputs(c, FittingLinks(c)))
               PROVE  io \in ContentIOs
    BY ContentFields, KeptAre DEF NewOutputs
  <2>1. PICK o \in c.ops : \E p \in c.outs[o] : io = Item(o, p)
    BY AddedOutputsAre
  <2> QED
    BY <2>1, ContentFields DEF ContentIOs, OperatorOutputs, Item
<1> HIDE DEF NewLinks, NewInputs, NewOutputs
<1> QED
  BY <1>1, <1>2, <1>3, <1>4 DEF Contents

\* Links that stay are links that fit.
LEMMA NewLinksAre ==
    ASSUME NEW c \in Contents, NEW l
    PROVE  l \in NewLinks(c) <=>
             /\ l \in c.links
             /\ l.from.op # NoOperator =>
                   \E p \in c.outs[l.from.at[1]] : p.id = l.from.at[2] /\ p.dt = l.from.dt
             /\ l.to.op # NoOperator =>
                   \E i \in c.ins[l.to.at[1]] : i.id = l.to.at[2] /\ i.dt = l.to.dt /\ i.exposed
             /\ l.from.op = NoOperator =>
                   \/ \E io \in NewInputs(c) : io.at = l.from.at /\ io.named
                   \/ \E const \in c.constants : const.at = l.from.at
             /\ l.to.op = NoOperator => \E io \in NewOutputs(c) : io.at = l.to.at /\ io.named
BY DEF NewLinks, InnerOrUsed, FittingLinks, StartFits, EndFits, OutputAt, InputAt

\* An inner link stays exactly when it fits.
LEMMA InnerLinksStay ==
    ASSUME NEW c \in Contents, NEW l, Inner(l)
    PROVE  l \in NewLinks(c) <=> l \in FittingLinks(c)
BY DEF NewLinks, InnerOrUsed, Inner

\* What is left of the inputs: each fits, no operator leads to its operator input, and
\* none is lacking.
LEMMA NewInputsAre ==
    ASSUME NEW c, WellFormed(c)
    PROVE  /\ \A io \in NewInputs(c) : InputStays(c, FittingLinks(c), io)
           /\ \A x, y \in NewInputs(c) : x.at = y.at => x = y
           /\ \A io \in NewInputs(c), const \in c.constants : io.at # const.at
           /\ \A o \in c.ops : \A i \in c.ins[o] :
                 i.exposed => \/ \E io \in NewInputs(c) : io.at = <<o, i.id>>
                              \/ \E const \in c.constants : const.at = <<o, i.id>>
                              \/ \E l \in FittingLinks(c) : Inner(l) /\ l.to.at = <<o, i.id>>
<1> DEFINE links == FittingLinks(c)
           kept == KeptInputs(c, links)
           added == AddedInputs(c, links, kept)
<1>1. /\ c \in Contents /\ c.ops \subseteq Operators /\ links \subseteq c.links
      /\ NoOperator \notin Operators /\ NewInputs(c) = kept \cup added
  BY ContentFields, ContentAssumption DEF WellFormed, FittingLinks, NewInputs
<1> HIDE DEF links
<1>2. \A io \in kept : io \in c.inputs /\ InputStays(c, links, io)
  BY KeptAre
<1>3. \A io \in added : \E o \in c.ops : \E i \in c.ins[o] :
         io = Item(o, i) /\ OpenIn(c, links, kept, o, i)
  BY AddedInputsAre
<1>4. \A o \in c.ops : \A i \in c.ins[o] : OpenIn(c, links, kept, o, i) => Item(o, i) \in added
  BY AddedInputsAre
<1> HIDE DEF kept, added
<1>5. \A io \in added : InputStays(c, links, io)
  <2> SUFFICES ASSUME NEW io \in added PROVE InputStays(c, links, io)
    OBVIOUS
  <2>1. PICK o \in c.ops : \E i \in c.ins[o] : io = Item(o, i) /\ OpenIn(c, links, kept, o, i)
    BY <1>3
  <2>2. PICK i \in c.ins[o] : io = Item(o, i) /\ OpenIn(c, links, kept, o, i)
    BY <2>1
  <2>3. io.at = <<o, i.id>> /\ io.at[1] = o /\ io.at[2] = i.id /\ io.dt = i.dt /\ io.named = FALSE
    BY <2>2 DEF Item
  <2> QED
    BY <2>2, <2>3 DEF InputStays, Compatible, OpenIn
<1>6. \A x, y \in kept \cup added : x.at = y.at => x = y
  <2>1. \A x, y \in kept : x.at = y.at => x = y
    BY <1>2 DEF WellFormed, SingleSources
  <2>2. \A x \in added, y \in kept : x.at # y.at
    BY <1>3 DEF Item, OpenIn
  <2>3. ASSUME NEW x \in added, NEW y \in added, x.at = y.at PROVE x = y
    <3>1. PICK o \in c.ops : \E i \in c.ins[o] : x = Item(o, i)
      BY <1>3
    <3>2. PICK i \in c.ins[o] : x = Item(o, i)
      BY <3>1
    <3>3. PICK q \in c.ops : \E j \in c.ins[q] : y = Item(q, j)
      BY <1>3
    <3>4. PICK j \in c.ins[q] : y = Item(q, j)
      BY <3>3
    <3>5. o = q /\ i.id = j.id
      BY <3>2, <3>4, <2>3 DEF Item
    <3>6. i = j
      BY <3>5, <1>1 DEF WellFormed, ConnectorsNamed
    <3> QED
      BY <3>2, <3>4, <3>5, <3>6
  <2> QED
    BY <2>1, <2>2, <2>3
<1>7. \A io \in kept \cup added, const \in c.constants : io.at # const.at
  BY <1>2, <1>3 DEF WellFormed, SingleSources, Item, OpenIn
<1>8. ASSUME NEW o \in c.ops, NEW i \in c.ins[o], i.exposed,
             \A io \in kept \cup added : io.at # <<o, i.id>>,
             \A const \in c.constants : const.at # <<o, i.id>>
      PROVE  \E l \in links : Inner(l) /\ l.to.at = <<o, i.id>>
  <2>1. \E l \in links : l.to.op = o /\ l.to.at = <<o, i.id>> /\ l.from.op # NoOperator
    <3>1. Item(o, i).at = <<o, i.id>>
      BY DEF Item
    <3>2. ~ OpenIn(c, links, kept, o, i)
      BY <3>1, <1>4, <1>8
    <3> QED
      BY <3>2, <1>8 DEF OpenIn
  <2> QED
    BY <2>1, <1>1 DEF Inner
<1> QED
  BY <1>1, <1>2, <1>5, <1>6, <1>7, <1>8 DEF links

LEMMA NewOutputsAre ==
    ASSUME NEW c, WellFormed(c)
    PROVE  /\ \A io \in NewOutputs(c) : io.named => io \in c.outputs /\ OutputStays(c, FittingLinks(c), io)
           /\ \A x, y \in NewOutputs(c) : x.at = y.at => x = y
<1> DEFINE links == FittingLinks(c)
           kept == KeptOutputs(c, links)
           added == AddedOutputs(c, links, kept)
<1>1. c \in Contents /\ c.ops \subseteq Operators /\ NewOutputs(c) = kept \cup added
  BY ContentFields DEF WellFormed, NewOutputs
<1> HIDE DEF links
<1>2. \A io \in kept : io \in c.outputs /\ OutputStays(c, links, io)
  BY KeptAre
<1>3. \A io \in added : \E o \in c.ops : \E p \in c.outs[o] :
         io = Item(o, p) /\ OpenOut(links, kept, o, p)
  BY AddedOutputsAre
<1> HIDE DEF kept, added
<1>4. \A x, y \in kept : x.at = y.at => x = y
  BY <1>2 DEF WellFormed, SingleSources
<1>5. \A x \in added, y \in kept : x.at # y.at
  BY <1>3 DEF Item, OpenOut
<1>6. ASSUME NEW x \in added, NEW y \in added, x.at = y.at PROVE x = y
  <2>1. PICK o \in c.ops : \E i \in c.outs[o] : x = Item(o, i)
    BY <1>3
  <2>2. PICK i \in c.outs[o] : x = Item(o, i)
    BY <2>1
  <2>3. PICK q \in c.ops : \E j \in c.outs[q] : y = Item(q, j)
    BY <1>3
  <2>4. PICK j \in c.outs[q] : y = Item(q, j)
    BY <2>3
  <2>5. o = q /\ i.id = j.id
    BY <2>2, <2>4, <1>6 DEF Item
  <2>6. i = j
    BY <2>5, <1>1 DEF WellFormed, ConnectorsNamed
  <2> QED
    BY <2>2, <2>4, <2>5, <2>6
<1>7. \A io \in added : ~io.named
  BY <1>3 DEF Item
<1> QED
  BY <1>1, <1>2, <1>4, <1>5, <1>6, <1>7 DEF links

\* After the validators an operator output leads to one kind of target.
LEMMA NewLinksHaveOneKind ==
    ASSUME NEW c, WellFormed(c)
    PROVE  OneKindOfTarget(Validated(c))
<1>1. Validated(c).links = NewLinks(c)
  BY ValidatedFields DEF WellFormed
<1> SUFFICES \A l, m \in NewLinks(c) :
                 l.from.op # NoOperator /\ l.from.op = m.from.op /\ l.from.at = m.from.at
                 /\ l.to.op = NoOperator => m.to.op = NoOperator
  BY <1>1, Zenon DEF OneKindOfTarget
<1> SUFFICES ASSUME NEW l \in NewLinks(c), NEW m \in NewLinks(c),
                    l.from.op # NoOperator, l.from.op = m.from.op, l.from.at = m.from.at,
                    l.to.op = NoOperator
             PROVE  m.to.op = NoOperator
  OBVIOUS
<1>2. c \in Contents /\ l \in c.links /\ m \in FittingLinks(c)
  BY NewLinksAre DEF WellFormed, NewLinks, InnerOrUsed
<1>3. l.from.at = l.to.at /\ l.from.op = l.from.at[1]
  BY <1>2 DEF WellFormed, EndsBelong, Inner
<1>4. PICK io \in NewOutputs(c) : io.at = l.to.at /\ io.named
  BY <1>2, NewLinksAre
<1>5. OutputStays(c, FittingLinks(c), io)
  BY <1>4, NewOutputsAre
<1> QED
  BY <1>2, <1>3, <1>4, <1>5 DEF OutputStays

\* What the validators make of a well-formed content is well-formed.
LEMMA ValidatedIsWellFormed ==
    ASSUME NEW c, WellFormed(c)
    PROVE  /\ WellFormed(Validated(c))
           /\ \A io \in NewInputs(c) : \A l \in NewLinks(c) : Inner(l) => l.to.at # io.at
<1>1. c \in Contents /\ NewLinks(c) \subseteq FittingLinks(c) /\ FittingLinks(c) \subseteq c.links
  BY DEF WellFormed, NewLinks, InnerOrUsed, FittingLinks
<1> DEFINE v == Validated(c)
<1>2. /\ v \in Contents /\ v.ops = c.ops /\ v.ins = c.ins /\ v.outs = c.outs
      /\ v.constants = c.constants /\ v.links = NewLinks(c)
      /\ v.inputs = NewInputs(c) /\ v.outputs = NewOutputs(c)
  BY <1>1, ValidatedFields
<1> HIDE DEF v
<1>3. EndsBelong(v) /\ ConnectorsNamed(v)
  BY <1>2, <1>1 DEF WellFormed, EndsBelong, ConnectorsNamed
<1>4. SingleSources(v)
  <2>1. \A l, m \in NewLinks(c) : Inner(l) /\ Inner(m) /\ l.to.at = m.to.at => l = m
    BY <1>1 DEF WellFormed, SingleSources
  <2>2. \A const \in c.constants :
          /\ \A io \in NewInputs(c) : io.at # const.at
          /\ \A l \in NewLinks(c) : Inner(l) => l.to.at # const.at
    BY <1>1, NewInputsAre DEF WellFormed, SingleSources
  <2>3. \A x, y \in c.constants : x.at = y.at => x = y
    BY DEF WellFormed, SingleSources
  <2> QED
    BY <1>2, <2>1, <2>2, <2>3, NewInputsAre, NewOutputsAre DEF SingleSources
<1>5. ASSUME NEW io \in NewInputs(c), NEW l \in NewLinks(c), Inner(l) PROVE l.to.at # io.at
  <2>1. l.to.op = l.to.at[1] /\ l.from.op # NoOperator /\ l \in FittingLinks(c)
    BY <1>1, <1>5 DEF WellFormed, EndsBelong, Inner
  <2> QED
    BY <2>1, NewInputsAre DEF InputStays
<1> QED
  BY <1>2, <1>3, <1>4, <1>5 DEF WellFormed, v

\* One more round changes nothing where no output leads to both kinds of targets.
LEMMA ValidatedTwice ==
    ASSUME NEW c, WellFormed(c), OneKindOfTarget(c)
    PROVE  /\ Validated(Validated(c)) = Validated(c)
           /\ FittingLinks(Validated(c)) = Validated(c).links
           /\ \A io \in Validated(c).inputs : InputStays(Validated(c), Validated(c).links, io)
           /\ \A io \in Validated(c).outputs : OutputStays(Validated(c), Validated(c).links, io)
<1> DEFINE v == Validated(c)
<1>1. /\ v \in Contents /\ v.ops = c.ops /\ v.ins = c.ins /\ v.outs = c.outs
      /\ v.constants = c.constants /\ v.links = NewLinks(c)
      /\ v.inputs = NewInputs(c) /\ v.outputs = NewOutputs(c)
      /\ c \in Contents
  BY ValidatedFields DEF WellFormed
<1>2. WellFormed(v)
  BY ValidatedIsWellFormed
<1> HIDE DEF v
<1>3. FittingLinks(v) = NewLinks(c) /\ NewLinks(c) \subseteq FittingLinks(c)
      /\ FittingLinks(c) \subseteq c.links
  <2>1. NewLinks(c) \subseteq FittingLinks(c) /\ FittingLinks(c) \subseteq c.links
    BY DEF NewLinks, InnerOrUsed, FittingLinks
  <2>2. \A at : OutputAt(v, at) = OutputAt(c, at) /\ InputAt(v, at) = InputAt(c, at)
    BY <1>1 DEF OutputAt, InputAt
  <2>3. \A l : (StartFits(v, l) <=> StartFits(c, l)) /\ (EndFits(v, l) <=> EndFits(c, l))
    BY <2>2 DEF StartFits, EndFits
  <2>4. \A l \in FittingLinks(c) : /\ l.from.op = NoOperator \/ StartFits(v, l)
                                   /\ l.to.op = NoOperator \/ EndFits(v, l)
    BY <2>3 DEF FittingLinks
  <2>5. FittingLinks(v) = NewLinks(c)
    BY <2>1, <2>4, <1>1 DEF FittingLinks
  <2> QED
    BY <2>1, <2>5
<1>4. /\ NoOperator \notin Operators /\ c.ops \subseteq Operators
      /\ \A io \in NewInputs(c) \cup NewOutputs(c) : io.at[1] \in Operators
  BY <1>1, ContentFields, ContentAssumption DEF ContentIOs
<1>5. \A l \in FittingLinks(c) : Inner(l) => l \in NewLinks(c) /\ l.to.op = l.to.at[1]
  BY <1>1, <1>3, InnerLinksStay DEF WellFormed, EndsBelong, Inner
<1>6. ASSUME NEW io \in NewInputs(c) PROVE InputStays(v, NewLinks(c), io)
  <2>1. InputStays(c, FittingLinks(c), io)
    BY NewInputsAre
  <2>2. ASSUME io.named, NEW l \in FittingLinks(c), l.from.op = NoOperator, l.from.at = io.at,
               l.to.op = io.at[1]
        PROVE  l \in NewLinks(c)
    BY <2>2, <1>4 DEF NewLinks, InnerOrUsed
  <2> QED
    BY <2>1, <2>2, <1>1, <1>3 DEF InputStays
<1>7. ASSUME NEW io \in NewOutputs(c) PROVE OutputStays(v, NewLinks(c), io)
  <2>1. CASE io \in KeptOutputs(c, FittingLinks(c))
    <3>1. OutputStays(c, FittingLinks(c), io)
      BY <2>1, KeptAre
    <3>2. ASSUME io.named, NEW l \in FittingLinks(c), l.to.op = NoOperator, l.to.at = io.at,
                 l.from.op = io.at[1]
          PROVE  l \in NewLinks(c)
      BY <3>2, <1>4 DEF NewLinks, InnerOrUsed
    <3> QED
      BY <3>1, <3>2, <1>1, <1>3 DEF OutputStays
  <2>2. CASE io \in AddedOutputs(c, FittingLinks(c), KeptOutputs(c, FittingLinks(c)))
    <3>1. PICK o \in c.ops : \E p \in c.outs[o] :
             io = Item(o, p) /\ OpenOut(FittingLinks(c), KeptOutputs(c, FittingLinks(c)), o, p)
      BY <2>2, AddedOutputsAre
    <3>2. PICK p \in c.outs[o] :
             io = Item(o, p) /\ OpenOut(FittingLinks(c), KeptOutputs(c, FittingLinks(c)), o, p)
      BY <3>1
    <3>3. io.at = <<o, p.id>> /\ io.at[1] = o /\ io.at[2] = p.id /\ io.dt = p.dt /\ io.named = FALSE
      BY <3>2 DEF Item
    <3>4. \A l \in FittingLinks(c) : l.from.op = o /\ l.from.at = <<o, p.id>> => l.to.op = NoOperator
      BY <3>2, <1>3, <1>4 DEF OpenOut, OneKindOfTarget
    <3> QED
      BY <3>2, <3>3, <3>4, <1>1, <1>3 DEF OutputStays, Compatible
  <2> QED
    BY <2>1, <2>2 DEF NewOutputs
<1>8. NewInputs(v) = NewInputs(c)
  <2>2. KeptInputs(v, NewLinks(c)) = NewInputs(c)
    <3>1. \A io : io \in KeptInputs(v, NewLinks(c))
                   <=> io \in NewInputs(c) /\ InputStays(v, NewLinks(c), io)
      BY <1>1, KeptAre
    <3> QED
      BY <3>1, <1>6
  <2>3. \A o \in v.ops : \A i \in v.ins[o] : ~OpenIn(v, NewLinks(c), NewInputs(c), o, i)
    <3> SUFFICES ASSUME NEW o \in c.ops, NEW i \in c.ins[o],
                        OpenIn(v, NewLinks(c), NewInputs(c), o, i)
                 PROVE  FALSE
      BY <1>1
    <3>1. /\ i.exposed /\ \A k \in NewInputs(c) : k.at # <<o, i.id>>
          /\ \A const \in c.constants : const.at # <<o, i.id>>
          /\ \A l \in NewLinks(c) : l.to.op = o /\ l.to.at = <<o, i.id>> => l.from.op = NoOperator
      BY <1>1 DEF OpenIn
    <3>2. PICK l \in FittingLinks(c) : Inner(l) /\ l.to.at = <<o, i.id>>
      <4>1. /\ i.exposed /\ ~\E io \in NewInputs(c) : io.at = <<o, i.id>>
            /\ ~\E const \in c.constants : const.at = <<o, i.id>>
        BY <3>1
      <4>2. \A r \in c.ops : \A n \in c.ins[r] :
               n.exposed => \/ \E io \in NewInputs(c) : io.at = <<r, n.id>>
                            \/ \E const \in c.constants : const.at = <<r, n.id>>
                            \/ \E l \in FittingLinks(c) : Inner(l) /\ l.to.at = <<r, n.id>>
        BY <1>1, NewInputsAre
      <4> QED
        BY <4>1, <4>2
    <3>3. l \in NewLinks(c) /\ l.to.op = o /\ l.from.op # NoOperator
      BY <3>2, <1>5 DEF Inner
    <3> QED
      BY <3>1, <3>2, <3>3
  <2>4. AddedInputs(v, NewLinks(c), NewInputs(c)) = {}
    BY <2>3, AddedInputsAre
  <2> QED
    BY <2>2, <2>4, <1>3 DEF NewInputs
<1>9. NewOutputs(v) = NewOutputs(c)
  <2>2. KeptOutputs(v, NewLinks(c)) = NewOutputs(c)
    BY <1>7, <1>1, KeptAre
  <2>3. \A o \in v.ops : \A p \in v.outs[o] : ~OpenOut(NewLinks(c), NewOutputs(c), o, p)
    <3> SUFFICES ASSUME NEW o \in c.ops, NEW p \in c.outs[o],
                        OpenOut(NewLinks(c), NewOutputs(c), o, p)
                 PROVE  FALSE
      BY <1>1
    <3>1. Item(o, p).at = <<o, p.id>>
      BY DEF Item
    <3>2. ~OpenOut(FittingLinks(c), KeptOutputs(c, FittingLinks(c)), o, p)
      <4>1. Item(o, p) \notin NewOutputs(c)
        BY <3>1 DEF OpenOut
      <4> QED
        BY <4>1, AddedOutputsAre DEF NewOutputs
    <3>3. \A k \in KeptOutputs(c, FittingLinks(c)) : k.at # <<o, p.id>>
      BY DEF OpenOut, NewOutputs
    <3>4. PICK l \in FittingLinks(c) : l.from.op = o /\ l.from.at = <<o, p.id>>
      BY <3>2, <3>3 DEF OpenOut
    <3>5. \A m \in FittingLinks(c) : m.from.op = o /\ m.from.at = <<o, p.id>> => m.to.op # NoOperator
      BY <3>2, <3>3 DEF OpenOut
    <3>6. l \in NewLinks(c)
      BY <3>4, <3>5, <1>4, <1>5 DEF Inner
    <3> QED
      BY <3>4, <3>5, <3>6, <1>3 DEF OpenOut
  <2>4. AddedOutputs(v, NewLinks(c), NewOutputs(c)) = {}
    BY <2>3, AddedOutputsAre
  <2> QED
    BY <2>2, <2>4, <1>3 DEF NewOutputs
<1>10. NewLinks(v) = NewLinks(c)
  <2>1. NewLinks(v) = InnerOrUsed(NewLinks(c), NewInputs(c), NewOutputs(c), c.constants)
    BY <1>1, <1>3, <1>8, <1>9 DEF NewLinks
  <2> DEFINE Used(l) ==
               /\ l.from.op = NoOperator =>
                     \/ \E io \in NewInputs(c) : io.at = l.from.at /\ io.named
                     \/ \E const \in c.constants : const.at = l.from.at
               /\ l.to.op = NoOperator => \E io \in NewOutputs(c) : io.at = l.to.at /\ io.named
  <2>2. \A links : InnerOrUsed(links, NewInputs(c), NewOutputs(c), c.constants)
                    = {l \in links : Used(l)}
    BY DEF InnerOrUsed
  <2> HIDE DEF Used
  <2>3. NewLinks(c) = {l \in FittingLinks(c) : Used(l)}
    BY <2>2 DEF NewLinks
  <2>4. \A l \in NewLinks(c) : Used(l)
    BY <2>3
  <2>5. NewLinks(v) = {l \in NewLinks(c) : Used(l)}
    BY <2>1, <2>2
  <2> QED
    BY <2>4, <2>5
<1> DEFINE w == Validated(v)
<1>11. /\ w \in Contents /\ w.ops = v.ops /\ w.ins = v.ins /\ w.outs = v.outs
      /\ w.constants = v.constants /\ w.links = v.links
      /\ w.inputs = v.inputs /\ w.outputs = v.outputs
  BY <1>1, <1>8, <1>9, <1>10, ValidatedFields
<1> HIDE DEF w
<1>12. w = v
  BY <1>1, <1>11, SameContent
<1>13. /\ FittingLinks(v) = v.links
       /\ \A io \in v.inputs : InputStays(v, v.links, io)
       /\ \A io \in v.outputs : OutputStays(v, v.links, io)
  BY <1>1, <1>3, <1>6, <1>7
<1> QED
  BY <1>12, <1>13 DEF v, w

\* Validated, a content has one source for each operator input that is shown.
LEMMA ValidatedIsFedOnce ==
    ASSUME NEW c, WellFormed(c)
    PROVE  \A o \in c.ops : \A i \in c.ins[o] :
             i.exposed => \E x : Feeders(Validated(c), <<o, i.id>>) = {x}
<1> SUFFICES ASSUME NEW o \in c.ops, NEW i \in c.ins[o], i.exposed
             PROVE  \E x : Feeders(Validated(c), <<o, i.id>>) = {x}
  OBVIOUS
<1> DEFINE v == Validated(c)
           at == <<o, i.id>>
<1>1. /\ v.ops = c.ops /\ v.ins = c.ins /\ v.outs = c.outs /\ v.constants = c.constants
      /\ v.links = NewLinks(c) /\ v.inputs = NewInputs(c) /\ c \in Contents
  BY ValidatedFields DEF WellFormed
<1>2. /\ SingleSources(v)
      /\ \A io \in NewInputs(c) : \A l \in NewLinks(c) : Inner(l) => l.to.at # io.at
  BY ValidatedIsWellFormed DEF WellFormed
<1> HIDE DEF v
<1> DEFINE L == {l \in v.links : l.from.op # NoOperator /\ l.to.at = at}
           I == {io \in v.inputs : io.at = at}
           K == {const \in v.constants : const.at = at}
<1>3. Feeders(v, at) = L \cup I \cup K
  BY DEF Feeders
<1>4. \A l \in L : Inner(l)
  <2> SUFFICES ASSUME NEW l \in L, l.to.op = NoOperator PROVE FALSE
    BY DEF Inner
  <2>1. l \in NewLinks(c) /\ l.from.op # NoOperator /\ l.to.at = at /\ l \in c.links
    BY <1>1, NewLinksAre
  <2>2. l.from.at = at
    BY <2>1 DEF WellFormed, EndsBelong, Inner
  <2>3. PICK p \in c.outs[o] : p.id = i.id
    BY <2>1, <2>2, <1>1, NewLinksAre
  <2>4. o \in Operators
    BY <1>1, ContentFields
  <2> QED
    BY <2>3, <2>4 DEF WellFormed, ConnectorsNamed
<1>5. \A l, m \in L : l = m
  BY <1>2, <1>4 DEF SingleSources
<1>6. \A x, y \in I : x = y
  BY <1>2 DEF SingleSources
<1>7. \A x, y \in K : x = y
  BY <1>2 DEF SingleSources
<1>8. (L = {} \/ I = {}) /\ (L = {} \/ K = {}) /\ (I = {} \/ K = {})
  BY <1>1, <1>2, <1>4 DEF SingleSources
<1>9. L # {} \/ I # {} \/ K # {}
  <2>1. \A l \in FittingLinks(c) : Inner(l) => l \in NewLinks(c)
    BY <1>1, InnerLinksStay
  <2>2. \/ \E io \in NewInputs(c) : io.at = at
        \/ \E const \in c.constants : const.at = at
        \/ \E l \in FittingLinks(c) : Inner(l) /\ l.to.at = at
    BY NewInputsAre
  <2> QED
    BY <2>1, <2>2, <1>1 DEF Inner
<1>10. \E x : L \cup I \cup K = {x}
  <2> HIDE DEF L, I, K
  <2>1. PICK x : x \in L \cup I \cup K
    BY <1>9
  <2>2. \A y \in L \cup I \cup K : y = x
    BY <2>1, <1>5, <1>6, <1>7, <1>8
  <2>3. L \cup I \cup K = {x}
    BY <2>1, <2>2
  <2> QED
    BY <2>3
<1> QED
  BY <1>3, <1>10 DEF v

\* The interface that is fitted to a content is the content's.
LEMMA FittedIsInterface ==
    ASSUME NEW i, NEW c
    PROVE  Fitted(i, c) = InterfaceOf(c)
<1>1. \A ios, contentIOs : FittedIOs(ios, contentIOs) = contentIOs
  BY DEF FittedIOs
<1> QED
  BY <1>1 DEF Fitted, InterfaceOf

-----------------------------------------------------------------------------
(* What the editor reads and puts.                                         *)

LEMMA SeenFacts ==
    ASSUME EditingInv
    PROVE  /\ WellFormed(seen) /\ OneKindOfTarget(seen)
           /\ seen.ops = stored.ops /\ seen.ins = stored.ins /\ seen.outs = stored.outs
           /\ seen.constants = stored.constants
           /\ Validated(seen) = seen /\ seenInterface = InterfaceOf(seen)
           /\ FittingLinks(seen) = seen.links
           /\ \A io \in seen.inputs : InputStays(seen, seen.links, io)
           /\ \A io \in seen.outputs : OutputStays(seen, seen.links, io)
           /\ \A o \in seen.ops : MarksHold(seen, o, uses[o], drafts)
           /\ \A io \in seen.inputs : \A l \in seen.links : Inner(l) => l.to.at # io.at
<1>1. WellFormed(stored) /\ OneKindOfTarget(stored) /\ stored \in Contents
  BY DEF EditingInv, WellFormed
<1>2. seen.ops = stored.ops /\ seen.ins = stored.ins /\ seen.outs = stored.outs
      /\ seen.constants = stored.constants
      /\ seen.inputs = NewInputs(stored) /\ seen.links = NewLinks(stored)
  BY <1>1, ValidatedFields DEF seen
<1>3. /\ WellFormed(seen) /\ OneKindOfTarget(seen) /\ Validated(seen) = seen
      /\ FittingLinks(seen) = seen.links
      /\ \A io \in seen.inputs : InputStays(seen, seen.links, io)
      /\ \A io \in seen.outputs : OutputStays(seen, seen.links, io)
  <2>1. WellFormed(seen)
    BY <1>1, ValidatedIsWellFormed DEF seen
  <2>2. OneKindOfTarget(seen)
    BY <1>1, NewLinksHaveOneKind DEF seen
  <2>3. /\ Validated(seen) = seen /\ FittingLinks(seen) = seen.links
        /\ \A io \in seen.inputs : InputStays(seen, seen.links, io)
        /\ \A io \in seen.outputs : OutputStays(seen, seen.links, io)
    BY <1>1, ValidatedTwice DEF seen
  <2> QED
    BY <2>1, <2>2, <2>3
<1>4. seenInterface = InterfaceOf(seen)
  BY FittedIsInterface DEF seenInterface
<1>5. \A o \in seen.ops : MarksHold(seen, o, uses[o], drafts)
  BY <1>2, Zenon DEF EditingInv, MarksHold, Matches
<1>6. \A io \in NewInputs(stored) : \A l \in NewLinks(stored) : Inner(l) => l.to.at # io.at
  BY <1>1, ValidatedIsWellFormed
<1> QED
  BY <1>2, <1>3, <1>4, <1>5, <1>6

\* A put stores a well-formed content and its interface.
LEMMA PutKeepsInv ==
    ASSUME EditingInv, NEW c, WellFormed(c), Put(c),
           uses' \in [Operators -> 0 .. Len(Revisions)], drafts' \in SUBSET c.ops,
           \A o \in c.ops : MarksHold(c, o, uses'[o], drafts'),
           UNCHANGED <<current, published, deprecated>>
    PROVE  EditingInv'
<1>1. /\ stored' = Validated(c) /\ interface' = InterfaceOf(Validated(c))
  BY FittedIsInterface DEF Put, Write
<1>2. Validated(c).ops = c.ops /\ Validated(c).ins = c.ins /\ Validated(c).outs = c.outs
  BY ValidatedFields DEF WellFormed
<1>3. WellFormed(Validated(c)) /\ OneKindOfTarget(Validated(c))
  BY ValidatedIsWellFormed, NewLinksHaveOneKind
<1>4. WellFormed(stored)' /\ OneKindOfTarget(stored)' /\ (interface = InterfaceOf(stored))'
  BY <1>1, <1>3
<1>5. \A o \in c.ops : MarksHold(Validated(c), o, uses'[o], drafts')
  BY <1>2, Zenon DEF MarksHold, Matches
<1>6. (\A o \in stored.ops : MarksHold(stored, o, uses[o], drafts))'
  BY <1>1, <1>2, <1>5, Zenon DEF MarksHold
<1> QED
  BY <1>1, <1>2, <1>4, <1>6 DEF EditingInv

-----------------------------------------------------------------------------
(* Edits.                                                                  *)

\* Connectors and constants of one operator change, inputs, outputs and links do not.
LEMMA OperatorEdited ==
    ASSUME NEW s, WellFormed(s), NEW op \in Operators, NEW c \in Contents,
           \A o \in Operators \ {op} : /\ c.ins[o] = s.ins[o] /\ c.outs[o] = s.outs[o]
                                       /\ o \in c.ops <=> o \in s.ops,
           c.constants \subseteq s.constants,
           c.links = s.links, c.inputs = s.inputs, c.outputs = s.outputs,
           op \notin c.ops => c.ins[op] = {} /\ c.outs[op] = {},
           \A i, j \in c.ins[op] : i.id[1] = j.id[1] => i = j,
           \A p, q \in c.outs[op] : p.id[1] = q.id[1] => p = q,
           \A i \in c.ins[op], p \in c.outs[op] : i.id[1] # p.id[1]
    PROVE  WellFormed(c)
<1>1. EndsBelong(c) /\ SingleSources(c)
  BY DEF WellFormed, EndsBelong, SingleSources
<1>2. ConnectorsNamed(c)
  <2> SUFFICES ASSUME NEW o \in Operators
               PROVE  /\ \A i, j \in c.ins[o] : i.id[1] = j.id[1] => i = j
                      /\ \A p, q \in c.outs[o] : p.id[1] = q.id[1] => p = q
                      /\ \A i \in c.ins[o], p \in c.outs[o] : i.id[1] # p.id[1]
                      /\ o \notin c.ops => c.ins[o] = {} /\ c.outs[o] = {}
    BY DEF ConnectorsNamed
  <2>1. CASE o = op
    BY <2>1
  <2>2. CASE o # op
    BY <2>2 DEF WellFormed, ConnectorsNamed
  <2> QED
    BY <2>1, <2>2
<1> QED
  BY <1>1, <1>2 DEF WellFormed

LEMMA ShapesAreInterfaces == Shapes \subseteq Interfaces
<1> SUFFICES ASSUME NEW n \in DOMAIN Revisions PROVE Revisions[n] \subseteq Interfaces
  BY DEF Shapes
<1> QED
  BY RevisionsAssumption

\* The connectors of a new operator.
LEMMA RevisionConnectors ==
    ASSUME EditingInv, NEW r \in RevisionNumbers
    PROVE  /\ current[r] \in Interfaces
           /\ InputsOf(r) \in SUBSET OperatorInputs /\ OutputsOf(r) \in SUBSET OperatorOutputs
           /\ \A i, j \in InputsOf(r) : i.id[1] = j.id[1] => i = j
           /\ \A p, q \in OutputsOf(r) : p.id[1] = q.id[1] => p = q
           /\ \A i \in InputsOf(r), p \in OutputsOf(r) : i.id[1] # p.id[1]
           /\ {[name |-> i.id[1], dt |-> i.dt, required |-> i.required] : i \in InputsOf(r)}
                 = current[r].inputs
           /\ {[name |-> p.id[1], dt |-> p.dt] : p \in OutputsOf(r)} = current[r].outputs
           /\ \A i \in InputsOf(r) : i.required => i.exposed
<1>1. current[r] \in Shapes /\ current[r] \in Interfaces /\ 1 \in 1 .. MaxUuid
  BY ShapesAreInterfaces, ContentAssumption DEF EditingInv
<1>2. /\ current[r].inputs \subseteq [name : Names, dt : DataTypes, required : BOOLEAN]
      /\ current[r].outputs \subseteq [name : Names, dt : DataTypes]
  BY <1>1 DEF Interfaces
<1>3. InputsOf(r) \in SUBSET OperatorInputs /\ OutputsOf(r) \in SUBSET OperatorOutputs
  BY <1>1, <1>2 DEF InputsOf, OutputsOf, OperatorInputs, OperatorOutputs, ConnectorIds
<1>4. \A i, j \in InputsOf(r) : i.id[1] = j.id[1] => i = j
  BY <1>1, NamesAssumption DEF InputsOf
<1>5. \A p, q \in OutputsOf(r) : p.id[1] = q.id[1] => p = q
  BY <1>1, NamesAssumption DEF OutputsOf
<1>6. \A i \in InputsOf(r), p \in OutputsOf(r) : i.id[1] # p.id[1]
  BY <1>1, NamesAssumption DEF InputsOf, OutputsOf
<1> DEFINE New(t) == [id |-> <<t.name, 1>>, dt |-> t.dt, required |-> t.required, exposed |-> t.required]
           Old(i) == [name |-> i.id[1], dt |-> i.dt, required |-> i.required]
           NewOut(t) == [id |-> <<t.name, 1>>, dt |-> t.dt]
           OldOut(p) == [name |-> p.id[1], dt |-> p.dt]
<1>7. {Old(i) : i \in InputsOf(r)} = current[r].inputs
  <2>1. InputsOf(r) = {New(t) : t \in current[r].inputs}
    BY DEF InputsOf
  <2>2. \A t \in current[r].inputs : Old(New(t)) = t
    BY <1>2
  <2> HIDE DEF New, Old
  <2> QED
    BY <2>1, <2>2
<1>8. {OldOut(p) : p \in OutputsOf(r)} = current[r].outputs
  <2>1. OutputsOf(r) = {NewOut(t) : t \in current[r].outputs}
    BY DEF OutputsOf
  <2>2. \A t \in current[r].outputs : OldOut(NewOut(t)) = t
    BY <1>2
  <2> HIDE DEF NewOut, OldOut
  <2> QED
    BY <2>1, <2>2
<1>9. \A i \in InputsOf(r) : i.required => i.exposed
  BY DEF InputsOf
<1> QED
  BY <1>1, <1>3, <1>4, <1>5, <1>6, <1>7, <1>8, <1>9

LEMMA AddOperatorKeepsInv ==
    ASSUME EditingInv, NEW op \in Operators, NEW r \in RevisionNumbers, AddOperator(op, r)
    PROVE  EditingInv' /\ Matches(stored', op, current[r])
<1> DEFINE c == [seen EXCEPT !.ops = @ \cup {op}, !.ins[op] = InputsOf(r), !.outs[op] = OutputsOf(r)]
<1>1. /\ op \notin seen.ops /\ Put(c) /\ uses' = [uses EXCEPT ![op] = r]
      /\ drafts' = IF r > published THEN drafts \cup {op} ELSE drafts
      /\ UNCHANGED <<current, published, deprecated>>
  BY DEF AddOperator
<1>2. /\ WellFormed(seen) /\ seen.ops = stored.ops /\ seen.ops \subseteq Operators
      /\ \A o \in seen.ops : MarksHold(seen, o, uses[o], drafts)
  BY SeenFacts, ContentFields DEF WellFormed
<1>3. /\ c \in Contents /\ c.ops = seen.ops \cup {op}
      /\ c.ins[op] = InputsOf(r) /\ c.outs[op] = OutputsOf(r)
      /\ \A o \in Operators \ {op} : c.ins[o] = seen.ins[o] /\ c.outs[o] = seen.outs[o]
      /\ c.constants = seen.constants
      /\ c.links = seen.links /\ c.inputs = seen.inputs /\ c.outputs = seen.outputs
  BY <1>2, RevisionConnectors DEF WellFormed, Contents
<1> HIDE DEF c
<1>4. WellFormed(c)
  <2>1. \A o \in Operators \ {op} : o \in c.ops <=> o \in seen.ops
    BY <1>3
  <2>2. op \in c.ops
    BY <1>3
  <2>3. /\ \A i, j \in c.ins[op] : i.id[1] = j.id[1] => i = j
        /\ \A p, q \in c.outs[op] : p.id[1] = q.id[1] => p = q
        /\ \A i \in c.ins[op], p \in c.outs[op] : i.id[1] # p.id[1]
    BY <1>3, RevisionConnectors
  <2> QED
    BY <1>2, <1>3, <2>1, <2>2, <2>3, OperatorEdited
<1>5. uses' \in [Operators -> 0 .. Len(Revisions)] /\ drafts' \in SUBSET c.ops
  BY <1>1, <1>2, <1>3 DEF EditingInv, RevisionNumbers
<1>6. Matches(c, op, current[r])
  BY <1>3, RevisionConnectors, Zenon DEF Matches
<1>7. ASSUME NEW o \in c.ops PROVE MarksHold(c, o, uses'[o], drafts')
  <2>1. o \in Operators
    BY <1>2, <1>3
  <2>2. CASE o = op
    <3>1. uses'[o] = r /\ r # 0 /\ (r > published => o \in drafts')
      BY <1>1, <2>2 DEF EditingInv, RevisionNumbers
    <3>2. \A i \in c.ins[op] : i.required => i.exposed
      BY <1>3, RevisionConnectors
    <3> QED
      BY <3>1, <3>2, <1>6, <2>2 DEF MarksHold
  <2>3. CASE o # op
    <3>1. uses'[o] = uses[o] /\ o \in seen.ops /\ (o \in drafts' <=> o \in drafts)
      BY <1>1, <1>3, <2>1, <2>3 DEF EditingInv
    <3>2. MarksHold(seen, o, uses[o], drafts) /\ c.ins[o] = seen.ins[o] /\ c.outs[o] = seen.outs[o]
      BY <1>2, <1>3, <2>1, <2>3, <3>1
    <3>3. MarksHold(c, o, uses[o], drafts)
      BY <3>2, Zenon DEF MarksHold, Matches
    <3> QED
      BY <3>1, <3>3 DEF MarksHold
  <2> QED
    BY <2>2, <2>3
<1>8. stored'.ins = c.ins /\ stored'.outs = c.outs
  BY <1>1, <1>3, ValidatedFields DEF Put, Write
<1>9. Matches(stored', op, current[r])
  BY <1>6, <1>8, Zenon DEF Matches
<1> QED
  BY <1>1, <1>3, <1>4, <1>5, <1>7, <1>9, PutKeepsInv

LEMMA RemoveOperatorKeepsInv ==
    ASSUME EditingInv, NEW op \in Operators, RemoveOperator(op)
    PROVE  EditingInv'
<1> DEFINE c == [seen EXCEPT !.ops = @ \ {op}, !.ins[op] = {}, !.outs[op] = {},
                             !.constants = {const \in @ : const.at[1] # op}]
<1>1. /\ Put(c) /\ uses' = [uses EXCEPT ![op] = 0]
      /\ drafts' = drafts \ {op} /\ UNCHANGED <<current, published, deprecated>>
  BY DEF RemoveOperator
<1>2. /\ WellFormed(seen) /\ seen.ops = stored.ops /\ seen.ops \subseteq Operators
      /\ \A o \in seen.ops : MarksHold(seen, o, uses[o], drafts)
  BY SeenFacts, ContentFields DEF WellFormed
<1>3. /\ c \in Contents /\ c.ops = seen.ops \ {op} /\ c.ins[op] = {} /\ c.outs[op] = {}
      /\ \A o \in Operators \ {op} : c.ins[o] = seen.ins[o] /\ c.outs[o] = seen.outs[o]
      /\ c.constants \subseteq seen.constants
      /\ c.links = seen.links /\ c.inputs = seen.inputs /\ c.outputs = seen.outputs
  BY <1>2 DEF WellFormed, Contents
<1> HIDE DEF c
<1>4. WellFormed(c)
  <2>1. \A o \in Operators \ {op} : o \in c.ops <=> o \in seen.ops
    BY <1>3
  <2> QED
    BY <1>2, <1>3, <2>1, OperatorEdited
<1>5. uses' \in [Operators -> 0 .. Len(Revisions)] /\ drafts' \in SUBSET c.ops
  BY <1>1, <1>2, <1>3, RevisionsAssumption DEF EditingInv
<1>6. ASSUME NEW o \in c.ops PROVE MarksHold(c, o, uses'[o], drafts')
  <2>1. o \in Operators \ {op} /\ o \in seen.ops /\ uses'[o] = uses[o]
        /\ (o \in drafts' <=> o \in drafts)
    BY <1>1, <1>2, <1>3 DEF EditingInv
  <2>2. MarksHold(seen, o, uses[o], drafts) /\ c.ins[o] = seen.ins[o] /\ c.outs[o] = seen.outs[o]
    BY <1>2, <1>3, <2>1
  <2>3. MarksHold(c, o, uses[o], drafts)
    BY <2>2, Zenon DEF MarksHold, Matches
  <2> QED
    BY <2>1, <2>3 DEF MarksHold
<1> QED
  BY <1>1, <1>3, <1>4, <1>5, <1>6, PutKeepsInv

\* Edits that leave the operators and their connectors alone.
LEMMA ContentEdited ==
    ASSUME EditingInv, NEW c, WellFormed(c), Put(c), c.ops = seen.ops,
           c.ins = seen.ins, c.outs = seen.outs,
           UNCHANGED <<current, uses, drafts, published, deprecated>>
    PROVE  EditingInv'
<1>1. \A o \in c.ops : MarksHold(c, o, uses'[o], drafts')
  <2>1. \A o \in c.ops : MarksHold(c, o, uses[o], drafts)
    BY SeenFacts, Zenon DEF MarksHold, Matches
  <2> QED
    BY <2>1
<1>2. uses' \in [Operators -> 0 .. Len(Revisions)] /\ drafts' \in SUBSET c.ops
  BY SeenFacts DEF EditingInv
<1> QED
  BY <1>1, <1>2, PutKeepsInv

LEMMA DrawLinkKeepsInv ==
    ASSUME EditingInv, NEW a \in Operators, NEW b \in Operators, DrawLink(a, b)
    PROVE  EditingInv'
<1>1. PICK o \in seen.outs[a], i \in OpenInputs(b) :
         Put([seen EXCEPT !.links = @ \cup {[from |-> Vertex(a, <<a, o.id>>, o.dt),
                                             to |-> Vertex(b, <<b, i.id>>, i.dt)]}])
  BY DEF DrawLink
<1> DEFINE k == [from |-> Vertex(a, <<a, o.id>>, o.dt), to |-> Vertex(b, <<b, i.id>>, i.dt)]
           c == [seen EXCEPT !.links = @ \cup {k}]
<1>2. /\ WellFormed(seen) /\ seen \in Contents /\ NoOperator \notin Operators
      /\ o \in OperatorOutputs /\ i \in seen.ins[b] /\ i \in OperatorInputs
  BY SeenFacts, ContentFields, ContentAssumption DEF WellFormed, OpenInputs
<1>3. /\ k \in LinkSpace /\ k.from.op = a /\ k.from.at = <<a, o.id>>
      /\ k.to.op = b /\ k.to.at = <<b, i.id>>
  BY <1>2 DEF LinkSpace, Vertices, Vertex, OperatorInputs, OperatorOutputs
<1>4. \A const \in seen.constants : const.at # <<b, i.id>>
  BY <1>2 DEF OpenInputs, ShownConstants, InputAt
<1>5. \A l \in seen.links : Inner(l) => l.to.at # <<b, i.id>>
  BY <1>4 DEF OpenInputs, DrawnLinks, ShownConstants, Inner
<1>6. /\ c \in Contents /\ c.links = seen.links \cup {k} /\ c.ops = seen.ops /\ c.ins = seen.ins
      /\ c.outs = seen.outs /\ c.inputs = seen.inputs /\ c.outputs = seen.outputs
      /\ c.constants = seen.constants
  BY <1>2, <1>3 DEF Contents
<1>7. Put(c)
  BY <1>1
<1> HIDE DEF c, k
<1>8. EndsBelong(c)
  BY <1>2, <1>3, <1>6 DEF WellFormed, EndsBelong, Inner
<1>9. SingleSources(c)
  <2>1. \A l, m \in c.links : Inner(l) /\ Inner(m) /\ l.to.at = m.to.at => l = m
    BY <1>2, <1>3, <1>5, <1>6 DEF WellFormed, SingleSources
  <2>2. \A const \in c.constants : \A l \in c.links : Inner(l) => l.to.at # const.at
    BY <1>2, <1>3, <1>4, <1>6 DEF WellFormed, SingleSources
  <2> QED
    BY <1>2, <1>6, <2>1, <2>2 DEF WellFormed, SingleSources
<1>10. ConnectorsNamed(c)
  BY <1>2, <1>6 DEF WellFormed, ConnectorsNamed
<1>11. UNCHANGED <<current, uses, drafts, published, deprecated>>
  BY DEF DrawLink
<1> QED
  BY <1>6, <1>7, <1>8, <1>9, <1>10, <1>11, ContentEdited DEF WellFormed

LEMMA RemoveLinkKeepsInv ==
    ASSUME EditingInv, RemoveLink
    PROVE  EditingInv'
<1>1. PICK k : Put([seen EXCEPT !.links = @ \ {k}])
  BY DEF RemoveLink
<1> DEFINE c == [seen EXCEPT !.links = @ \ {k}]
<1>2. WellFormed(seen) /\ seen \in Contents
  BY SeenFacts DEF WellFormed
<1>3. /\ c \in Contents /\ c.links \subseteq seen.links /\ c.ops = seen.ops /\ c.ins = seen.ins
      /\ c.outs = seen.outs /\ c.inputs = seen.inputs /\ c.outputs = seen.outputs
      /\ c.constants = seen.constants
  BY <1>2 DEF Contents
<1>4. Put(c)
  BY <1>1
<1> HIDE DEF c
<1>5. WellFormed(c)
  BY <1>2, <1>3 DEF WellFormed, EndsBelong, SingleSources, ConnectorsNamed
<1>6. UNCHANGED <<current, uses, drafts, published, deprecated>>
  BY DEF RemoveLink
<1> QED
  BY <1>3, <1>4, <1>5, <1>6, ContentEdited

LEMMA ShowOptionalKeepsInv ==
    ASSUME EditingInv, NEW op \in Operators, ShowOptional(op)
    PROVE  EditingInv'
<1>1. PICK i \in seen.ins[op] :
         /\ ~i.required
         /\ Put([seen EXCEPT !.ins[op] = (@ \ {i}) \cup {[i EXCEPT !.exposed = ~i.exposed]},
                             !.inputs = {IF io.at = <<op, i.id>> /\ i.exposed
                                         THEN [io EXCEPT !.named = FALSE] ELSE io : io \in @}])
  BY DEF ShowOptional
<1> DEFINE j == [i EXCEPT !.exposed = ~i.exposed]
           Now(io) == IF io.at = <<op, i.id>> /\ i.exposed THEN [io EXCEPT !.named = FALSE] ELSE io
           c == [seen EXCEPT !.ins[op] = (@ \ {i}) \cup {j}, !.inputs = {Now(io) : io \in @}]
<1>2. /\ WellFormed(seen) /\ seen \in Contents /\ op \in seen.ops
      /\ i \in OperatorInputs
      /\ \A o \in seen.ops : MarksHold(seen, o, uses[o], drafts)
  BY <1>1, SeenFacts, ContentFields DEF WellFormed, ConnectorsNamed
<1>3. /\ j \in OperatorInputs /\ j.id = i.id /\ j.dt = i.dt /\ j.required = i.required /\ ~j.required
  BY <1>1, <1>2 DEF OperatorInputs
<1>4. \A io \in seen.inputs : Now(io) \in ContentIOs /\ Now(io).at = io.at
  BY <1>2 DEF Contents, ContentIOs
<1>5. Put(c)
  BY <1>1
<1> HIDE DEF j, Now
<1>6. /\ c \in Contents /\ c.ops = seen.ops /\ c.ins[op] = (seen.ins[op] \ {i}) \cup {j}
      /\ c.outs = seen.outs /\ c.links = seen.links
      /\ \A o \in Operators \ {op} : c.ins[o] = seen.ins[o]
      /\ c.inputs = {Now(io) : io \in seen.inputs} /\ c.outputs = seen.outputs
      /\ c.constants = seen.constants
  <2> DEFINE ins == (seen.ins[op] \ {i}) \cup {j}
             inputs == {Now(io) : io \in seen.inputs}
  <2>1. ins \in SUBSET OperatorInputs /\ inputs \in SUBSET ContentIOs
    BY <1>2, <1>3, <1>4, ContentFields
  <2>2. c = [seen EXCEPT !.ins[op] = ins, !.inputs = inputs]
    BY <1>2 DEF Contents
  <2> HIDE DEF c, ins, inputs
  <2>3. c \in Contents
    BY <2>1, <2>2, <1>2 DEF Contents
  <2>4. /\ c.ops = seen.ops /\ c.outs = seen.outs /\ c.links = seen.links
        /\ c.outputs = seen.outputs /\ c.constants = seen.constants
    BY <2>2, <1>2 DEF Contents
  <2>5. c.inputs = inputs
    BY <2>2, <1>2 DEF Contents
  <2>6. c.ins[op] = ins /\ \A o \in Operators \ {op} : c.ins[o] = seen.ins[o]
    BY <2>2, <1>2 DEF Contents
  <2> QED
    BY <2>3, <2>4, <2>5, <2>6 DEF ins, inputs
<1> HIDE DEF c
<1>7. EndsBelong(c)
  BY <1>2, <1>6 DEF WellFormed, EndsBelong
<1>8. SingleSources(c)
  <2>1. \A x, y \in c.inputs : x.at = y.at => x = y
    BY <1>2, <1>4, <1>6 DEF WellFormed, SingleSources
  <2>2. \A const \in c.constants : \A io \in c.inputs : io.at # const.at
    BY <1>2, <1>4, <1>6 DEF WellFormed, SingleSources
  <2> QED
    BY <1>2, <1>6, <2>1, <2>2 DEF WellFormed, SingleSources
<1>9. ConnectorsNamed(c)
  <2> SUFFICES ASSUME NEW o \in Operators
               PROVE  /\ \A x, y \in c.ins[o] : x.id[1] = y.id[1] => x = y
                      /\ \A p, q \in c.outs[o] : p.id[1] = q.id[1] => p = q
                      /\ \A x \in c.ins[o], p \in c.outs[o] : x.id[1] # p.id[1]
                      /\ o \notin c.ops => c.ins[o] = {} /\ c.outs[o] = {}
    BY DEF ConnectorsNamed
  <2>1. CASE o = op
    BY <1>2, <1>3, <1>6, <2>1 DEF WellFormed, ConnectorsNamed
  <2>2. CASE o # op
    BY <1>2, <1>6, <2>2 DEF WellFormed, ConnectorsNamed
  <2> QED
    BY <2>1, <2>2
<1>10. ASSUME NEW o \in c.ops PROVE MarksHold(c, o, uses[o], drafts)
  <2>1. o \in Operators /\ MarksHold(seen, o, uses[o], drafts)
    BY <1>2, <1>6, ContentFields
  <2> DEFINE Old(x) == [name |-> x.id[1], dt |-> x.dt, required |-> x.required]
  <2>2. {Old(x) : x \in c.ins[o]} = {Old(x) : x \in seen.ins[o]}
    <3>1. CASE o = op
      <4>1. Old(j) = Old(i)
        BY <1>3
      <4> HIDE DEF Old
      <4> QED
        BY <1>6, <3>1, <4>1
    <3>2. CASE o # op
      BY <1>6, <2>1, <3>2
    <3> QED
      BY <3>1, <3>2
  <2>3. \A x \in c.ins[o] : x.required => x.exposed
    BY <1>3, <1>6, <2>1 DEF MarksHold
  <2>4. \A rev : Matches(seen, o, rev) => Matches(c, o, rev)
    BY <1>6, <2>2, <2>3, Zenon DEF Matches
  <2> HIDE DEF Old
  <2> QED
    BY <2>1, <2>3, <2>4 DEF MarksHold
<1>11. UNCHANGED <<current, uses, drafts, published, deprecated>>
  BY DEF ShowOptional
<1>12. uses' \in [Operators -> 0 .. Len(Revisions)] /\ drafts' \in SUBSET c.ops
  BY <1>6, <1>11, SeenFacts DEF EditingInv
<1> QED
  BY <1>5, <1>6, <1>7, <1>8, <1>9, <1>10, <1>11, <1>12, PutKeepsInv DEF WellFormed


\* The dialog may change items as long as each connector keeps one.
LEMMA ConfigureKeepsInv ==
    ASSUME EditingInv,
           NEW inputs \in SUBSET ContentIOs, NEW outputs \in SUBSET ContentIOs,
           NEW constants \in SUBSET Constants,
           \A x, y \in inputs : x.at = y.at => x = y,
           \A x, y \in outputs : x.at = y.at => x = y,
           \A x, y \in constants : x.at = y.at => x = y,
           \A const \in constants : \A io \in inputs : io.at # const.at,
           \A const \in constants : \A l \in seen.links : Inner(l) => l.to.at # const.at,
           Configure(inputs, outputs, constants)
    PROVE  EditingInv'
<1> DEFINE links == DialogLinks(inputs, outputs, constants)
           c == [seen EXCEPT !.inputs = inputs, !.outputs = outputs, !.constants = constants,
                             !.links = links]
<1>1. Put(c) /\ UNCHANGED <<current, uses, drafts, published, deprecated>>
  BY DEF Configure
<1>2. WellFormed(seen) /\ seen \in Contents /\ NoOperator \notin Operators
  BY SeenFacts, ContentAssumption DEF WellFormed
<1>3. \A l \in links :
         \/ l \in seen.links /\ Inner(l)
         \/ \E io \in inputs \cup constants :
               l = [from |-> Vertex(NoOperator, io.at, io.dt), to |-> Vertex(io.at[1], io.at, io.dt)]
         \/ \E io \in outputs :
               l = [from |-> Vertex(io.at[1], io.at, io.dt), to |-> Vertex(NoOperator, io.at, io.dt)]
  BY DEF DialogLinks, Inner
<1> HIDE DEF links
<1>4. \A io \in inputs \cup outputs \cup constants :
         io.at \in Operators \X ConnectorIds /\ io.dt \in DataTypes /\ io.at[1] \in Operators
  BY DEF ContentIOs, Constants
<1>5. \A l \in links :
         /\ l \in LinkSpace
         /\ \/ l \in seen.links /\ Inner(l)
            \/ ~Inner(l) /\ l.from.op = NoOperator /\ l.from.at = l.to.at
               /\ l.to.op = l.to.at[1] /\ l.to.op # NoOperator
            \/ ~Inner(l) /\ l.to.op = NoOperator /\ l.from.at = l.to.at
               /\ l.from.op = l.from.at[1] /\ l.from.op # NoOperator
  <2> SUFFICES ASSUME NEW l \in links
               PROVE  /\ l \in LinkSpace
                      /\ \/ l \in seen.links /\ Inner(l)
                         \/ ~Inner(l) /\ l.from.op = NoOperator /\ l.from.at = l.to.at
                            /\ l.to.op = l.to.at[1] /\ l.to.op # NoOperator
                         \/ ~Inner(l) /\ l.to.op = NoOperator /\ l.from.at = l.to.at
                            /\ l.from.op = l.from.at[1] /\ l.from.op # NoOperator
    OBVIOUS
  <2>1. CASE l \in seen.links /\ Inner(l)
    BY <2>1, <1>2, ContentFields
  <2>2. ASSUME NEW io \in inputs \cup constants,
               l = [from |-> Vertex(NoOperator, io.at, io.dt), to |-> Vertex(io.at[1], io.at, io.dt)]
        PROVE  l \in LinkSpace /\ ~Inner(l) /\ l.from.op = NoOperator /\ l.from.at = l.to.at
               /\ l.to.op = l.to.at[1] /\ l.to.op # NoOperator
    BY <2>2, <1>2, <1>4 DEF LinkSpace, Vertices, Vertex, Inner
  <2>3. ASSUME NEW io \in outputs,
               l = [from |-> Vertex(io.at[1], io.at, io.dt), to |-> Vertex(NoOperator, io.at, io.dt)]
        PROVE  l \in LinkSpace /\ ~Inner(l) /\ l.to.op = NoOperator /\ l.from.at = l.to.at
               /\ l.from.op = l.from.at[1] /\ l.from.op # NoOperator
    BY <2>3, <1>2, <1>4 DEF LinkSpace, Vertices, Vertex, Inner
  <2> QED
    BY <1>3, <2>1, <2>2, <2>3
<1>6. /\ c \in Contents /\ c.links = links /\ c.ops = seen.ops /\ c.ins = seen.ins
      /\ c.outs = seen.outs /\ c.inputs = inputs /\ c.outputs = outputs /\ c.constants = constants
  BY <1>2, <1>5 DEF Contents
<1> HIDE DEF c
<1>7. EndsBelong(c)
  BY <1>2, <1>5, <1>6 DEF WellFormed, EndsBelong, Inner
<1>8. SingleSources(c)
  BY <1>2, <1>5, <1>6 DEF WellFormed, SingleSources
<1>9. ConnectorsNamed(c)
  BY <1>2, <1>6 DEF WellFormed, ConnectorsNamed
<1> QED
  BY <1>1, <1>6, <1>7, <1>8, <1>9, ContentEdited DEF WellFormed

\* What the dialog starts from.
LEMMA DialogFacts ==
    ASSUME EditingInv
    PROVE  /\ seen.inputs \subseteq ContentIOs /\ seen.outputs \subseteq ContentIOs
           /\ seen.constants \subseteq Constants
           /\ \A x, y \in seen.inputs : x.at = y.at => x = y
           /\ \A x, y \in seen.outputs : x.at = y.at => x = y
           /\ \A x, y \in seen.constants : x.at = y.at => x = y
           /\ \A const \in seen.constants : \A io \in seen.inputs : io.at # const.at
           /\ \A const \in seen.constants : \A l \in seen.links : Inner(l) => l.to.at # const.at
           /\ \A io \in seen.inputs : \A l \in seen.links : Inner(l) => l.to.at # io.at
BY SeenFacts, ContentFields DEF WellFormed, SingleSources

LEMMA NameInputKeepsInv ==
    ASSUME EditingInv, NameInput
    PROVE  EditingInv'
<1>1. PICK io \in seen.inputs :
         Configure(Swapped(seen.inputs, io, [io EXCEPT !.named = ~@]), seen.outputs, seen.constants)
  BY DEF NameInput
<1> DEFINE new == [io EXCEPT !.named = ~@]
           inputs == Swapped(seen.inputs, io, new)
<1>2. new \in ContentIOs /\ new.at = io.at
  <2>1. io \in ContentIOs
    BY DialogFacts
  <2> QED
    BY <2>1 DEF ContentIOs
<1>3. Configure(inputs, seen.outputs, seen.constants)
  BY <1>1
<1> HIDE DEF new
<1>4. inputs = (seen.inputs \ {io}) \cup {new}
  BY DEF Swapped
<1> HIDE DEF inputs
<1>5. /\ inputs \in SUBSET ContentIOs /\ \A x, y \in inputs : x.at = y.at => x = y
      /\ \A const \in seen.constants : \A x \in inputs : x.at # const.at
  BY <1>2, <1>4, DialogFacts
<1> QED
  BY <1>3, <1>5, DialogFacts, ConfigureKeepsInv

LEMMA NameOutputKeepsInv ==
    ASSUME EditingInv, NameOutput
    PROVE  EditingInv'
<1>1. PICK io \in seen.outputs :
         Configure(seen.inputs, Swapped(seen.outputs, io, [io EXCEPT !.named = ~@]), seen.constants)
  BY DEF NameOutput
<1> DEFINE new == [io EXCEPT !.named = ~@]
           outputs == Swapped(seen.outputs, io, new)
<1>2. new \in ContentIOs /\ new.at = io.at
  <2>1. io \in ContentIOs
    BY DialogFacts
  <2> QED
    BY <2>1 DEF ContentIOs
<1>3. Configure(seen.inputs, outputs, seen.constants)
  BY <1>1
<1> HIDE DEF new
<1>4. outputs = (seen.outputs \ {io}) \cup {new}
  BY DEF Swapped
<1> HIDE DEF outputs
<1>5. outputs \in SUBSET ContentIOs /\ \A x, y \in outputs : x.at = y.at => x = y
  BY <1>2, <1>4, DialogFacts
<1> QED
  BY <1>3, <1>5, DialogFacts, ConfigureKeepsInv

LEMMA FixInputKeepsInv ==
    ASSUME EditingInv, FixInput
    PROVE  EditingInv'
<1>1. PICK io \in seen.inputs :
         Configure(seen.inputs \ {io}, seen.outputs,
                   seen.constants \cup {[at |-> io.at, dt |-> io.dt]})
  BY DEF FixInput
<1> DEFINE const == [at |-> io.at, dt |-> io.dt]
           inputs == seen.inputs \ {io}
           constants == seen.constants \cup {const}
<1>2. const \in Constants /\ const.at = io.at
  BY DialogFacts DEF ContentIOs, Constants
<1> HIDE DEF const
<1>3. /\ inputs \in SUBSET ContentIOs /\ constants \in SUBSET Constants
      /\ \A x, y \in inputs : x.at = y.at => x = y
      /\ \A x, y \in constants : x.at = y.at => x = y
      /\ \A x \in constants : \A y \in inputs : y.at # x.at
      /\ \A x \in constants : \A l \in seen.links : Inner(l) => l.to.at # x.at
  BY <1>2, DialogFacts
<1>4. Configure(inputs, seen.outputs, constants)
  BY <1>1 DEF const
<1> HIDE DEF inputs, constants
<1> QED
  BY <1>3, <1>4, DialogFacts, ConfigureKeepsInv

LEMMA ReleaseInputKeepsInv ==
    ASSUME EditingInv, ReleaseInput
    PROVE  EditingInv'
<1>1. PICK const \in seen.constants :
         Configure(seen.inputs \cup {Unnamed(const)}, seen.outputs, seen.constants \ {const})
  BY DEF ReleaseInput
<1> DEFINE inputs == seen.inputs \cup {Unnamed(const)}
           constants == seen.constants \ {const}
<1>2. Unnamed(const) \in ContentIOs /\ Unnamed(const).at = const.at
  BY DialogFacts DEF Unnamed, ContentIOs, Constants
<1>3. /\ inputs \in SUBSET ContentIOs /\ constants \in SUBSET Constants
      /\ \A x, y \in inputs : x.at = y.at => x = y
      /\ \A x, y \in constants : x.at = y.at => x = y
      /\ \A x \in constants : \A y \in inputs : y.at # x.at
      /\ \A x \in constants : \A l \in seen.links : Inner(l) => l.to.at # x.at
  BY <1>2, DialogFacts
<1>4. Configure(inputs, seen.outputs, constants)
  BY <1>1
<1> HIDE DEF inputs, constants
<1> QED
  BY <1>3, <1>4, DialogFacts, ConfigureKeepsInv

-----------------------------------------------------------------------------
(* Revisions and upgrades.                                                 *)

LEMMA PublishKeepsInv ==
    ASSUME EditingInv, Publish
    PROVE  EditingInv'
<1>1. PICK others \in {deprecated, 1 .. published} :
         /\ published < Len(Revisions) /\ published' = published + 1 /\ deprecated' = others
         /\ drafts' = {o \in drafts : uses[o] \notin others}
         /\ UNCHANGED <<stored, interface, current, uses>>
  BY DEF Publish
<1>2. published \in 0 .. Len(Revisions) /\ deprecated \in SUBSET (1 .. published) /\ Len(Revisions) \in Nat
  BY RevisionsAssumption DEF EditingInv
<1>3. /\ published' \in 0 .. Len(Revisions) /\ deprecated' \in SUBSET (1 .. published')
      /\ others \subseteq 1 .. published /\ deprecated \subseteq others
  BY <1>1, <1>2
<1>4. /\ (WellFormed(stored) /\ OneKindOfTarget(stored) /\ interface = InterfaceOf(stored))'
      /\ (uses \in [Operators -> 0 .. Len(Revisions)])' /\ drafts' \in SUBSET stored'.ops
      /\ (current \in [RevisionNumbers -> Shapes])'
  BY <1>1 DEF EditingInv
<1>5. ASSUME NEW o \in stored.ops PROVE MarksHold(stored, o, uses[o], drafts)'
  <2>1. MarksHold(stored, o, uses[o], drafts) /\ uses[o] \in 0 .. Len(Revisions)
    BY ContentFields DEF EditingInv, WellFormed
  <2>2. uses[o] > published' => o \in drafts'
    BY <2>1, <1>1, <1>2, <1>3 DEF MarksHold
  <2>3. o \notin drafts' /\ uses[o] \notin deprecated' => o \notin drafts /\ uses[o] \notin deprecated
    BY <1>1, <1>3
  <2> QED
    BY <2>1, <2>2, <2>3, <1>1 DEF MarksHold
<1> QED
  BY <1>1, <1>3, <1>4, <1>5 DEF EditingInv

\* Operators of a draft that is edited are marked as a draft's.
LEMMA EditDraftKeepsInv ==
    ASSUME EditingInv, NEW r \in RevisionNumbers, EditDraft(r)
    PROVE  EditingInv'
<1>1. PICK rev \in Revisions[r] : current' = [current EXCEPT ![r] = rev]
  BY DEF EditDraft
<1>2. r > published /\ UNCHANGED <<stored, interface, uses, drafts, published, deprecated>>
  BY DEF EditDraft
<1>3. rev \in Shapes
  BY <1>1 DEF Shapes, RevisionNumbers
<1>4. current' \in [RevisionNumbers -> Shapes] /\ \A n \in RevisionNumbers \ {r} : current'[n] = current[n]
  BY <1>1, <1>3 DEF EditingInv
<1>5. ASSUME NEW o \in stored.ops PROVE MarksHold(stored, o, uses[o], drafts)'
  <2>1. MarksHold(stored, o, uses[o], drafts) /\ uses[o] \in 0 .. Len(Revisions)
    BY ContentFields DEF EditingInv, WellFormed
  <2>2. uses[o] \in RevisionNumbers
    BY <2>1, RevisionsAssumption DEF MarksHold, RevisionNumbers
  <2>3. CASE uses[o] = r
    BY <2>1, <2>3, <1>2 DEF MarksHold
  <2>4. CASE uses[o] # r
    BY <2>1, <2>2, <2>4, <1>2, <1>4 DEF MarksHold
  <2> QED
    BY <2>3, <2>4
<1> QED
  BY <1>2, <1>4, <1>5 DEF EditingInv


LEMMA LeastNumber ==
    ASSUME NEW T, T \subseteq Nat, T # {}
    PROVE  \E n \in T : \A m \in T : n <= m
<1>1. PICK R : IsWellFoundedOn(R, Nat) /\ \A y, x \in Nat : y < x => <<y, x>> \in R
  <2>1. \A y, x \in Nat : y < x => <<y, x>> \in OpToRel(<, Nat)
    BY DEF OpToRel
  <2> QED
    BY <2>1, NatLessThanWellFounded, Zenon
<1>2. PICK x \in T : \A y \in T : ~ (<<y, x>> \in R)
  <2>1. IsWellFoundedOn(R, Nat) /\ T \subseteq Nat /\ T # {}
    BY <1>1
  <2>2. \E x \in T : \A y \in T : ~ (<<y, x>> \in R)
    BY <2>1, WFMin, Zenon
  <2> QED
    BY <2>2
<1>3. ASSUME NEW y \in T PROVE x <= y
  <2>1. x \in Nat /\ y \in Nat
    OBVIOUS
  <2>2. ~ (y < x)
    BY <2>1, <1>1, <1>2
  <2> QED
    BY <2>1, <2>2
<1> QED
  BY <1>3

\* The interface of a revision tells its inputs and outputs apart by their names.
NamesFit(rev) ==
    /\ rev \in Interfaces
    /\ \A s, t \in rev.inputs : s.name = t.name => s = t
    /\ \A s, t \in rev.outputs : s.name = t.name => s = t
    /\ \A s \in rev.inputs, t \in rev.outputs : s.name # t.name

LEMMA RevisionNamesFit ==
    ASSUME EditingInv, NEW r \in RevisionNumbers
    PROVE  NamesFit(current[r])
<1>1. current[r] \in Shapes /\ current[r] \in Interfaces
  BY ShapesAreInterfaces DEF EditingInv
<1> QED
  BY <1>1, NamesAssumption DEF NamesFit

\* A new connector of an operator has the name it was made for, and nothing in the
\* content refers to it.
LEMMA NewIdIsFree ==
    ASSUME NEW c, NEW op, NEW name \in Names, FreeUuids(c, op, name) # {}
    PROVE  /\ NewId(c, op, name) \in ConnectorIds /\ NewId(c, op, name)[1] = name
           /\ NewId(c, op, name) \notin Mentioned(c, op)
<1> DEFINE F == FreeUuids(c, op, name)
<1>1. \E k \in F : \A j \in F : k <= j
  <2>1. F \subseteq Nat
    BY ContentAssumption DEF FreeUuids
  <2> HIDE DEF F
  <2> QED
    BY <2>1, LeastNumber DEF F
<1>2. PICK k \in F : NewId(c, op, name) = <<name, k>>
  BY <1>1 DEF NewId
<1>3. k \in 1 .. MaxUuid /\ <<name, k>> \notin Mentioned(c, op)
  BY <1>2 DEF FreeUuids
<1> QED
  BY <1>2, <1>3 DEF ConnectorIds

\* What a connector of operator op has in the content, as far as an unmentioned one matters.
LEMMA MentionedFacts ==
    ASSUME NEW c, NEW op, NEW id, id \notin Mentioned(c, op)
    PROVE  /\ \A i \in c.ins[op] : i.id # id
           /\ \A p \in c.outs[op] : p.id # id
           /\ \A io \in c.inputs \cup c.outputs : io.at # <<op, id>>
           /\ \A const \in c.constants : const.at # <<op, id>>
<1>1. /\ \A i \in c.ins[op] \cup c.outs[op] : i.id # id
      /\ \A io \in c.inputs \cup c.outputs : io.at[1] = op => io.at[2] # id
      /\ \A const \in c.constants : const.at[1] = op => const.at[2] # id
  BY DEF Mentioned
<1> QED
  BY <1>1

-----------------------------------------------------------------------------
(* The upgrade of one operator.                                            *)

\* The connectors of the upgraded operator are either kept or new.
KeptFrom(i, t, j) ==
    /\ t.name = i.id[1] /\ StillFits(i.dt, t.dt)
    /\ j.id = i.id /\ j.dt = t.dt /\ j.required = t.required
    /\ (j.exposed <=> i.exposed \/ t.required # i.required)

NewFrom(c, op, t, j) ==
    j.id = NewId(c, op, t.name) /\ j.dt = t.dt /\ j.required = t.required /\ (j.exposed <=> t.required)

KeptOutFrom(p, t, q) ==
    t.name = p.id[1] /\ StillFits(p.dt, t.dt) /\ q.id = p.id /\ q.dt = t.dt

NewOutFrom(c, op, t, q) == q.id = NewId(c, op, t.name) /\ q.dt = t.dt

LEMMA KeptOperatorInputsAre ==
    ASSUME NEW c \in Contents, NEW op \in Operators, NEW rev, NamesFit(rev)
    PROVE  /\ KeptOperatorInputs(c, op, rev) \subseteq OperatorInputs
           /\ \A j \in KeptOperatorInputs(c, op, rev) :
                 \E i \in c.ins[op] : \E t \in rev.inputs : KeptFrom(i, t, j)
           /\ \A i \in c.ins[op], t \in rev.inputs :
                 t.name = i.id[1] /\ StillFits(i.dt, t.dt) =>
                   KeptIn(i, t) \in KeptOperatorInputs(c, op, rev) /\ KeptFrom(i, t, KeptIn(i, t))
<1>1. c.ins[op] \subseteq OperatorInputs
      /\ rev.inputs \subseteq [name : Names, dt : DataTypes, required : BOOLEAN]
  BY ContentFields DEF NamesFit, Interfaces
<1>2. \A i \in c.ins[op], t \in rev.inputs :
         /\ KeptIn(i, t) \in OperatorInputs
         /\ KeptIn(i, t).id = i.id /\ KeptIn(i, t).dt = t.dt /\ KeptIn(i, t).required = t.required
         /\ KeptIn(i, t).exposed <=> i.exposed \/ t.required # i.required
  BY <1>1 DEF KeptIn, OperatorInputs
<1> DEFINE Fit(i) == {u \in rev.inputs : u.name = i.id[1] /\ StillFits(i.dt, u.dt)}
<1>3. KeptOperatorInputs(c, op, rev) = UNION {{KeptIn(i, t) : t \in Fit(i)} : i \in c.ins[op]}
  BY DEF KeptOperatorInputs
<1>4. \A i, t : t \in Fit(i) <=> t \in rev.inputs /\ t.name = i.id[1] /\ StillFits(i.dt, t.dt)
  OBVIOUS
<1> HIDE DEF Fit
<1>5. \A j : j \in KeptOperatorInputs(c, op, rev) <=>
         \E i \in c.ins[op] : \E t \in Fit(i) : j = KeptIn(i, t)
  BY <1>3
<1>6. \A j : j \in KeptOperatorInputs(c, op, rev) <=>
         \E i \in c.ins[op] : \E t \in rev.inputs :
            t.name = i.id[1] /\ StillFits(i.dt, t.dt) /\ j = KeptIn(i, t)
  BY <1>4, <1>5
<1> QED
  BY <1>2, <1>6 DEF KeptFrom

LEMMA NewOperatorInputsAre ==
    ASSUME NEW c \in Contents, NEW op \in Operators, NEW rev, NamesFit(rev), HasUuids(c, op, rev),
           NEW kept
    PROVE  /\ NewOperatorInputs(c, op, rev, kept) \subseteq OperatorInputs
           /\ \A j \in NewOperatorInputs(c, op, rev, kept) :
                 \E t \in rev.inputs : NewFrom(c, op, t, j) /\ \A i \in kept : i.id[1] # t.name
           /\ \A t \in rev.inputs : (\A i \in kept : i.id[1] # t.name) =>
                 \E j \in NewOperatorInputs(c, op, rev, kept) : NewFrom(c, op, t, j)
<1>1. rev.inputs \subseteq [name : Names, dt : DataTypes, required : BOOLEAN]
  BY DEF NamesFit, Interfaces
<1>2. \A t \in rev.inputs : NewId(c, op, t.name) \in ConnectorIds
  BY <1>1, NewIdIsFree DEF HasUuids
<1> DEFINE New(t) == [id |-> NewId(c, op, t.name), dt |-> t.dt, required |-> t.required,
                      exposed |-> t.required]
           Lacking == {u \in rev.inputs : \A i \in kept : i.id[1] # u.name}
<1>3. \A t \in rev.inputs : New(t) \in OperatorInputs /\ NewFrom(c, op, t, New(t))
  BY <1>1, <1>2 DEF NewFrom, OperatorInputs
<1>4. NewOperatorInputs(c, op, rev, kept) = {New(t) : t \in Lacking}
  BY DEF NewOperatorInputs
<1>5. \A t : t \in Lacking <=> t \in rev.inputs /\ \A i \in kept : i.id[1] # t.name
  OBVIOUS
<1> HIDE DEF New, Lacking
<1> QED
  BY <1>3, <1>4, <1>5

LEMMA KeptOperatorOutputsAre ==
    ASSUME NEW c \in Contents, NEW op \in Operators, NEW rev, NamesFit(rev)
    PROVE  /\ KeptOperatorOutputs(c, op, rev) \subseteq OperatorOutputs
           /\ \A q \in KeptOperatorOutputs(c, op, rev) :
                 \E p \in c.outs[op] : \E t \in rev.outputs : KeptOutFrom(p, t, q)
           /\ \A p \in c.outs[op], t \in rev.outputs :
                 t.name = p.id[1] /\ StillFits(p.dt, t.dt) =>
                   \E q \in KeptOperatorOutputs(c, op, rev) : KeptOutFrom(p, t, q)
<1>1. c.outs[op] \subseteq OperatorOutputs /\ rev.outputs \subseteq [name : Names, dt : DataTypes]
  BY ContentFields DEF NamesFit, Interfaces
<1> DEFINE Kept(p, t) == [p EXCEPT !.dt = t.dt]
<1>2. \A p \in c.outs[op], t \in rev.outputs :
         Kept(p, t) \in OperatorOutputs /\ Kept(p, t).id = p.id /\ Kept(p, t).dt = t.dt
  BY <1>1 DEF OperatorOutputs
<1> DEFINE Fit(p) == {u \in rev.outputs : u.name = p.id[1] /\ StillFits(p.dt, u.dt)}
<1>3. KeptOperatorOutputs(c, op, rev) = UNION {{Kept(p, t) : t \in Fit(p)} : p \in c.outs[op]}
  BY DEF KeptOperatorOutputs
<1>4. \A p, t : t \in Fit(p) <=> t \in rev.outputs /\ t.name = p.id[1] /\ StillFits(p.dt, t.dt)
  OBVIOUS
<1> HIDE DEF Kept, Fit
<1>5. \A q : q \in KeptOperatorOutputs(c, op, rev) <=>
         \E p \in c.outs[op] : \E t \in Fit(p) : q = Kept(p, t)
  BY <1>3
<1>6. \A q : q \in KeptOperatorOutputs(c, op, rev) <=>
         \E p \in c.outs[op] : \E t \in rev.outputs :
            t.name = p.id[1] /\ StillFits(p.dt, t.dt) /\ q = Kept(p, t)
  BY <1>4, <1>5
<1> QED
  BY <1>2, <1>6 DEF KeptOutFrom

LEMMA NewOperatorOutputsAre ==
    ASSUME NEW c \in Contents, NEW op \in Operators, NEW rev, NamesFit(rev), HasUuids(c, op, rev),
           NEW kept
    PROVE  /\ NewOperatorOutputs(c, op, rev, kept) \subseteq OperatorOutputs
           /\ \A q \in NewOperatorOutputs(c, op, rev, kept) :
                 \E t \in rev.outputs : NewOutFrom(c, op, t, q) /\ \A p \in kept : p.id[1] # t.name
           /\ \A t \in rev.outputs : (\A p \in kept : p.id[1] # t.name) =>
                 \E q \in NewOperatorOutputs(c, op, rev, kept) : NewOutFrom(c, op, t, q)
<1>1. rev.outputs \subseteq [name : Names, dt : DataTypes]
  BY DEF NamesFit, Interfaces
<1>2. \A t \in rev.outputs : NewId(c, op, t.name) \in ConnectorIds
  BY <1>1, NewIdIsFree DEF HasUuids
<1> DEFINE New(t) == [id |-> NewId(c, op, t.name), dt |-> t.dt]
           Lacking == {u \in rev.outputs : \A p \in kept : p.id[1] # u.name}
<1>3. \A t \in rev.outputs : New(t) \in OperatorOutputs /\ NewOutFrom(c, op, t, New(t))
  BY <1>1, <1>2 DEF NewOutFrom, OperatorOutputs
<1>4. NewOperatorOutputs(c, op, rev, kept) = {New(t) : t \in Lacking}
  BY DEF NewOperatorOutputs
<1>5. \A t : t \in Lacking <=> t \in rev.outputs /\ \A p \in kept : p.id[1] # t.name
  OBVIOUS
<1> HIDE DEF New, Lacking
<1> QED
  BY <1>3, <1>4, <1>5


NewIns(c, op, rev) == NewOperatorInputs(c, op, rev, KeptOperatorInputs(c, op, rev))
NewOuts(c, op, rev) == NewOperatorOutputs(c, op, rev, KeptOperatorOutputs(c, op, rev))
InsAfter(c, op, rev) == KeptOperatorInputs(c, op, rev) \cup NewIns(c, op, rev)
OutsAfter(c, op, rev) == KeptOperatorOutputs(c, op, rev) \cup NewOuts(c, op, rev)

\* An operator that can be upgraded to a revision.
Upgradable(c, op, rev) ==
    /\ WellFormed(c) /\ op \in c.ops /\ NamesFit(rev) /\ HasUuids(c, op, rev)
    /\ \A i \in c.ins[op] : i.required => i.exposed

\* The upgraded operator's inputs are those of the revision; the new ones are at
\* connectors nothing refers to.
LEMMA UpgradedInputsAre ==
    ASSUME NEW c, NEW op \in Operators, NEW rev, Upgradable(c, op, rev)
    PROVE  /\ InsAfter(c, op, rev) \subseteq OperatorInputs
           /\ \A i, j \in InsAfter(c, op, rev) : i.id[1] = j.id[1] => i = j
           /\ \A j \in InsAfter(c, op, rev) : \E t \in rev.inputs :
                 j.id[1] = t.name /\ j.dt = t.dt /\ j.required = t.required
           /\ \A t \in rev.inputs : \E j \in InsAfter(c, op, rev) :
                 j.id[1] = t.name /\ j.dt = t.dt /\ j.required = t.required
           /\ \A j \in InsAfter(c, op, rev) : j.required => j.exposed
           /\ \A j \in NewIns(c, op, rev) : j.id \notin Mentioned(c, op)
           /\ \A i \in c.ins[op], t \in rev.inputs : t.name = i.id[1] /\ t.dt = i.dt =>
                 \E j \in KeptOperatorInputs(c, op, rev) :
                    j.id = i.id /\ j.dt = i.dt /\ (i.exposed => j.exposed)
<1> DEFINE K == KeptOperatorInputs(c, op, rev)
           N == NewIns(c, op, rev)
           ins == InsAfter(c, op, rev)
<1>1. c \in Contents /\ NamesFit(rev) /\ HasUuids(c, op, rev)
      /\ \A i, j \in c.ins[op] : i.id[1] = j.id[1] => i = j
  BY DEF Upgradable, WellFormed, ConnectorsNamed
<1>2. rev.inputs \subseteq [name : Names, dt : DataTypes, required : BOOLEAN]
      /\ \A s, t \in rev.inputs : s.name = t.name => s = t
      /\ \A i \in c.ins[op] : i.required => i.exposed
  BY <1>1 DEF NamesFit, Interfaces, Upgradable
<1>3. /\ K \subseteq OperatorInputs
      /\ \A j \in K : \E i \in c.ins[op] : \E t \in rev.inputs : KeptFrom(i, t, j)
      /\ \A i \in c.ins[op], t \in rev.inputs : t.name = i.id[1] /\ StillFits(i.dt, t.dt) =>
            KeptIn(i, t) \in K /\ KeptFrom(i, t, KeptIn(i, t))
  BY <1>1, KeptOperatorInputsAre
<1>4. /\ N \subseteq OperatorInputs
      /\ \A j \in N : \E t \in rev.inputs : NewFrom(c, op, t, j) /\ \A i \in K : i.id[1] # t.name
      /\ \A t \in rev.inputs : (\A i \in K : i.id[1] # t.name) =>
            \E j \in N : NewFrom(c, op, t, j)
  BY <1>1, NewOperatorInputsAre DEF NewIns
<1>5. \A t \in rev.inputs : NewId(c, op, t.name)[1] = t.name
                            /\ NewId(c, op, t.name) \notin Mentioned(c, op)
  BY <1>1, <1>2, NewIdIsFree DEF HasUuids
<1>6. ins = K \cup N
  BY DEF InsAfter
<1> HIDE DEF K, N, ins
<1>7. ASSUME NEW j \in K
      PROVE  \E t \in rev.inputs :
                /\ j.id[1] = t.name /\ j.dt = t.dt /\ j.required = t.required
                /\ \E i \in c.ins[op] : KeptFrom(i, t, j)
  <2>1. PICK i \in c.ins[op] : \E t \in rev.inputs : KeptFrom(i, t, j)
    BY <1>3
  <2>2. PICK t \in rev.inputs : KeptFrom(i, t, j)
    BY <2>1
  <2>3. j.id[1] = t.name /\ j.dt = t.dt /\ j.required = t.required
    BY <2>2 DEF KeptFrom
  <2> QED
    BY <2>2, <2>3
<1>8. ASSUME NEW j \in N
      PROVE  \E t \in rev.inputs :
                /\ j.id[1] = t.name /\ j.dt = t.dt /\ j.required = t.required
                /\ j.id = NewId(c, op, t.name) /\ (j.exposed <=> t.required)
                /\ \A i \in K : i.id[1] # t.name
  BY <1>4, <1>5 DEF NewFrom
<1>9. \A i, j \in ins : i.id[1] = j.id[1] => i = j
  <2>1. ASSUME NEW i \in K, NEW j \in K, i.id[1] = j.id[1] PROVE i = j
    <3>1. PICK s \in rev.inputs : i.id[1] = s.name /\ \E h \in c.ins[op] : KeptFrom(h, s, i)
      BY <1>7
    <3>2. PICK h \in c.ins[op] : KeptFrom(h, s, i)
      BY <3>1
    <3>3. PICK t \in rev.inputs : j.id[1] = t.name /\ \E k \in c.ins[op] : KeptFrom(k, t, j)
      BY <1>7
    <3>4. PICK k \in c.ins[op] : KeptFrom(k, t, j)
      BY <3>3
    <3>5. s = t /\ h = k
      BY <2>1, <3>1, <3>2, <3>3, <3>4, <1>1, <1>2 DEF KeptFrom
    <3>6. i.id = j.id /\ i.dt = j.dt /\ i.required = j.required /\ (i.exposed <=> j.exposed)
      BY <3>2, <3>4, <3>5 DEF KeptFrom
    <3> QED
      BY <3>6, <1>3 DEF OperatorInputs
  <2>2. ASSUME NEW i \in K, NEW j \in N PROVE i.id[1] # j.id[1]
    BY <1>8
  <2>3. ASSUME NEW i \in N, NEW j \in N, i.id[1] = j.id[1] PROVE i = j
    <3>1. PICK s \in rev.inputs : /\ i.id[1] = s.name /\ i.dt = s.dt /\ i.required = s.required
                                  /\ i.id = NewId(c, op, s.name) /\ (i.exposed <=> s.required)
      BY <1>8
    <3>2. PICK t \in rev.inputs : /\ j.id[1] = t.name /\ j.dt = t.dt /\ j.required = t.required
                                  /\ j.id = NewId(c, op, t.name) /\ (j.exposed <=> t.required)
      BY <1>8
    <3>3. s = t
      BY <2>3, <3>1, <3>2, <1>2
    <3> QED
      BY <3>1, <3>2, <3>3, <1>4 DEF OperatorInputs
  <2> QED
    BY <1>6, <2>1, <2>2, <2>3
<1>10. ASSUME NEW t \in rev.inputs
       PROVE  \E j \in ins : j.id[1] = t.name /\ j.dt = t.dt /\ j.required = t.required
  <2>1. CASE \A i \in K : i.id[1] # t.name
    BY <2>1, <1>4, <1>5, <1>6 DEF NewFrom
  <2>2. CASE \E i \in K : i.id[1] = t.name
    BY <2>2, <1>2, <1>6, <1>7
  <2> QED
    BY <2>1, <2>2
<1>11. \A j \in ins : j.required => j.exposed
  <2>1. ASSUME NEW j \in K, j.required PROVE j.exposed
    <3>1. PICK t \in rev.inputs : j.required = t.required /\ \E i \in c.ins[op] : KeptFrom(i, t, j)
      BY <1>7
    <3>2. PICK i \in c.ins[op] : KeptFrom(i, t, j)
      BY <3>1
    <3>3. j.exposed <=> i.exposed \/ t.required # i.required
      BY <3>2 DEF KeptFrom
    <3>4. t.required
      BY <2>1, <3>1
    <3>5. CASE i.required
      BY <3>3, <3>5, <1>2
    <3>6. CASE ~i.required
      <4>1. t.required # i.required
        BY <3>4, <3>6
      <4> QED
        BY <3>3, <4>1
    <3> QED
      BY <3>5, <3>6
  <2>2. ASSUME NEW j \in N, j.required PROVE j.exposed
    BY <1>8, <2>2
  <2> QED
    BY <1>6, <2>1, <2>2
<1>12. \A j \in N : j.id \notin Mentioned(c, op)
  BY <1>5, <1>8
<1>13. ASSUME NEW i \in c.ins[op], NEW t \in rev.inputs, t.name = i.id[1], t.dt = i.dt
       PROVE  \E j \in K : j.id = i.id /\ j.dt = i.dt /\ (i.exposed => j.exposed)
  BY <1>3, <1>13 DEF StillFits, KeptFrom
<1>14. ins \subseteq OperatorInputs
  BY <1>3, <1>4, <1>6
<1>15. \A j \in ins : \E t \in rev.inputs :
          j.id[1] = t.name /\ j.dt = t.dt /\ j.required = t.required
  BY <1>6, <1>7, <1>8
<1> QED
  BY <1>9, <1>10, <1>11, <1>12, <1>13, <1>14, <1>15 DEF K, N, ins

LEMMA UpgradedOutputsAre ==
    ASSUME NEW c, NEW op \in Operators, NEW rev, Upgradable(c, op, rev)
    PROVE  /\ OutsAfter(c, op, rev) \subseteq OperatorOutputs
           /\ \A p, q \in OutsAfter(c, op, rev) : p.id[1] = q.id[1] => p = q
           /\ \A q \in OutsAfter(c, op, rev) : \E t \in rev.outputs : q.id[1] = t.name /\ q.dt = t.dt
           /\ \A t \in rev.outputs : \E q \in OutsAfter(c, op, rev) : q.id[1] = t.name /\ q.dt = t.dt
           /\ \A q \in NewOuts(c, op, rev) : q.id \notin Mentioned(c, op)
           /\ \A p \in c.outs[op], t \in rev.outputs : t.name = p.id[1] /\ t.dt = p.dt =>
                 \E q \in KeptOperatorOutputs(c, op, rev) : q.id = p.id /\ q.dt = p.dt
<1> DEFINE K == KeptOperatorOutputs(c, op, rev)
           N == NewOuts(c, op, rev)
           outs == OutsAfter(c, op, rev)
<1>1. c \in Contents /\ NamesFit(rev) /\ HasUuids(c, op, rev)
      /\ \A i, j \in c.outs[op] : i.id[1] = j.id[1] => i = j
  BY DEF Upgradable, WellFormed, ConnectorsNamed
<1>2. rev.outputs \subseteq [name : Names, dt : DataTypes]
      /\ \A s, t \in rev.outputs : s.name = t.name => s = t
  BY <1>1 DEF NamesFit, Interfaces
<1>3. /\ K \subseteq OperatorOutputs
      /\ \A q \in K : \E p \in c.outs[op] : \E t \in rev.outputs : KeptOutFrom(p, t, q)
      /\ \A p \in c.outs[op], t \in rev.outputs : t.name = p.id[1] /\ StillFits(p.dt, t.dt) =>
            \E q \in K : KeptOutFrom(p, t, q)
  BY <1>1, KeptOperatorOutputsAre
<1>4. /\ N \subseteq OperatorOutputs
      /\ \A q \in N : \E t \in rev.outputs : NewOutFrom(c, op, t, q) /\ \A p \in K : p.id[1] # t.name
      /\ \A t \in rev.outputs : (\A p \in K : p.id[1] # t.name) =>
            \E q \in N : NewOutFrom(c, op, t, q)
  BY <1>1, NewOperatorOutputsAre DEF NewOuts
<1>5. \A t \in rev.outputs : NewId(c, op, t.name)[1] = t.name
                             /\ NewId(c, op, t.name) \notin Mentioned(c, op)
  BY <1>1, <1>2, NewIdIsFree DEF HasUuids
<1>6. outs = K \cup N
  BY DEF OutsAfter
<1> HIDE DEF K, N, outs
<1>7. ASSUME NEW q \in K
      PROVE  \E t \in rev.outputs : /\ q.id[1] = t.name /\ q.dt = t.dt
                                    /\ \E p \in c.outs[op] : KeptOutFrom(p, t, q)
  <2>1. PICK p \in c.outs[op] : \E t \in rev.outputs : KeptOutFrom(p, t, q)
    BY <1>3
  <2>2. PICK t \in rev.outputs : KeptOutFrom(p, t, q)
    BY <2>1
  <2>3. q.id[1] = t.name /\ q.dt = t.dt
    BY <2>2 DEF KeptOutFrom
  <2> QED
    BY <2>2, <2>3
<1>8. ASSUME NEW q \in N
      PROVE  \E t \in rev.outputs : /\ q.id[1] = t.name /\ q.dt = t.dt /\ q.id = NewId(c, op, t.name)
                                    /\ \A p \in K : p.id[1] # t.name
  BY <1>4, <1>5 DEF NewOutFrom
<1>9. \A i, j \in outs : i.id[1] = j.id[1] => i = j
  <2>1. ASSUME NEW i \in K, NEW j \in K, i.id[1] = j.id[1] PROVE i = j
    <3>1. PICK s \in rev.outputs : i.id[1] = s.name /\ \E h \in c.outs[op] : KeptOutFrom(h, s, i)
      BY <1>7
    <3>2. PICK h \in c.outs[op] : KeptOutFrom(h, s, i)
      BY <3>1
    <3>3. PICK t \in rev.outputs : j.id[1] = t.name /\ \E k \in c.outs[op] : KeptOutFrom(k, t, j)
      BY <1>7
    <3>4. PICK k \in c.outs[op] : KeptOutFrom(k, t, j)
      BY <3>3
    <3>5. s = t /\ h = k
      BY <2>1, <3>1, <3>2, <3>3, <3>4, <1>1, <1>2 DEF KeptOutFrom
    <3>6. i.id = j.id /\ i.dt = j.dt
      BY <3>2, <3>4, <3>5 DEF KeptOutFrom
    <3> QED
      BY <3>6, <1>3 DEF OperatorOutputs
  <2>2. ASSUME NEW i \in K, NEW j \in N PROVE i.id[1] # j.id[1]
    BY <1>8
  <2>3. ASSUME NEW i \in N, NEW j \in N, i.id[1] = j.id[1] PROVE i = j
    <3>1. PICK s \in rev.outputs : i.id[1] = s.name /\ i.dt = s.dt /\ i.id = NewId(c, op, s.name)
      BY <1>8
    <3>2. PICK t \in rev.outputs : j.id[1] = t.name /\ j.dt = t.dt /\ j.id = NewId(c, op, t.name)
      BY <1>8
    <3>3. s = t
      BY <2>3, <3>1, <3>2, <1>2
    <3> QED
      BY <3>1, <3>2, <3>3, <1>4 DEF OperatorOutputs
  <2> QED
    BY <1>6, <2>1, <2>2, <2>3
<1>10. ASSUME NEW t \in rev.outputs
       PROVE  \E q \in outs : q.id[1] = t.name /\ q.dt = t.dt
  <2>1. CASE \A p \in K : p.id[1] # t.name
    BY <2>1, <1>4, <1>5, <1>6 DEF NewOutFrom
  <2>2. CASE \E p \in K : p.id[1] = t.name
    BY <2>2, <1>2, <1>6, <1>7
  <2> QED
    BY <2>1, <2>2
<1>11. \A q \in N : q.id \notin Mentioned(c, op)
  BY <1>5, <1>8
<1>12. ASSUME NEW p \in c.outs[op], NEW t \in rev.outputs, t.name = p.id[1], t.dt = p.dt
       PROVE  \E q \in K : q.id = p.id /\ q.dt = p.dt
  BY <1>3, <1>12 DEF StillFits, KeptOutFrom
<1>13. outs \subseteq OperatorOutputs
  BY <1>3, <1>4, <1>6
<1>14. \A q \in outs : \E t \in rev.outputs : q.id[1] = t.name /\ q.dt = t.dt
  BY <1>6, <1>7, <1>8
<1> QED
  BY <1>9, <1>10, <1>11, <1>12, <1>13, <1>14 DEF K, N, outs


\* The items an upgrade leaves are old ones or at connectors nothing referred to.
LEMMA FixedInputsAre ==
    ASSUME NEW c, NEW op, NEW kept, NEW new, NEW io
    PROVE  io \in FixedInputs(c, op, kept, new) <=>
             \/ io \in c.inputs /\ (io.at[1] = op => \E i \in kept : i.id[1] = io.at[2][1])
             \/ \E i \in new : i.required /\ io = Item(op, i)
BY DEF FixedInputs, Item

LEMMA FixedOutputsAre ==
    ASSUME NEW c, NEW op, NEW kept, NEW new, NEW io
    PROVE  io \in FixedOutputs(c, op, kept, new) <=>
             \/ io \in c.outputs /\ (io.at[1] = op => \E p \in kept : p.id[1] = io.at[2][1])
             \/ \E p \in new : io = Item(op, p)
BY DEF FixedOutputs, Item

\* What an upgrade of op makes of the content, field by field.
IsUpgrade(u, c, op, rev) ==
    /\ u \in Contents /\ u.ops = c.ops /\ u.links = c.links
    /\ u.ins[op] = InsAfter(c, op, rev) /\ u.outs[op] = OutsAfter(c, op, rev)
    /\ \A o \in Operators \ {op} : u.ins[o] = c.ins[o] /\ u.outs[o] = c.outs[o]
    /\ u.inputs = FixedInputs(c, op, KeptOperatorInputs(c, op, rev), NewIns(c, op, rev))
    /\ u.outputs = FixedOutputs(c, op, KeptOperatorOutputs(c, op, rev), NewOuts(c, op, rev))
    /\ u.constants = FixedConstants(c, op, InsAfter(c, op, rev))

LEMMA UpgradedFields ==
    ASSUME NEW c, NEW op \in Operators, NEW rev, Upgradable(c, op, rev)
    PROVE  IsUpgrade(Upgraded(c, op, rev), c, op, rev)
<1> DEFINE u == Upgraded(c, op, rev)
           ins == InsAfter(c, op, rev)
           outs == OutsAfter(c, op, rev)
           inputs == FixedInputs(c, op, KeptOperatorInputs(c, op, rev), NewIns(c, op, rev))
           outputs == FixedOutputs(c, op, KeptOperatorOutputs(c, op, rev), NewOuts(c, op, rev))
           constants == FixedConstants(c, op, ins)
<1>1. u = [c EXCEPT !.ins[op] = ins, !.outs[op] = outs, !.links = c.links,
                    !.constants = constants, !.inputs = inputs, !.outputs = outputs]
  BY DEF Upgraded, InsAfter, OutsAfter, NewIns, NewOuts, FixedLinks
<1>2. c \in Contents /\ ins \subseteq OperatorInputs /\ outs \subseteq OperatorOutputs
      /\ NewIns(c, op, rev) \subseteq ins /\ NewOuts(c, op, rev) \subseteq outs
  <2>1. c \in Contents
    BY DEF Upgradable, WellFormed
  <2>2. NewIns(c, op, rev) \subseteq ins /\ NewOuts(c, op, rev) \subseteq outs
    BY DEF InsAfter, OutsAfter
  <2> QED
    BY <2>1, <2>2, UpgradedInputsAre, UpgradedOutputsAre
<1>3. inputs \subseteq ContentIOs
  <2> SUFFICES ASSUME NEW io \in inputs PROVE io \in ContentIOs
    OBVIOUS
  <2>1. CASE io \in c.inputs
    BY <2>1, <1>2, ContentFields
  <2>2. ASSUME NEW i \in NewIns(c, op, rev), io = Item(op, i) PROVE io \in ContentIOs
    BY <2>2, <1>2 DEF Item, ContentIOs, OperatorInputs
  <2> QED
    BY <2>1, <2>2, FixedInputsAre
<1>4. outputs \subseteq ContentIOs
  <2> SUFFICES ASSUME NEW io \in outputs PROVE io \in ContentIOs
    OBVIOUS
  <2>1. CASE io \in c.outputs
    BY <2>1, <1>2, ContentFields
  <2>2. ASSUME NEW p \in NewOuts(c, op, rev), io = Item(op, p) PROVE io \in ContentIOs
    BY <2>2, <1>2 DEF Item, ContentIOs, OperatorOutputs
  <2> QED
    BY <2>1, <2>2, FixedOutputsAre
<1>5. constants \subseteq Constants
  BY <1>2, ContentFields DEF FixedConstants
<1> HIDE DEF inputs, outputs, constants, ins, outs
<1>6. /\ u \in Contents /\ u.ops = c.ops /\ u.links = c.links
      /\ u.ins[op] = ins /\ u.outs[op] = outs
      /\ \A o \in Operators \ {op} : u.ins[o] = c.ins[o] /\ u.outs[o] = c.outs[o]
      /\ u.inputs = inputs /\ u.outputs = outputs /\ u.constants = constants
  <2> HIDE DEF u
  <2>1. /\ c \in Contents /\ ins \in SUBSET OperatorInputs /\ outs \in SUBSET OperatorOutputs
        /\ c.links \in SUBSET LinkSpace /\ inputs \in SUBSET ContentIOs
        /\ outputs \in SUBSET ContentIOs /\ constants \in SUBSET Constants
    BY <1>2, <1>3, <1>4, <1>5, ContentFields
  <2> DEFINE d == [c EXCEPT !.ins[op] = ins, !.outs[op] = outs]
  <2>2. /\ d \in Contents /\ d.ops = c.ops /\ d.ins[op] = ins /\ d.outs[op] = outs
        /\ \A o \in Operators \ {op} : d.ins[o] = c.ins[o] /\ d.outs[o] = c.outs[o]
    BY <2>1 DEF Contents
  <2>3. u = [d EXCEPT !.links = c.links, !.constants = constants, !.inputs = inputs,
                      !.outputs = outputs]
    BY <1>1
  <2> HIDE DEF d
  <2> QED
    BY <2>1, <2>2, <2>3 DEF Contents
<1>7. constants = FixedConstants(c, op, ins)
  BY DEF constants
<1>8. IsUpgrade(u, c, op, rev)
  <2> HIDE DEF u
  <2> QED
    BY <1>6, <1>7 DEF inputs, outputs, ins, outs, IsUpgrade
<1> QED
  BY <1>8

\* An upgrade leaves a well-formed content and needs no other interface than its own.
LEMMA UpgradedIsWellFormed ==
    ASSUME NEW c, NEW op \in Operators, NEW rev, Upgradable(c, op, rev)
    PROVE  /\ WellFormed(Upgraded(c, op, rev))
           /\ OneKindOfTarget(c) => OneKindOfTarget(Upgraded(c, op, rev))
           /\ UpgradedInterface(InterfaceOf(c), c, Upgraded(c, op, rev))
                 = InterfaceOf(Upgraded(c, op, rev))
<1> DEFINE u == Upgraded(c, op, rev)
<1>1. c \in Contents /\ WellFormed(c) /\ NamesFit(rev) /\ op \in c.ops
  BY DEF Upgradable, WellFormed
<1>2. /\ u \in Contents /\ u.ops = c.ops /\ u.links = c.links
      /\ u.ins[op] = InsAfter(c, op, rev)
      /\ u.outs[op] = OutsAfter(c, op, rev)
      /\ \A o \in Operators \ {op} : u.ins[o] = c.ins[o] /\ u.outs[o] = c.outs[o]
      /\ u.inputs = FixedInputs(c, op, KeptOperatorInputs(c, op, rev), NewIns(c, op, rev))
      /\ u.outputs = FixedOutputs(c, op, KeptOperatorOutputs(c, op, rev), NewOuts(c, op, rev))
      /\ u.constants = FixedConstants(c, op, InsAfter(c, op, rev))
  <2>1. IsUpgrade(u, c, op, rev)
    BY UpgradedFields
  <2> HIDE DEF u
  <2> QED
    BY <2>1 DEF IsUpgrade
<1>3. u.constants \subseteq c.constants
  BY <1>2 DEF FixedConstants
<1> HIDE DEF u
<1>4. \A io \in u.inputs :
         io \in c.inputs \/ \E i \in NewIns(c, op, rev) : io = Item(op, i)
  BY <1>2, FixedInputsAre
<1>5. \A io \in u.outputs :
         io \in c.outputs \/ \E p \in NewOuts(c, op, rev) : io = Item(op, p)
  BY <1>2, FixedOutputsAre
<1>6. /\ \A i, j \in u.ins[op] : i.id[1] = j.id[1] => i = j
      /\ \A i \in u.ins[op] : \E t \in rev.inputs : i.id[1] = t.name
      /\ \A i \in NewIns(c, op, rev) : i.id \notin Mentioned(c, op)
  <2>1. /\ \A i, j \in InsAfter(c, op, rev) : i.id[1] = j.id[1] => i = j
        /\ \A j \in InsAfter(c, op, rev) : \E t \in rev.inputs :
              j.id[1] = t.name /\ j.dt = t.dt /\ j.required = t.required
        /\ \A j \in NewIns(c, op, rev) : j.id \notin Mentioned(c, op)
    BY UpgradedInputsAre
  <2> QED
    BY <2>1, <1>2
<1>7. /\ \A p, q \in u.outs[op] : p.id[1] = q.id[1] => p = q
      /\ \A p \in u.outs[op] : \E t \in rev.outputs : p.id[1] = t.name
      /\ \A p \in NewOuts(c, op, rev) : p.id \notin Mentioned(c, op)
  BY <1>2, UpgradedOutputsAre
<1>8. \A i \in NewIns(c, op, rev) :
         /\ \A io \in c.inputs : io.at # Item(op, i).at
         /\ \A const \in c.constants : const.at # Item(op, i).at
  BY <1>6, MentionedFacts DEF Item
<1>9. \A p \in NewOuts(c, op, rev) : \A io \in c.outputs : io.at # Item(op, p).at
  BY <1>7, MentionedFacts DEF Item
<1>10. \A i, j \in NewIns(c, op, rev) : Item(op, i).at = Item(op, j).at => i = j
  <2>1. \A i \in NewIns(c, op, rev) : i \in u.ins[op] /\ Item(op, i).at = <<op, i.id>>
    BY <1>2 DEF Item, InsAfter
  <2> QED
    BY <2>1, <1>6
<1>11. \A p, q \in NewOuts(c, op, rev) : Item(op, p).at = Item(op, q).at => p = q
  <2>1. \A p \in NewOuts(c, op, rev) : p \in u.outs[op] /\ Item(op, p).at = <<op, p.id>>
    BY <1>2 DEF Item, OutsAfter
  <2> QED
    BY <2>1, <1>7
<1>12. /\ \A x, y \in c.inputs : x.at = y.at => x = y
       /\ \A x, y \in c.outputs : x.at = y.at => x = y
       /\ \A const \in c.constants : \A io \in c.inputs : io.at # const.at
  BY <1>1 DEF WellFormed, SingleSources
<1>13. \A x, y \in u.inputs : x.at = y.at => x = y
  BY <1>4, <1>8, <1>10, <1>12
<1>14. \A x, y \in u.outputs : x.at = y.at => x = y
  BY <1>5, <1>9, <1>11, <1>12
<1>15. \A const \in u.constants : \A io \in u.inputs : io.at # const.at
  BY <1>3, <1>4, <1>8, <1>12
<1>16. SingleSources(u)
  BY <1>3, <1>1, <1>2, <1>13, <1>14, <1>15 DEF WellFormed, SingleSources
<1>17. ConnectorsNamed(u)
  <2> SUFFICES ASSUME NEW o \in Operators
               PROVE  /\ \A i, j \in u.ins[o] : i.id[1] = j.id[1] => i = j
                      /\ \A p, q \in u.outs[o] : p.id[1] = q.id[1] => p = q
                      /\ \A i \in u.ins[o], p \in u.outs[o] : i.id[1] # p.id[1]
                      /\ o \notin u.ops => u.ins[o] = {} /\ u.outs[o] = {}
    BY DEF ConnectorsNamed
  <2>1. CASE o = op
    <3>1. \A i \in u.ins[op], p \in u.outs[op] : i.id[1] # p.id[1]
      BY <1>1, <1>6, <1>7 DEF NamesFit
    <3> QED
      BY <2>1, <3>1, <1>1, <1>2, <1>6, <1>7
  <2>2. CASE o # op
    BY <2>2, <1>1, <1>2 DEF WellFormed, ConnectorsNamed
  <2> QED
    BY <2>1, <2>2
<1>18. EndsBelong(u) /\ (OneKindOfTarget(c) => OneKindOfTarget(u))
  BY <1>1, <1>2 DEF WellFormed, EndsBelong, OneKindOfTarget
<1>19. UpgradedIOs(c.inputs, c.inputs, u.inputs) = u.inputs
  BY <1>4, <1>8, <1>12 DEF UpgradedIOs
<1>20. UpgradedIOs(c.outputs, c.outputs, u.outputs) = u.outputs
  BY <1>5, <1>9, <1>12 DEF UpgradedIOs
<1>21. UpgradedInterface(InterfaceOf(c), c, u) = InterfaceOf(u)
  BY <1>19, <1>20 DEF UpgradedInterface, InterfaceOf
<1> QED
  BY <1>2, <1>16, <1>17, <1>18, <1>21 DEF WellFormed, u

\* The upgraded operator looks like the revision.
LEMMA UpgradedMatches ==
    ASSUME NEW c, NEW op \in Operators, NEW rev, Upgradable(c, op, rev)
    PROVE  Matches(Upgraded(c, op, rev), op, rev)
<1> DEFINE u == Upgraded(c, op, rev)
<1>1. /\ u.ins[op] = InsAfter(c, op, rev)
      /\ u.outs[op] = OutsAfter(c, op, rev)
  <2>1. IsUpgrade(u, c, op, rev)
    BY UpgradedFields
  <2> HIDE DEF u
  <2> QED
    BY <2>1 DEF IsUpgrade
<1> HIDE DEF u
<1>2. rev.inputs \subseteq [name : Names, dt : DataTypes, required : BOOLEAN]
      /\ rev.outputs \subseteq [name : Names, dt : DataTypes]
  BY DEF Upgradable, NamesFit, Interfaces
<1> DEFINE Old(i) == [name |-> i.id[1], dt |-> i.dt, required |-> i.required]
           OldOut(p) == [name |-> p.id[1], dt |-> p.dt]
<1>3. {Old(i) : i \in u.ins[op]} = rev.inputs
  <2>1. \A i, t : t \in rev.inputs /\ i.id[1] = t.name /\ i.dt = t.dt /\ i.required = t.required
                    => Old(i) = t
    BY <1>2
  <2>2. /\ \A j \in InsAfter(c, op, rev) : \E t \in rev.inputs :
              j.id[1] = t.name /\ j.dt = t.dt /\ j.required = t.required
        /\ \A t \in rev.inputs : \E j \in InsAfter(c, op, rev) :
              j.id[1] = t.name /\ j.dt = t.dt /\ j.required = t.required
    BY UpgradedInputsAre
  <2> HIDE DEF Old
  <2>3. \A i \in u.ins[op] : \E t \in rev.inputs : Old(i) = t
    BY <2>1, <2>2, <1>1
  <2>4. \A t \in rev.inputs : \E i \in u.ins[op] : Old(i) = t
    BY <2>1, <2>2, <1>1
  <2> QED
    BY <2>3, <2>4
<1>4. {OldOut(p) : p \in u.outs[op]} = rev.outputs
  <2>1. \A p, t : t \in rev.outputs /\ p.id[1] = t.name /\ p.dt = t.dt => OldOut(p) = t
    BY <1>2
  <2>2. /\ \A q \in OutsAfter(c, op, rev) : \E t \in rev.outputs : q.id[1] = t.name /\ q.dt = t.dt
        /\ \A t \in rev.outputs : \E q \in OutsAfter(c, op, rev) : q.id[1] = t.name /\ q.dt = t.dt
    BY UpgradedOutputsAre
  <2> HIDE DEF OldOut
  <2>3. \A p \in u.outs[op] : \E t \in rev.outputs : OldOut(p) = t
    BY <2>1, <2>2, <1>1
  <2>4. \A t \in rev.outputs : \E p \in u.outs[op] : OldOut(p) = t
    BY <2>1, <2>2, <1>1
  <2> QED
    BY <2>3, <2>4
<1>5. \A i \in u.ins[op] : i.required => i.exposed
  <2>1. \A j \in InsAfter(c, op, rev) : j.required => j.exposed
    BY UpgradedInputsAre
  <2> QED
    BY <2>1, <1>1
<1>6. Matches(u, op, rev)
  BY <1>3, <1>4, <1>5, Zenon DEF Matches
<1> QED
  BY <1>6 DEF u


\* What an upgrade of operator o to a revision keeps: the connectors the revision has, too,
\* and what is there.
Carried(c, w, o, rev) ==
    /\ \A i \in c.ins[o], t \in rev.inputs : t.name = i.id[1] /\ t.dt = i.dt =>
          /\ \E j \in w.ins[o] : j.id = i.id /\ j.dt = i.dt /\ (i.exposed => j.exposed)
          /\ \A io \in c.inputs : io.at = <<o, i.id>> => io \in w.inputs
          /\ \A const \in c.constants : const.at = <<o, i.id>> /\ const.dt = i.dt
                                           => const \in w.constants
    /\ \A p \in c.outs[o], t \in rev.outputs : t.name = p.id[1] /\ t.dt = p.dt =>
          /\ \E q \in w.outs[o] : q.id = p.id /\ q.dt = p.dt
          /\ \A io \in c.outputs : io.at = <<o, p.id>> => io \in w.outputs

\* Upgrades of other operators change nothing at operator o.
ItemsAt(set, o) == {io \in set : io.at[1] = o}

Untouched(c, w, o) ==
    /\ w.ins[o] = c.ins[o] /\ w.outs[o] = c.outs[o] /\ w.links = c.links
    /\ ItemsAt(w.inputs, o) = ItemsAt(c.inputs, o)
    /\ ItemsAt(w.outputs, o) = ItemsAt(c.outputs, o)
    /\ ItemsAt(w.constants, o) = ItemsAt(c.constants, o)

LEMMA UntouchedFacts ==
    ASSUME NEW c, NEW w, NEW o, Untouched(c, w, o)
    PROVE  /\ Mentioned(w, o) = Mentioned(c, o)
           /\ \A rev : HasUuids(w, o, rev) <=> HasUuids(c, o, rev)
           /\ \A rev : Matches(w, o, rev) <=> Matches(c, o, rev)
           /\ \A rev : Carried(c, w, o, rev)
<1>1. /\ w.ins[o] = c.ins[o] /\ w.outs[o] = c.outs[o] /\ w.links = c.links
      /\ \A io : io.at[1] = o => (io \in w.inputs <=> io \in c.inputs)
      /\ \A io : io.at[1] = o => (io \in w.outputs <=> io \in c.outputs)
      /\ \A io : io.at[1] = o => (io \in w.constants <=> io \in c.constants)
  BY DEF Untouched, ItemsAt
<1>2. {x \in w.inputs \cup w.outputs : x.at[1] = o} = {x \in c.inputs \cup c.outputs : x.at[1] = o}
      /\ {x \in w.constants : x.at[1] = o} = {x \in c.constants : x.at[1] = o}
  BY <1>1
<1>3. Mentioned(w, o) = Mentioned(c, o)
  BY <1>1, <1>2, Zenon DEF Mentioned
<1>4. \A rev : HasUuids(w, o, rev) <=> HasUuids(c, o, rev)
  BY <1>3 DEF HasUuids, FreeUuids
<1>5. \A rev : Matches(w, o, rev) <=> Matches(c, o, rev)
  BY <1>1, Zenon DEF Matches
<1>6. ASSUME NEW rev PROVE Carried(c, w, o, rev)
  <2>1. \A id : <<o, id>>[1] = o
    OBVIOUS
  <2> QED
    BY <1>1, <2>1 DEF Carried
<1> QED
  BY <1>3, <1>4, <1>5, <1>6

LEMMA UntouchedOnAndOn ==
    ASSUME NEW c, NEW d, NEW w, NEW o
    PROVE  /\ Untouched(c, d, o) /\ Untouched(d, w, o) => Untouched(c, w, o)
           /\ \A rev : Carried(c, d, o, rev) /\ Untouched(d, w, o) => Carried(c, w, o, rev)
           /\ \A rev : Untouched(c, d, o) /\ Carried(d, w, o, rev) => Carried(c, w, o, rev)
<1>1. Untouched(c, d, o) /\ Untouched(d, w, o) => Untouched(c, w, o)
  BY DEF Untouched
<1> DEFINE Agree(x, y) == \A io, id : io.at = <<o, id>> => (io \in x <=> io \in y)
<1>2. \A x, y : ItemsAt(x, o) = ItemsAt(y, o) => Agree(x, y)
  <2>1. \A x, io : io \in ItemsAt(x, o) <=> io \in x /\ io.at[1] = o
    BY DEF ItemsAt
  <2>2. \A id : <<o, id>>[1] = o
    OBVIOUS
  <2> QED
    BY <2>1, <2>2
<1>3. ASSUME NEW rev, Carried(c, d, o, rev), Untouched(d, w, o) PROVE Carried(c, w, o, rev)
  <2>1. /\ w.ins[o] = d.ins[o] /\ w.outs[o] = d.outs[o]
        /\ Agree(w.inputs, d.inputs) /\ Agree(w.outputs, d.outputs)
        /\ Agree(w.constants, d.constants)
    <3> HIDE DEF Agree
    <3> QED
      BY <1>2, <1>3 DEF Untouched
  <2> QED
    BY <1>3, <2>1 DEF Carried
<1>4. ASSUME NEW rev, Untouched(c, d, o), Carried(d, w, o, rev) PROVE Carried(c, w, o, rev)
  <2>1. /\ d.ins[o] = c.ins[o] /\ d.outs[o] = c.outs[o]
        /\ Agree(d.inputs, c.inputs) /\ Agree(d.outputs, c.outputs)
        /\ Agree(d.constants, c.constants)
    <3> HIDE DEF Agree
    <3> QED
      BY <1>2, <1>4 DEF Untouched
  <2> QED
    BY <1>4, <2>1 DEF Carried
<1> QED
  BY <1>1, <1>3, <1>4

LEMMA OthersUntouched ==
    ASSUME NEW c, NEW op \in Operators, NEW rev, Upgradable(c, op, rev)
    PROVE  \A o \in Operators \ {op} : Untouched(c, Upgraded(c, op, rev), o)
<1> DEFINE u == Upgraded(c, op, rev)
<1>1. /\ u.links = c.links
      /\ \A q \in Operators \ {op} : u.ins[q] = c.ins[q] /\ u.outs[q] = c.outs[q]
      /\ u.inputs = FixedInputs(c, op, KeptOperatorInputs(c, op, rev), NewIns(c, op, rev))
      /\ u.outputs = FixedOutputs(c, op, KeptOperatorOutputs(c, op, rev), NewOuts(c, op, rev))
      /\ u.constants = FixedConstants(c, op, InsAfter(c, op, rev))
  <2>1. IsUpgrade(u, c, op, rev)
    BY UpgradedFields
  <2> HIDE DEF u
  <2> QED
    BY <2>1 DEF IsUpgrade
<1> HIDE DEF u
<1> SUFFICES ASSUME NEW o \in Operators \ {op} PROVE Untouched(c, u, o)
  BY DEF u
<1>2. \A x : Item(op, x).at[1] = op
  BY DEF Item
<1>3. \A io : io.at[1] = o => (io \in u.inputs <=> io \in c.inputs)
  BY <1>1, <1>2, FixedInputsAre
<1>4. \A io : io.at[1] = o => (io \in u.outputs <=> io \in c.outputs)
  BY <1>1, <1>2, FixedOutputsAre
<1>5. \A io : io.at[1] = o => (io \in u.constants <=> io \in c.constants)
  BY <1>1 DEF FixedConstants
<1> QED
  BY <1>1, <1>3, <1>4, <1>5 DEF Untouched, ItemsAt

LEMMA UpgradeCarries ==
    ASSUME NEW c, NEW op \in Operators, NEW rev, Upgradable(c, op, rev)
    PROVE  Carried(c, Upgraded(c, op, rev), op, rev)
<1> DEFINE u == Upgraded(c, op, rev)
<1>1. /\ u.ins[op] = InsAfter(c, op, rev) /\ u.outs[op] = OutsAfter(c, op, rev)
      /\ u.inputs = FixedInputs(c, op, KeptOperatorInputs(c, op, rev), NewIns(c, op, rev))
      /\ u.outputs = FixedOutputs(c, op, KeptOperatorOutputs(c, op, rev), NewOuts(c, op, rev))
      /\ u.constants = FixedConstants(c, op, InsAfter(c, op, rev))
  <2>1. IsUpgrade(u, c, op, rev)
    BY UpgradedFields
  <2> HIDE DEF u
  <2> QED
    BY <2>1 DEF IsUpgrade
<1> HIDE DEF u
<1>2. \A id : <<op, id>>[1] = op /\ <<op, id>>[2] = id
  OBVIOUS
<1>3. ASSUME NEW i \in c.ins[op], NEW t \in rev.inputs, t.name = i.id[1], t.dt = i.dt
      PROVE  /\ \E j \in u.ins[op] : j.id = i.id /\ j.dt = i.dt /\ (i.exposed => j.exposed)
             /\ \A io \in c.inputs : io.at = <<op, i.id>> => io \in u.inputs
             /\ \A const \in c.constants : const.at = <<op, i.id>> /\ const.dt = i.dt
                                              => const \in u.constants
  <2>1. PICK j \in KeptOperatorInputs(c, op, rev) :
           j.id = i.id /\ j.dt = i.dt /\ (i.exposed => j.exposed)
    BY <1>3, UpgradedInputsAre
  <2>2. j \in u.ins[op]
    BY <2>1, <1>1 DEF InsAfter
  <2>3. \A io \in c.inputs : io.at = <<op, i.id>> => io \in u.inputs
    BY <2>1, <1>1, <1>2, FixedInputsAre
  <2>4. \A const \in c.constants : const.at = <<op, i.id>> /\ const.dt = i.dt
                                     => const \in u.constants
    BY <2>1, <2>2, <1>1, <1>2 DEF FixedConstants
  <2> QED
    BY <2>1, <2>2, <2>3, <2>4
<1>4. ASSUME NEW p \in c.outs[op], NEW t \in rev.outputs, t.name = p.id[1], t.dt = p.dt
      PROVE  /\ \E q \in u.outs[op] : q.id = p.id /\ q.dt = p.dt
             /\ \A io \in c.outputs : io.at = <<op, p.id>> => io \in u.outputs
  <2>1. PICK q \in KeptOperatorOutputs(c, op, rev) : q.id = p.id /\ q.dt = p.dt
    BY <1>4, UpgradedOutputsAre
  <2>2. q \in u.outs[op]
    BY <2>1, <1>1 DEF OutsAfter
  <2>3. \A io \in c.outputs : io.at = <<op, p.id>> => io \in u.outputs
    BY <2>1, <1>1, <1>2, FixedOutputsAre
  <2> QED
    BY <2>1, <2>2, <2>3
<1>5. Carried(c, u, op, rev)
  BY <1>3, <1>4 DEF Carried
<1> QED
  BY <1>5 DEF u


\* Content w is what the editor read with each operator at the revision it uses now.
UpgradeOf(s, w, use) ==
    /\ WellFormed(w) /\ OneKindOfTarget(w) /\ w.ops = s.ops /\ w.links = s.links
    /\ \A o \in s.ops : Carried(s, w, o, current[use[o]])

LEMMA ChangeRevisionUpgrades ==
    ASSUME EditingInv, NEW op \in Operators, NEW r \in RevisionNumbers, ChangeRevision(op, r)
    PROVE  /\ UpgradeOf(seen, stored', uses') /\ interface' = InterfaceOf(stored')
           /\ Matches(stored', op, current[r])
           /\ \A o \in seen.ops : MarksHold(stored', o, uses'[o], drafts')
<1> DEFINE u == Upgraded(seen, op, current[r])
<1>1. /\ op \in seen.ops /\ HasUuids(seen, op, current[r])
      /\ stored' = u /\ interface' = UpgradedInterface(seenInterface, seen, u)
      /\ uses' = [uses EXCEPT ![op] = r]
      /\ drafts' = IF r > published THEN drafts \cup {op} ELSE drafts \ {op}
  BY DEF ChangeRevision, Write
<1>2. /\ WellFormed(seen) /\ OneKindOfTarget(seen) /\ seenInterface = InterfaceOf(seen)
      /\ seen.ops \subseteq Operators
      /\ \A o \in seen.ops : MarksHold(seen, o, uses[o], drafts)
  BY SeenFacts, ContentFields DEF WellFormed
<1>3. Upgradable(seen, op, current[r])
  BY <1>1, <1>2, RevisionNamesFit DEF Upgradable, MarksHold
<1>4. /\ WellFormed(u) /\ OneKindOfTarget(u) /\ interface' = InterfaceOf(u)
  <2>1. WellFormed(u)
    BY <1>3, UpgradedIsWellFormed
  <2>2. OneKindOfTarget(seen) => OneKindOfTarget(u)
    BY <1>3, UpgradedIsWellFormed
  <2>3. UpgradedInterface(InterfaceOf(seen), seen, u) = InterfaceOf(u)
    BY <1>3, UpgradedIsWellFormed
  <2> HIDE DEF u
  <2>4. interface' = InterfaceOf(u)
    BY <2>3, <1>1, <1>2
  <2> QED
    BY <2>1, <2>2, <2>4, <1>2
<1>5. u.ops = seen.ops /\ u.links = seen.links
  BY <1>3, UpgradedFields DEF IsUpgrade
<1>6. Matches(u, op, current[r]) /\ Carried(seen, u, op, current[r])
  BY <1>3, UpgradedMatches, UpgradeCarries
<1>7. \A o \in Operators \ {op} : Untouched(seen, u, o)
  BY <1>3, OthersUntouched
<1> HIDE DEF u
<1>8. ASSUME NEW o \in seen.ops
      PROVE  MarksHold(u, o, uses'[o], drafts') /\ Carried(seen, u, o, current[uses'[o]])
  <2>1. CASE o = op
    <3>1. uses'[o] = r /\ r # 0 /\ (r > published => o \in drafts')
      BY <2>1, <1>1, <1>2 DEF EditingInv, RevisionNumbers
    <3>2. \A i \in u.ins[op] : i.required => i.exposed
      BY <1>6 DEF Matches
    <3> QED
      BY <3>1, <3>2, <2>1, <1>6 DEF MarksHold
  <2>2. CASE o # op
    <3>1. uses'[o] = uses[o] /\ o \in Operators \ {op} /\ (o \in drafts' <=> o \in drafts)
      BY <2>2, <1>1, <1>2 DEF EditingInv
    <3>2. Untouched(seen, u, o) /\ MarksHold(seen, o, uses[o], drafts)
      BY <3>1, <1>2, <1>7
    <3>3. Carried(seen, u, o, current[uses[o]]) /\ u.ins[o] = seen.ins[o]
          /\ \A rev : Matches(u, o, rev) <=> Matches(seen, o, rev)
      BY <3>2, UntouchedFacts DEF Untouched
    <3> QED
      BY <3>1, <3>2, <3>3 DEF MarksHold
  <2> QED
    BY <2>1, <2>2
<1> QED
  BY <1>1, <1>4, <1>5, <1>6, <1>8 DEF UpgradeOf

LEMMA UpgradeKeepsInv ==
    ASSUME EditingInv, UpgradeOf(seen, stored', uses'), interface' = InterfaceOf(stored'),
           uses' \in [Operators -> 0 .. Len(Revisions)], drafts' \in SUBSET seen.ops,
           \A o \in seen.ops : MarksHold(stored', o, uses'[o], drafts'),
           UNCHANGED <<current, published, deprecated>>
    PROVE  EditingInv'
<1>1. (WellFormed(stored) /\ OneKindOfTarget(stored) /\ interface = InterfaceOf(stored))'
      /\ stored'.ops = seen.ops
  BY DEF UpgradeOf
<1>2. (\A o \in stored.ops : MarksHold(stored, o, uses[o], drafts))'
  BY <1>1 DEF MarksHold
<1> QED
  BY <1>1, <1>2 DEF EditingInv

LEMMA ChangeRevisionKeepsInv ==
    ASSUME EditingInv, NEW op \in Operators, NEW r \in RevisionNumbers, ChangeRevision(op, r)
    PROVE  EditingInv'
<1>1. /\ op \in seen.ops /\ uses' = [uses EXCEPT ![op] = r]
      /\ drafts' \in {drafts \cup {op}, drafts \ {op}}
      /\ UNCHANGED <<current, published, deprecated>>
  BY DEF ChangeRevision
<1>2. uses' \in [Operators -> 0 .. Len(Revisions)] /\ drafts' \in SUBSET seen.ops
  BY <1>1, SeenFacts DEF EditingInv, RevisionNumbers
<1> QED
  BY <1>1, <1>2, ChangeRevisionUpgrades, UpgradeKeepsInv

-----------------------------------------------------------------------------
(* The upgrade of all operators.                                           *)

LEMMA NewestIsReleased ==
    ASSUME EditingInv, Newest # 0
    PROVE  Newest \in RevisionNumbers /\ Newest \in 1 .. published
<1>1. published \in 0 .. Len(Revisions) /\ Len(Revisions) \in Nat
      /\ Available \subseteq 1 .. published
  BY RevisionsAssumption DEF EditingInv, Available
<1>2. Available # {} /\ Newest = Max(Available)
  BY DEF Newest
<1> DEFINE D == {n \in Nat : published - n \in Available}
<1>3. D \subseteq Nat /\ D # {}
  <2>1. PICK x \in Available : TRUE
    BY <1>2
  <2>2. x \in Int /\ published - x \in Nat /\ published - (published - x) = x
    BY <2>1, <1>1
  <2>3. published - x \in D
    BY <2>1, <2>2
  <2> QED
    BY <2>3
<1>4. PICK n \in D : \A m \in D : n <= m
  <2> HIDE DEF D
  <2> QED
    BY <1>3, LeastNumber
<1>5. \A y \in Available : published - n >= y
  <2> SUFFICES ASSUME NEW y \in Available PROVE published - n >= y
    OBVIOUS
  <2>1. y \in Int /\ published - y \in Nat /\ published - (published - y) = y
    BY <1>1
  <2>2. published - y \in D
    BY <2>1
  <2>3. n <= published - y /\ n \in Nat
    BY <2>2, <1>4
  <2> QED
    BY <2>1, <2>3, <1>1
<1>6. published - n \in Available
  BY <1>4
<1>7. Max(Available) \in Available
  <2>1. \E x \in Available : \A y \in Available : x >= y
    BY <1>5, <1>6
  <2>2. (CHOOSE x \in Available : \A y \in Available : x >= y) \in Available
    BY <2>1
  <2> QED
    BY <2>2 DEF Max
<1> HIDE DEF D
<1>8. Newest \in 1 .. published
  BY <1>1, <1>2, <1>7
<1> QED
  BY <1>1, <1>8 DEF RevisionNumbers

LEMMA TargetFacts ==
    ASSUME EditingInv
    PROVE  /\ \A o \in Touched : o \in seen.ops /\ Target(o) \in RevisionNumbers
           /\ \A o \in seen.ops \ Touched : Target(o) = uses[o]
           /\ \A o \in seen.ops : Target(o) \in 0 .. Len(Revisions) /\ Target(o) # 0
<1>1. \A o \in seen.ops : uses[o] \in RevisionNumbers
  <2>1. \A o \in seen.ops : o \in Operators /\ uses[o] # 0
    BY SeenFacts, ContentFields DEF WellFormed, MarksHold
  <2> QED
    BY <2>1, RevisionsAssumption DEF EditingInv, RevisionNumbers
<1>2. Newest # 0 => Newest \in RevisionNumbers
  BY NewestIsReleased
<1>3. \A o \in seen.ops : Target(o) \in RevisionNumbers
  <2> HIDE DEF Newest
  <2>1. \A o : Target(o) \in {uses[o], Newest} /\ (Newest = 0 => Target(o) = uses[o])
    BY DEF Target
  <2> QED
    BY <2>1, <1>1, <1>2
<1>4. \A o \in seen.ops \ Touched : Target(o) = uses[o]
  BY DEF Touched, Target
<1>5. RevisionNumbers \subseteq 0 .. Len(Revisions) /\ 0 \notin RevisionNumbers
  BY RevisionsAssumption DEF RevisionNumbers
<1> QED
  BY <1>3, <1>4, <1>5 DEF Touched


\* One operator after the other: what the upgrades make of a set of operators.
Start == [content |-> seen, interface |-> seenInterface]

Step(o, w) ==
    [content |-> Upgraded(w.content, o, current[Target(o)]),
     interface |-> UpgradedInterface(w.interface, w.content,
                                     Upgraded(w.content, o, current[Target(o)]))]

FirstOf(s) == CHOOSE o \in s : TRUE

RoundOf(h, s) == IF s = {} THEN Start ELSE Step(FirstOf(s), h[s \ {FirstOf(s)}])

RoundsTo(n, h) == \A s \in SUBSET Touched : Cardinality(s) <= n => h[s] = RoundOf(h, s)

LEMMA TouchedSubsets ==
    ASSUME EditingInv
    PROVE  /\ IsFiniteSet(Touched)
           /\ \A s \in SUBSET Touched :
                 /\ Cardinality(s) \in Nat /\ Cardinality(s) <= Cardinality(Touched)
                 /\ Cardinality(s) = 0 <=> s = {}
                 /\ s # {} => /\ FirstOf(s) \in s /\ s \ {FirstOf(s)} \in SUBSET Touched
                              /\ Cardinality(s \ {FirstOf(s)}) = Cardinality(s) - 1
<1>1. IsFiniteSet(Touched)
  <2>1. Touched \in SUBSET Operators
    BY SeenFacts, ContentFields DEF WellFormed, Touched
  <2> QED
    BY <2>1, ContentAssumption, FS_Subset
<1>2. ASSUME NEW s \in SUBSET Touched
      PROVE  /\ Cardinality(s) \in Nat /\ Cardinality(s) <= Cardinality(Touched)
             /\ Cardinality(s) = 0 <=> s = {}
             /\ s # {} => /\ FirstOf(s) \in s /\ s \ {FirstOf(s)} \in SUBSET Touched
                          /\ Cardinality(s \ {FirstOf(s)}) = Cardinality(s) - 1
  <2>1. IsFiniteSet(s) /\ Cardinality(s) <= Cardinality(Touched)
    BY <1>1, FS_Subset
  <2>2. Cardinality(s) \in Nat /\ (Cardinality(s) = 0 <=> s = {})
    BY <2>1, FS_CardinalityType, FS_EmptySet
  <2>3. s # {} => FirstOf(s) \in s
    BY DEF FirstOf
  <2>4. FirstOf(s) \in s => Cardinality(s \ {FirstOf(s)}) = Cardinality(s) - 1
    BY <2>1, FS_RemoveElement
  <2> QED
    BY <2>1, <2>2, <2>3, <2>4
<1> QED
  BY <1>1, <1>2

LEMMA UpgradesExist ==
    ASSUME EditingInv, NEW N \in Nat
    PROVE  \E h : RoundsTo(N, h)
<1> DEFINE T == {k \in Nat : ~ \E h : RoundsTo(k, h)}
<1>1. T = {}
  <2> SUFFICES ASSUME T # {} PROVE FALSE
    OBVIOUS
  <2>1. PICK k \in T : \A m \in T : k <= m
    <3>1. T \subseteq Nat
      OBVIOUS
    <3> HIDE DEF T
    <3> QED
      BY <3>1, LeastNumber
  <2>2. CASE k = 0
    <3> DEFINE h == [s \in SUBSET Touched |-> Start]
    <3>1. ASSUME NEW s \in SUBSET Touched, Cardinality(s) <= 0 PROVE h[s] = RoundOf(h, s)
      <4>1. s = {}
        <5>1. Cardinality(s) \in Nat /\ (Cardinality(s) = 0 <=> s = {})
          BY TouchedSubsets
        <5> QED
          BY <5>1, <3>1
      <4> QED
        BY <4>1 DEF RoundOf
    <3> HIDE DEF h
    <3>2. RoundsTo(0, h)
      BY <3>1 DEF RoundsTo
    <3> QED
      BY <3>2, <2>1, <2>2
  <2>3. CASE k # 0
    <3>1. k \in Nat /\ k - 1 \in Nat /\ ~ (k - 1 \in T)
      BY <2>1, <2>3
    <3>2. PICK g : RoundsTo(k - 1, g)
      BY <3>1
    <3> DEFINE h == [s \in SUBSET Touched |->
                       IF Cardinality(s) <= k - 1 THEN g[s] ELSE RoundOf(g, s)]
    <3> HIDE DEF T
    <3>3. ASSUME NEW s \in SUBSET Touched, Cardinality(s) <= k PROVE h[s] = RoundOf(h, s)
      <4>1. h[s] = RoundOf(g, s)
        <5>1. Cardinality(s) <= k - 1 => g[s] = RoundOf(g, s)
          BY <3>2 DEF RoundsTo
        <5> QED
          BY <5>1
      <4>2. CASE s = {}
        BY <4>1, <4>2 DEF RoundOf
      <4>3. CASE s # {}
        <5> DEFINE r == s \ {FirstOf(s)}
        <5>1. r \in SUBSET Touched /\ Cardinality(r) = Cardinality(s) - 1 /\ Cardinality(s) \in Nat
          BY <4>3, TouchedSubsets
        <5>2. Cardinality(r) <= k - 1
          BY <5>1, <3>1, <3>3
        <5> HIDE DEF r
        <5>3. h[r] = g[r]
          BY <5>1, <5>2
        <5> HIDE DEF h
        <5> QED
          BY <4>1, <4>3, <5>3 DEF RoundOf, r
      <4> QED
        BY <4>2, <4>3
    <3>4. RoundsTo(k, h)
      <4> HIDE DEF h
      <4> QED
        BY <3>3 DEF RoundsTo
    <3> QED
      BY <3>4, <2>1 DEF T
  <2> QED
    BY <2>2, <2>3
<1> QED
  BY <1>1

LEMMA AllUpgradedIs ==
    ASSUME EditingInv
    PROVE  \E h : /\ \A s \in SUBSET Touched : h[s] = RoundOf(h, s)
                  /\ AllUpgraded = h[Touched]
<1>1. PICK g : \A s \in SUBSET Touched : g[s] = RoundOf(g, s)
  <2>1. Cardinality(Touched) \in Nat
    BY TouchedSubsets
  <2>2. PICK g : RoundsTo(Cardinality(Touched), g)
    BY <2>1, UpgradesExist
  <2>3. \A s \in SUBSET Touched : g[s] = RoundOf(g, s)
    BY <2>2, TouchedSubsets DEF RoundsTo
  <2> QED
    BY <2>3
<1> DEFINE f == [s \in SUBSET Touched |-> g[s]]
           h == CHOOSE x : x = [s \in SUBSET Touched |->
                  IF s = {} THEN Start ELSE Step(FirstOf(s), x[s \ {FirstOf(s)}])]
<1>2. f = [s \in SUBSET Touched |-> IF s = {} THEN Start ELSE Step(FirstOf(s), f[s \ {FirstOf(s)}])]
  <2>1. ASSUME NEW s \in SUBSET Touched
        PROVE  g[s] = IF s = {} THEN Start ELSE Step(FirstOf(s), f[s \ {FirstOf(s)}])
    <3>1. CASE s = {}
      BY <3>1, <1>1 DEF RoundOf
    <3>2. CASE s # {}
      <4> DEFINE r == s \ {FirstOf(s)}
      <4>1. r \in SUBSET Touched
        OBVIOUS
      <4> HIDE DEF r
      <4>2. f[r] = g[r]
        BY <4>1
      <4> HIDE DEF f
      <4>3. g[s] = Step(FirstOf(s), g[r])
        BY <3>2, <1>1 DEF RoundOf, r
      <4> QED
        BY <4>2, <4>3, <3>2 DEF r
    <3> QED
      BY <3>1, <3>2
  <2> QED
    BY <2>1
<1>3. h = [s \in SUBSET Touched |-> IF s = {} THEN Start ELSE Step(FirstOf(s), h[s \ {FirstOf(s)}])]
  <2> HIDE DEF f
  <2> QED
    BY <1>2
<1>4. AllUpgraded = h[Touched]
  BY DEF AllUpgraded, FoldSet, MapThenFoldSet, Step, Start, FirstOf
<1> HIDE DEF h
<1>5. ASSUME NEW s \in SUBSET Touched PROVE h[s] = RoundOf(h, s)
  BY <1>3 DEF RoundOf
<1> QED
  BY <1>4, <1>5


\* After the upgrades of the operators in s.
UpgradedAre(s, v) ==
    /\ WellFormed(v.content) /\ OneKindOfTarget(v.content)
    /\ v.content.ops = seen.ops /\ v.content.links = seen.links
    /\ v.interface = InterfaceOf(v.content)
    /\ \A o \in s : /\ Matches(v.content, o, current[Target(o)])
                    /\ Carried(seen, v.content, o, current[Target(o)])
    /\ \A o \in seen.ops \ s : Untouched(seen, v.content, o)

LEMMA StepUpgrades ==
    ASSUME EditingInv, NEW x \in Touched, HasUuids(seen, x, current[Target(x)]),
           NEW s \in SUBSET Touched, x \notin s, NEW v, UpgradedAre(s, v)
    PROVE  UpgradedAre(s \cup {x}, Step(x, v))
<1> DEFINE rev == current[Target(x)]
           c == v.content
           u == Upgraded(c, x, rev)
<1>1. /\ WellFormed(c) /\ OneKindOfTarget(c) /\ c.ops = seen.ops /\ c.links = seen.links
      /\ v.interface = InterfaceOf(c)
      /\ \A o \in s : /\ Matches(c, o, current[Target(o)])
                      /\ Carried(seen, c, o, current[Target(o)])
      /\ \A o \in seen.ops \ s : Untouched(seen, c, o)
  BY DEF UpgradedAre
<1>2. /\ x \in seen.ops /\ x \in Operators /\ NamesFit(rev) /\ HasUuids(seen, x, rev)
      /\ seen.ops \subseteq Operators /\ s \subseteq seen.ops
      /\ \A i \in seen.ins[x] : i.required => i.exposed
  <2>1. seen.ops \subseteq Operators /\ \A o \in Touched : o \in seen.ops
    BY SeenFacts, ContentFields, TargetFacts DEF WellFormed
  <2>2. NamesFit(rev)
    BY TargetFacts, RevisionNamesFit
  <2>3. \A i \in seen.ins[x] : i.required => i.exposed
    BY <2>1, SeenFacts DEF MarksHold
  <2> QED
    BY <2>1, <2>2, <2>3
<1>3. Step(x, v).content = u /\ Step(x, v).interface = UpgradedInterface(InterfaceOf(c), c, u)
  BY <1>1 DEF Step
<1> HIDE DEF c, u, rev
<1>4. Untouched(seen, c, x)
  BY <1>1, <1>2
<1>5. Upgradable(c, x, rev)
  <2>1. HasUuids(c, x, rev)
    BY <1>2, <1>4, UntouchedFacts
  <2>2. c.ins[x] = seen.ins[x]
    BY <1>4 DEF Untouched
  <2> QED
    BY <2>1, <2>2, <1>1, <1>2 DEF Upgradable
<1>6. WellFormed(u) /\ OneKindOfTarget(u) /\ UpgradedInterface(InterfaceOf(c), c, u) = InterfaceOf(u)
  BY <1>1, <1>2, <1>5, UpgradedIsWellFormed DEF u
<1>7. u.ops = seen.ops /\ u.links = seen.links
  <2>1. IsUpgrade(u, c, x, rev)
    BY <1>2, <1>5, UpgradedFields DEF u
  <2> QED
    BY <2>1, <1>1, <1>2 DEF IsUpgrade
<1>8. Matches(u, x, rev) /\ Carried(c, u, x, rev)
  BY <1>2, <1>5, UpgradedMatches, UpgradeCarries DEF u
<1>9. Carried(seen, u, x, rev)
  BY <1>4, <1>8, UntouchedOnAndOn
<1>10. \A o \in Operators \ {x} : Untouched(c, u, o)
  BY <1>2, <1>5, OthersUntouched DEF u
<1>11. ASSUME NEW o \in s
       PROVE  Matches(u, o, current[Target(o)]) /\ Carried(seen, u, o, current[Target(o)])
  <2>1. Untouched(c, u, o)
    BY <1>2, <1>10
  <2> QED
    BY <2>1, <1>1, UntouchedFacts, UntouchedOnAndOn
<1>12. ASSUME NEW o \in seen.ops \ (s \cup {x}) PROVE Untouched(seen, u, o)
  <2>1. Untouched(c, u, o) /\ Untouched(seen, c, o)
    BY <1>1, <1>2, <1>10
  <2> QED
    BY <2>1, UntouchedOnAndOn
<1>13. Matches(u, x, current[Target(x)]) /\ Carried(seen, u, x, current[Target(x)])
  BY <1>8, <1>9 DEF rev
<1> QED
  BY <1>3, <1>6, <1>7, <1>11, <1>12, <1>13 DEF UpgradedAre

LEMMA AllAreUpgraded ==
    ASSUME EditingInv, \A o \in Touched : HasUuids(seen, o, current[Target(o)])
    PROVE  UpgradedAre(Touched, AllUpgraded)
<1>1. PICK h : (\A s \in SUBSET Touched : h[s] = RoundOf(h, s)) /\ AllUpgraded = h[Touched]
  BY AllUpgradedIs
<1> DEFINE Bad == {s \in SUBSET Touched : ~ UpgradedAre(s, h[s])}
           Sizes == {Cardinality(s) : s \in Bad}
<1>2. Bad = {}
  <2> SUFFICES ASSUME Bad # {} PROVE FALSE
    OBVIOUS
  <2>1. Bad \subseteq SUBSET Touched
    OBVIOUS
  <2> HIDE DEF Bad
  <2>2. Sizes \subseteq Nat /\ Sizes # {}
    <3>1. \A s \in SUBSET Touched : Cardinality(s) \in Nat
      BY TouchedSubsets
    <3> QED
      BY <3>1, <2>1
  <2>3. PICK n \in Sizes : \A m \in Sizes : n <= m
    <3> HIDE DEF Sizes
    <3> QED
      BY <2>2, LeastNumber
  <2>4. PICK s \in Bad : \A r \in Bad : Cardinality(s) <= Cardinality(r)
    BY <2>3
  <2> HIDE DEF Sizes
  <2>5. s \in SUBSET Touched /\ ~ UpgradedAre(s, h[s])
    BY <2>4 DEF Bad
  <2>6. h[s] = RoundOf(h, s)
    BY <2>5, <1>1
  <2>7. CASE s = {}
    <3>1. h[s].content = seen /\ h[s].interface = seenInterface
      BY <2>6, <2>7 DEF RoundOf, Start
    <3>2. \A o \in seen.ops : Untouched(seen, seen, o)
      BY DEF Untouched
    <3> QED
      BY <3>1, <3>2, <2>5, <2>7, SeenFacts DEF UpgradedAre
  <2>8. CASE s # {}
    <3> DEFINE x == FirstOf(s)
               r == s \ {x}
    <3>1. x \in s /\ r \in SUBSET Touched /\ Cardinality(r) = Cardinality(s) - 1
          /\ Cardinality(s) \in Nat
      BY <2>5, <2>8, TouchedSubsets
    <3>2. h[s] = Step(x, h[r])
      BY <2>6, <2>8 DEF RoundOf
    <3>3. s = r \cup {x} /\ x \notin r
      BY <3>1
    <3> HIDE DEF x, r
    <3>4. ~ (Cardinality(s) <= Cardinality(r))
      BY <3>1
    <3>5. r \notin Bad
      BY <3>4, <2>4
    <3>6. UpgradedAre(r, h[r])
      BY <3>1, <3>5 DEF Bad
    <3>7. x \in Touched /\ HasUuids(seen, x, current[Target(x)])
      BY <3>1, <2>5
    <3>8. UpgradedAre(r \cup {x}, Step(x, h[r]))
      BY <3>1, <3>3, <3>6, <3>7, StepUpgrades
    <3> QED
      BY <3>2, <3>3, <3>8, <2>5
  <2> QED
    BY <2>7, <2>8
<1> QED
  BY <1>1, <1>2

LEMMA UpgradeAllUpgrades ==
    ASSUME EditingInv, UpgradeAll
    PROVE  /\ UpgradeOf(seen, stored', uses') /\ interface' = InterfaceOf(stored')
           /\ \A o \in Touched : uses'[o] = Target(o) /\ Matches(stored', o, current[uses'[o]])
           /\ \A o \in seen.ops \ Touched : uses'[o] = uses[o]
           /\ \A o \in seen.ops : MarksHold(stored', o, uses'[o], drafts')
<1>1. /\ \A o \in Touched : HasUuids(seen, o, current[Target(o)])
      /\ stored' = AllUpgraded.content /\ interface' = AllUpgraded.interface
      /\ uses' = [o \in Operators |-> IF o \in seen.ops THEN Target(o) ELSE 0]
      /\ drafts' = {o \in drafts : uses[o] > published}
  BY DEF UpgradeAll, Write
<1>2. UpgradedAre(Touched, AllUpgraded)
  BY <1>1, AllAreUpgraded
<1>3. /\ WellFormed(stored') /\ OneKindOfTarget(stored') /\ interface' = InterfaceOf(stored')
      /\ stored'.ops = seen.ops /\ stored'.links = seen.links
      /\ \A o \in Touched : /\ Matches(stored', o, current[Target(o)])
                            /\ Carried(seen, stored', o, current[Target(o)])
      /\ \A o \in seen.ops \ Touched : Untouched(seen, stored', o)
  BY <1>1, <1>2 DEF UpgradedAre
<1>4. ASSUME NEW o \in seen.ops
      PROVE  /\ uses'[o] = Target(o) /\ (o \notin Touched => uses'[o] = uses[o])
             /\ MarksHold(stored', o, uses'[o], drafts')
             /\ Carried(seen, stored', o, current[uses'[o]])
  <2>1. o \in Operators /\ MarksHold(seen, o, uses[o], drafts)
    BY SeenFacts, ContentFields DEF WellFormed
  <2>2. uses'[o] = Target(o) /\ Target(o) # 0
    BY <2>1, <1>1, TargetFacts
  <2>3. CASE o \in Touched
    <3>1. Matches(stored', o, current[uses'[o]]) /\ Carried(seen, stored', o, current[uses'[o]])
      BY <2>2, <2>3, <1>3
    <3>2. uses'[o] > published => o \in drafts'
      <4>1. CASE o \in drafts
        <5>1. Target(o) = uses[o]
          BY <4>1 DEF Target
        <5> QED
          BY <4>1, <5>1, <1>1, <2>2
      <4>2. CASE o \notin drafts
        <5>1. Target(o) = Newest /\ Newest # 0
          BY <4>2, <2>3 DEF Target, Touched
        <5>2. Newest \in 1 .. published /\ published \in Nat
          BY <5>1, NewestIsReleased DEF EditingInv
        <5> QED
          BY <5>1, <5>2, <2>2
      <4> QED
        BY <4>1, <4>2
    <3>3. \A i \in stored'.ins[o] : i.required => i.exposed
      BY <3>1 DEF Matches
    <3> QED
      BY <3>1, <3>2, <3>3, <2>2, <2>3 DEF MarksHold
  <2>4. CASE o \notin Touched
    <3>1. Target(o) = uses[o] /\ o \notin drafts /\ o \notin drafts'
      BY <2>4, <1>1, TargetFacts DEF Touched
    <3>2. Untouched(seen, stored', o)
      BY <2>4, <1>3
    <3>3. Carried(seen, stored', o, current[uses[o]]) /\ stored'.ins[o] = seen.ins[o]
          /\ \A rev : Matches(stored', o, rev) <=> Matches(seen, o, rev)
      BY <3>2, UntouchedFacts DEF Untouched
    <3> QED
      BY <3>1, <3>3, <2>1, <2>2 DEF MarksHold
  <2> QED
    BY <2>3, <2>4
<1>5. \A o \in Touched : uses'[o] = Target(o) /\ Matches(stored', o, current[uses'[o]])
  BY <1>3, <1>4, TargetFacts
<1> QED
  BY <1>3, <1>4, <1>5 DEF UpgradeOf

LEMMA UpgradeAllKeepsInv ==
    ASSUME EditingInv, UpgradeAll
    PROVE  EditingInv'
<1>1. /\ uses' = [o \in Operators |-> IF o \in seen.ops THEN Target(o) ELSE 0]
      /\ drafts' \subseteq drafts /\ UNCHANGED <<current, published, deprecated>>
  BY DEF UpgradeAll
<1>2. uses' \in [Operators -> 0 .. Len(Revisions)]
  BY <1>1, TargetFacts, RevisionsAssumption
<1>3. drafts' \in SUBSET seen.ops
  BY <1>1, SeenFacts DEF EditingInv
<1> QED
  BY <1>1, <1>2, <1>3, UpgradeAllUpgrades, UpgradeKeepsInv


-----------------------------------------------------------------------------
(* Theorems.                                                               *)

LEMMA InitEditing == Init => EditingInv
<1> SUFFICES ASSUME Init PROVE EditingInv
  OBVIOUS
<1>1. /\ stored = NoContent /\ interface = InterfaceOf(NoContent)
      /\ uses = [o \in Operators |-> 0] /\ drafts = {}
      /\ published = 1 /\ deprecated = {} /\ current \in [RevisionNumbers -> Shapes]
  BY DEF Init
<1>2. /\ NoContent \in Contents /\ NoContent.ops = {} /\ NoContent.links = {}
      /\ NoContent.inputs = {} /\ NoContent.outputs = {} /\ NoContent.constants = {}
      /\ \A o \in Operators : NoContent.ins[o] = {} /\ NoContent.outs[o] = {}
  BY DEF NoContent, Contents
<1>3. WellFormed(NoContent) /\ OneKindOfTarget(NoContent)
  BY <1>2 DEF WellFormed, EndsBelong, SingleSources, ConnectorsNamed, OneKindOfTarget
<1>4. Len(Revisions) \in Nat /\ 1 \in 0 .. Len(Revisions)
  BY RevisionsAssumption
<1>5. uses \in [Operators -> 0 .. Len(Revisions)]
  BY <1>1, <1>4
<1> QED
  BY <1>1, <1>2, <1>3, <1>4, <1>5 DEF EditingInv

LEMMA NextEditing == EditingInv /\ [Next]_vars => EditingInv'
<1> SUFFICES ASSUME EditingInv, [Next]_vars PROVE EditingInv'
  OBVIOUS
<1>1. CASE UNCHANGED vars
  <2>1. UNCHANGED <<stored, interface, current, uses, drafts, published, deprecated>>
    BY <1>1 DEF vars
  <2> QED
    BY <2>1 DEF EditingInv, MarksHold
<1>2. ASSUME NEW op \in Operators, NEW r \in RevisionNumbers, AddOperator(op, r) PROVE EditingInv'
  BY <1>2, AddOperatorKeepsInv
<1>3. ASSUME NEW op \in Operators, NEW r \in RevisionNumbers, ChangeRevision(op, r) PROVE EditingInv'
  BY <1>3, ChangeRevisionKeepsInv
<1>4. ASSUME NEW op \in Operators, RemoveOperator(op) PROVE EditingInv'
  BY <1>4, RemoveOperatorKeepsInv
<1>5. ASSUME NEW op \in Operators, ShowOptional(op) PROVE EditingInv'
  BY <1>5, ShowOptionalKeepsInv
<1>6. ASSUME NEW a \in Operators, NEW b \in Operators, DrawLink(a, b) PROVE EditingInv'
  BY <1>6, DrawLinkKeepsInv
<1>7. CASE RemoveLink
  BY <1>7, RemoveLinkKeepsInv
<1>8. CASE NameInput
  BY <1>8, NameInputKeepsInv
<1>9. CASE NameOutput
  BY <1>9, NameOutputKeepsInv
<1>10. CASE FixInput
  BY <1>10, FixInputKeepsInv
<1>11. CASE ReleaseInput
  BY <1>11, ReleaseInputKeepsInv
<1>12. CASE Publish
  BY <1>12, PublishKeepsInv
<1>13. CASE UpgradeAll
  BY <1>13, UpgradeAllKeepsInv
<1>14. ASSUME NEW r \in RevisionNumbers, EditDraft(r) PROVE EditingInv'
  BY <1>14, EditDraftKeepsInv
<1> QED
  BY <1>1, <1>2, <1>3, <1>4, <1>5, <1>6, <1>7, <1>8, <1>9, <1>10, <1>11, <1>12, <1>13, <1>14 DEF Next

\* Whatever is edited, upgraded, shown, hidden or released, the stored content is
\* well-formed: links name the operators they end at, no connector has two
\* sources of a kind, a constant is the only source of its operator input, an
\* operator's inputs and outputs differ by name, and its interface is its own.
THEOREM EditingInvariant == Spec => []EditingInv
<1>1. Init => EditingInv
  BY InitEditing
<1>2. EditingInv /\ [Next]_vars => EditingInv'
  BY NextEditing
<1> QED
  BY <1>1, <1>2, PTL DEF Spec

\* In what the editor and an execution read every shown operator input has exactly
\* one source: the validators drop the input of the workflow where a link leads, and
\* add one where nothing does.
THEOREM InputsAreFedOnce == Spec => []ShownInputsAreFedOnce
<1>1. EditingInv => ShownInputsAreFedOnce
  <2> SUFFICES ASSUME EditingInv, NEW o \in seen.ops, NEW i \in seen.ins[o], i.exposed
               PROVE  Cardinality(Feeders(seen, <<o, i.id>>)) = 1
    BY DEF ShownInputsAreFedOnce
  <2>1. WellFormed(seen) /\ Validated(seen) = seen
    BY SeenFacts
  <2>2. \A p \in seen.ops : \A j \in seen.ins[p] :
           j.exposed => \E x : Feeders(Validated(seen), <<p, j.id>>) = {x}
    BY <2>1, ValidatedIsFedOnce
  <2>3. PICK x : Feeders(seen, <<o, i.id>>) = {x}
    BY <2>1, <2>2
  <2>4. Cardinality({x}) = 1
    BY FS_Singleton
  <2> QED
    BY <2>3, <2>4
<1> QED
  BY <1>1, EditingInvariant, PTL

\* One round of the validators is enough: what is read is not changed again when it is
\* saved and read, and the interface stored next to the content is the content's.
THEOREM ReadingStaysStable == Spec => []ReadingIsStable
<1>1. EditingInv => ReadingIsStable
  <2> SUFFICES ASSUME EditingInv PROVE ReadingIsStable
    OBVIOUS
  <2>1. Validated(seen) = seen /\ seenInterface = InterfaceOf(seen)
    BY SeenFacts
  <2>2. interface = InterfaceOf(stored)
    BY DEF EditingInv
  <2> QED
    BY <2>1, <2>2 DEF ReadingIsStable
<1> QED
  BY <1>1, EditingInvariant, PTL

\* Operators marked neither as a draft's nor as deprecated look like their revisions,
\* whatever was edited before: what was made from a draft keeps its mark until an upgrade
\* looks at the revision again.
THEOREM OperatorsLookLikeTheirRevisions == Spec => []OperatorsMatchRevisions
<1>1. EditingInv => OperatorsMatchRevisions
  <2> SUFFICES ASSUME EditingInv PROVE OperatorsMatchRevisions
    OBVIOUS
  <2>1. \A o \in seen.ops : MarksHold(seen, o, uses[o], drafts)
    BY SeenFacts
  <2> QED
    BY <2>1, Zenon DEF OperatorsMatchRevisions, MarksHold, Matches, LooksLike
<1> QED
  BY <1>1, EditingInvariant, PTL

LEMMA OperatorShown ==
    ASSUME EditingInv', NEW o, NEW rev, Matches(stored', o, rev)
    PROVE  LooksLike(o, rev)'
<1>1. seen'.ins = stored'.ins /\ seen'.outs = stored'.outs
  BY ValidatedFields DEF EditingInv, WellFormed, seen
<1> QED
  BY <1>1, Zenon DEF LooksLike, Matches

\* No upgrade leaves an operator at an outdated draft: the upgrade of all looks at every
\* draft as it is now, and so do the upgrade of one operator and a new one.
THEOREM UpgradesAreUpToDate == Spec => UpgradesBringUpToDate
<1>1. EditingInv /\ [Next]_vars =>
        [/\ UpgradeAll => \A o \in seen.ops :
              o \in drafts \/ Newest # 0 => LooksLike(o, current[uses[o]])'
         /\ \A o \in Operators :
              uses'[o] \notin {0, uses[o]} => LooksLike(o, current[uses[o]])']_vars
  <2> SUFFICES ASSUME EditingInv, Next
               PROVE  /\ UpgradeAll => \A o \in seen.ops :
                            o \in drafts \/ Newest # 0 => LooksLike(o, current[uses[o]])'
                      /\ \A o \in Operators :
                            uses'[o] \notin {0, uses[o]} => LooksLike(o, current[uses[o]])'
    OBVIOUS
  <2>1. EditingInv'
    BY NextEditing
  <2>2. ASSUME UpgradeAll, NEW o \in seen.ops, o \in drafts \/ Newest # 0
        PROVE  LooksLike(o, current[uses[o]])'
    <3>1. o \in Touched
      BY <2>2 DEF Touched
    <3>2. Matches(stored', o, current[uses'[o]]) /\ current' = current
      BY <2>2, <3>1, UpgradeAllUpgrades DEF UpgradeAll
    <3>3. Matches(stored', o, current'[uses'[o]])
      BY <3>2
    <3> QED
      BY <2>1, <3>3, OperatorShown
  <2>3. ASSUME NEW o \in Operators, uses'[o] \notin {0, uses[o]}
        PROVE  Matches(stored', o, current'[uses'[o]])
    <3>1. CASE \E op \in Operators, r \in RevisionNumbers : AddOperator(op, r)
      <4>1. PICK op \in Operators, r \in RevisionNumbers : AddOperator(op, r)
        BY <3>1
      <4>2. uses' = [uses EXCEPT ![op] = r] /\ current' = current
        BY <4>1 DEF AddOperator
      <4>3. o = op /\ uses'[o] = r
        BY <4>2, <2>3 DEF EditingInv
      <4> QED
        BY <4>1, <4>2, <4>3, AddOperatorKeepsInv
    <3>2. CASE \E op \in Operators, r \in RevisionNumbers : ChangeRevision(op, r)
      <4>1. PICK op \in Operators, r \in RevisionNumbers : ChangeRevision(op, r)
        BY <3>2
      <4>2. uses' = [uses EXCEPT ![op] = r] /\ current' = current
        BY <4>1 DEF ChangeRevision
      <4>3. o = op /\ uses'[o] = r
        BY <4>2, <2>3 DEF EditingInv
      <4> QED
        BY <4>1, <4>2, <4>3, ChangeRevisionUpgrades
    <3>3. CASE UpgradeAll
      <4>1. o \in seen.ops
        BY <3>3, <2>3 DEF UpgradeAll
      <4>2. o \in Touched
        BY <3>3, <4>1, <2>3, UpgradeAllUpgrades
      <4>3. Matches(stored', o, current[uses'[o]]) /\ current' = current
        BY <3>3, <4>2, UpgradeAllUpgrades DEF UpgradeAll
      <4> QED
        BY <4>3
    <3>4. CASE \E op \in Operators : RemoveOperator(op)
      BY <3>4, <2>3 DEF RemoveOperator, EditingInv
    <3>5. CASE uses' = uses
      BY <3>5, <2>3
    <3>6. /\ \A op \in Operators : ShowOptional(op) => uses' = uses
          /\ \A a, b \in Operators : DrawLink(a, b) => uses' = uses
          /\ \A r \in RevisionNumbers : EditDraft(r) => uses' = uses
          /\ RemoveLink \/ Publish => uses' = uses
      BY DEF ShowOptional, DrawLink, EditDraft, RemoveLink, Publish
    <3>7. NameInput \/ NameOutput \/ FixInput \/ ReleaseInput => uses' = uses
      BY DEF NameInput, NameOutput, FixInput, ReleaseInput, Configure
    <3> QED
      BY <3>1, <3>2, <3>3, <3>4, <3>5, <3>6, <3>7 DEF Next
  <2> QED
    BY <2>1, <2>2, <2>3, OperatorShown
<1> QED
  BY <1>1, EditingInvariant, PTL DEF Spec, UpgradesBringUpToDate


-----------------------------------------------------------------------------
(* Connections survive upgrades.                                           *)

\* A content no validator changes.
Settled(s) ==
    /\ WellFormed(s) /\ FittingLinks(s) = s.links
    /\ \A io \in s.inputs : InputStays(s, s.links, io)
    /\ \A io \in s.outputs : OutputStays(s, s.links, io)

LinkFits(c, l) ==
    /\ l.from.op # NoOperator =>
          \E p \in c.outs[l.from.at[1]] : p.id = l.from.at[2] /\ p.dt = l.from.dt
    /\ l.to.op # NoOperator =>
          \E i \in c.ins[l.to.at[1]] : i.id = l.to.at[2] /\ i.dt = l.to.dt /\ i.exposed

LEMMA FittingAre ==
    ASSUME NEW c, NEW l
    PROVE  l \in FittingLinks(c) <=> l \in c.links /\ LinkFits(c, l)
BY DEF FittingLinks, StartFits, EndFits, OutputAt, InputAt, LinkFits

\* The revision's input i keeps, at operator o.
KeepsIn(rev, i) == \E t \in rev.inputs : t.name = i.id[1] /\ t.dt = i.dt
KeepsOut(rev, p) == \E t \in rev.outputs : t.name = p.id[1] /\ t.dt = p.dt

LEMMA CarriedIn ==
    ASSUME NEW s, NEW w, NEW o, NEW rev, Carried(s, w, o, rev), NEW i \in s.ins[o], KeepsIn(rev, i)
    PROVE  /\ \E j \in w.ins[o] : j.id = i.id /\ j.dt = i.dt /\ (i.exposed => j.exposed)
           /\ \A io \in s.inputs : io.at = <<o, i.id>> => io \in w.inputs
           /\ \A const \in s.constants : const.at = <<o, i.id>> /\ const.dt = i.dt
                                            => const \in w.constants
BY DEF Carried, KeepsIn

LEMMA CarriedOut ==
    ASSUME NEW s, NEW w, NEW o, NEW rev, Carried(s, w, o, rev), NEW p \in s.outs[o], KeepsOut(rev, p)
    PROVE  /\ \E q \in w.outs[o] : q.id = p.id /\ q.dt = p.dt
           /\ \A io \in s.outputs : io.at = <<o, p.id>> => io \in w.outputs
BY DEF Carried, KeepsOut

\* A link between operators whose ends the revisions keep.
LEMMA LinkSurvives ==
    ASSUME NEW s, Settled(s), NEW w, NEW use, UpgradeOf(s, w, use),
           NEW o \in s.ops, NEW i \in s.ins[o], i.exposed, KeepsIn(current[use[o]], i),
           NEW f \in s.links, f.from.op # NoOperator, f.to.at = <<o, i.id>>,
           \A p \in s.outs[f.from.op] :
              p.id = f.from.at[2] /\ p.dt = f.from.dt => KeepsOut(current[use[f.from.op]], p)
    PROVE  f \in NewLinks(w)
<1>1. /\ s \in Contents /\ EndsBelong(s) /\ ConnectorsNamed(s) /\ LinkFits(s, f)
      /\ s.ops \subseteq Operators /\ NoOperator \notin Operators
  BY FittingAre, ContentFields, ContentAssumption DEF Settled, WellFormed
<1>2. WellFormed(w) /\ w.links = s.links
      /\ \A q \in s.ops : Carried(s, w, q, current[use[q]])
  BY DEF UpgradeOf
<1>3. f.from.op = f.from.at[1] /\ f.to.at[1] = o /\ f.to.at[2] = i.id
  BY <1>1 DEF EndsBelong
<1>4. PICK p \in s.outs[f.from.op] : p.id = f.from.at[2] /\ p.dt = f.from.dt
  BY <1>1, <1>3 DEF LinkFits
<1>5. f.from.op \in s.ops
  <2>1. f.from.op \in Operators
    BY <1>1, ContentFields DEF LinkSpace, Vertices
  <2> QED
    BY <2>1, <1>1, <1>4 DEF ConnectorsNamed
<1>6. f.to.op # NoOperator
  <2> SUFFICES ASSUME f.to.op = NoOperator PROVE FALSE
    OBVIOUS
  <2>1. f.from.at = <<o, i.id>>
    BY <1>1 DEF EndsBelong, Inner
  <2>2. f.from.op = o /\ p.id = i.id
    BY <2>1, <1>3, <1>4
  <2>3. o \in s.ops /\ i \in s.ins[o] /\ p \in s.outs[o]
    BY <2>2, <1>4
  <2>4. i.id[1] # p.id[1]
    BY <2>3, <1>1 DEF ConnectorsNamed
  <2> QED
    BY <2>2, <2>4
<1>7. f.to.dt = i.dt
  <2>1. PICK j \in s.ins[o] : j.id = i.id /\ j.dt = f.to.dt
    BY <1>1, <1>3, <1>6 DEF LinkFits
  <2> QED
    BY <2>1, <1>1 DEF ConnectorsNamed
<1>8. \E q \in w.outs[f.from.op] : q.id = p.id /\ q.dt = p.dt
  <2>1. KeepsOut(current[use[f.from.op]], p)
    BY <1>4
  <2>2. Carried(s, w, f.from.op, current[use[f.from.op]])
    BY <1>2, <1>5
  <2> QED
    BY <2>1, <2>2, CarriedOut
<1>9. \E j \in w.ins[o] : j.id = i.id /\ j.dt = i.dt /\ (i.exposed => j.exposed)
  BY <1>2, CarriedIn
<1>10. LinkFits(w, f)
  BY <1>3, <1>4, <1>7, <1>8, <1>9 DEF LinkFits
<1> QED
  BY <1>2, <1>6, <1>10, FittingAre, InnerLinksStay DEF Inner, WellFormed

\* An input of the workflow whose operator input the revision keeps.
LEMMA InputSurvives ==
    ASSUME NEW s, Settled(s), NEW w, NEW use, UpgradeOf(s, w, use),
           NEW o \in s.ops, NEW i \in s.ins[o], i.exposed, KeepsIn(current[use[o]], i),
           NEW f \in s.inputs, f.at = <<o, i.id>>
    PROVE  f \in NewInputs(w)
<1>1. /\ s \in Contents /\ ConnectorsNamed(s) /\ InputStays(s, s.links, f)
      /\ \A l \in s.links : LinkFits(s, l)
      /\ s.ops \subseteq Operators /\ NoOperator \notin Operators
  BY FittingAre, ContentFields, ContentAssumption DEF Settled, WellFormed
<1>2. w.links = s.links /\ Carried(s, w, o, current[use[o]])
  BY DEF UpgradeOf
<1>3. PICK j \in w.ins[o] : j.id = i.id /\ j.dt = i.dt /\ j.exposed
  BY <1>2, CarriedIn
<1>4. f \in w.inputs
  BY <1>2, CarriedIn
<1>5. f.at[1] = o /\ f.at[2] = i.id /\ o \in Operators /\ o # NoOperator
  BY <1>1
<1>6. \A h \in s.ins[o] : h.id = i.id => h = i
  BY <1>1, <1>5 DEF ConnectorsNamed
<1>7. Compatible(f.dt, i.dt)
  BY <1>1, <1>5, <1>6 DEF InputStays
<1>8. ASSUME NEW l \in s.links, l.from.op = NoOperator, l.to.op = o, l.to.at = f.at
      PROVE  l \in FittingLinks(w)
  <2>1. LinkFits(s, l)
    BY <1>1
  <2>2. l.to.dt = i.dt
    BY <2>1, <1>5, <1>6, <1>8 DEF LinkFits
  <2>3. LinkFits(w, l)
    BY <2>2, <1>3, <1>5, <1>8 DEF LinkFits
  <2> QED
    BY <2>3, <1>2, FittingAre
<1>9. InputStays(w, FittingLinks(w), f)
  <2>1. \A l \in FittingLinks(w) : l \in s.links
    BY <1>2, FittingAre
  <2>2. f.named => \E l \in FittingLinks(w) :
                      /\ l.from.op = NoOperator /\ l.from.at = f.at /\ l.from.dt = f.dt
                      /\ l.to.op = f.at[1] /\ l.to.at = f.at
    BY <1>1, <1>5, <1>8 DEF InputStays
  <2>3. \A l \in FittingLinks(w) : l.to.op = f.at[1] /\ l.to.at = f.at => l.from.op = NoOperator
    BY <2>1, <1>1 DEF InputStays
  <2> QED
    BY <2>2, <2>3, <1>3, <1>5, <1>7 DEF InputStays
<1> QED
  BY <1>4, <1>9, KeptAre DEF NewInputs

\* An output of the workflow whose operator output the revision keeps.
LEMMA OutputSurvives ==
    ASSUME NEW s, Settled(s), NEW w, NEW use, UpgradeOf(s, w, use),
           NEW o \in s.ops, NEW p \in s.outs[o], KeepsOut(current[use[o]], p),
           NEW f \in s.outputs, f.at = <<o, p.id>>
    PROVE  f \in NewOutputs(w)
<1>1. /\ s \in Contents /\ ConnectorsNamed(s) /\ OutputStays(s, s.links, f)
      /\ \A l \in s.links : LinkFits(s, l)
      /\ s.ops \subseteq Operators /\ NoOperator \notin Operators
  BY FittingAre, ContentFields, ContentAssumption DEF Settled, WellFormed
<1>2. w.links = s.links /\ Carried(s, w, o, current[use[o]])
  BY DEF UpgradeOf
<1>3. PICK q \in w.outs[o] : q.id = p.id /\ q.dt = p.dt
  BY <1>2, CarriedOut
<1>4. f \in w.outputs
  BY <1>2, CarriedOut
<1>5. f.at[1] = o /\ f.at[2] = p.id /\ o \in Operators /\ o # NoOperator
  BY <1>1
<1>6. \A h \in s.outs[o] : h.id = p.id => h = p
  BY <1>1, <1>5 DEF ConnectorsNamed
<1>7. Compatible(f.dt, p.dt)
  BY <1>1, <1>5, <1>6 DEF OutputStays
<1>8. ASSUME NEW l \in s.links, l.to.op = NoOperator, l.from.op = o, l.from.at = f.at
      PROVE  l \in FittingLinks(w)
  <2>1. LinkFits(s, l)
    BY <1>1
  <2>2. l.from.dt = p.dt
    BY <2>1, <1>5, <1>6, <1>8 DEF LinkFits
  <2>3. LinkFits(w, l)
    BY <2>2, <1>3, <1>5, <1>8 DEF LinkFits
  <2> QED
    BY <2>3, <1>2, FittingAre
<1>9. OutputStays(w, FittingLinks(w), f)
  <2>1. \A l \in FittingLinks(w) : l \in s.links
    BY <1>2, FittingAre
  <2>2. f.named => \E l \in FittingLinks(w) :
                      /\ l.to.op = NoOperator /\ l.to.at = f.at /\ l.to.dt = f.dt
                      /\ l.from.op = f.at[1] /\ l.from.at = f.at
    BY <1>1, <1>5, <1>8 DEF OutputStays
  <2>3. \A l \in FittingLinks(w) : l.from.op = f.at[1] /\ l.from.at = f.at => l.to.op = NoOperator
    BY <2>1, <1>1 DEF OutputStays
  <2> QED
    BY <2>2, <2>3, <1>3, <1>5, <1>7 DEF OutputStays
<1> QED
  BY <1>4, <1>9, KeptAre DEF NewOutputs


LEMMA SeenIsSettled ==
    ASSUME EditingInv
    PROVE  Settled(seen) /\ seen.ops \subseteq Operators /\ seen.outputs \subseteq ContentIOs
BY SeenFacts, ContentFields DEF Settled, WellFormed

\* What an operator input had from the workflow before and after.
LEMMA FeedersSurvive ==
    ASSUME EditingInv, UpgradeOf(seen, stored', uses'),
           NEW o \in seen.ops, NEW i \in seen.ins[o], i.exposed,
           KeepsIn(current[uses'[o]], i),
           NEW f \in Feeders(seen, <<o, i.id>>), f \in seen.constants => f.dt = i.dt,
           f \notin UpgradedSources(o)
    PROVE  f \in Feeders(seen', <<o, i.id>>)
<1>1. WellFormed(stored') /\ stored' \in Contents
      /\ Carried(seen, stored', o, current[uses'[o]])
  BY DEF UpgradeOf, WellFormed
<1>2. seen' = Validated(stored')
  BY DEF seen
<1>3. /\ seen'.links = NewLinks(stored') /\ seen'.inputs = NewInputs(stored')
      /\ seen'.constants = stored'.constants
  BY <1>1, <1>2, ValidatedFields
<1>4. CASE f \in seen.links /\ f.from.op # NoOperator /\ f.to.at = <<o, i.id>>
  <2>1. ASSUME NEW p \in seen.outs[f.from.op], p.id = f.from.at[2], p.dt = f.from.dt
        PROVE  KeepsOut(current[uses'[f.from.op]], p)
    <3>1. f.to.op = o \/ f.to.op = NoOperator
      BY <1>4, SeenIsSettled DEF Settled, WellFormed, EndsBelong
    <3>2. f.to.op # NoOperator
      <4> SUFFICES ASSUME f.to.op = NoOperator PROVE FALSE
        OBVIOUS
      <4>1. f.from.at = <<o, i.id>> /\ f.from.op = o
        BY <1>4, SeenIsSettled DEF Settled, WellFormed, EndsBelong, Inner
      <4>2. p \in seen.outs[o] /\ p.id = i.id
        BY <2>1, <4>1
      <4> QED
        BY <4>2, SeenIsSettled DEF Settled, WellFormed, ConnectorsNamed
    <3>3. [name |-> f.from.at[2][1], dt |-> f.from.dt] \in current[uses'[f.from.op]].outputs
      BY <1>4, <3>1, <3>2 DEF UpgradedSources
    <3> QED
      BY <3>3, <2>1 DEF KeepsOut
  <2>2. f \in NewLinks(stored')
    BY <1>4, <2>1, SeenIsSettled, LinkSurvives
  <2> QED
    BY <2>2, <1>3, <1>4 DEF Feeders
<1>5. CASE f \in seen.inputs /\ f.at = <<o, i.id>>
  <2>1. f \in NewInputs(stored')
    BY <1>5, SeenIsSettled, InputSurvives
  <2> QED
    BY <2>1, <1>3, <1>5 DEF Feeders
<1>6. CASE f \in seen.constants /\ f.at = <<o, i.id>>
  <2>1. f \in stored'.constants
    BY <1>1, <1>6, CarriedIn
  <2> QED
    BY <2>1, <1>3, <1>6 DEF Feeders
<1> QED
  BY <1>4, <1>5, <1>6 DEF Feeders

\* An upgrade, of one operator or of all, keeps links, inputs, constants and outputs at
\* the connectors the revision has, too: the validators that clean up what is read
\* afterwards drop none of them.
THEOREM ConnectionsSurviveUpgrades == Spec => ConnectionsSurvive
<1>1. EditingInv /\ [Next]_vars => [Upgrading =>
        \A o \in seen.ops :
            /\ \A i \in seen.ins[o] :
                i.exposed /\ (\E t \in current[uses'[o]].inputs : t.name = i.id[1] /\ t.dt = i.dt)
                => {f \in Feeders(seen, <<o, i.id>>) : f \in seen.constants => f.dt = i.dt}
                       \ UpgradedSources(o) \subseteq Feeders(seen', <<o, i.id>>)
            /\ \A p \in seen.outs[o] :
                [name |-> p.id[1], dt |-> p.dt] \in current[uses'[o]].outputs
                => {io \in seen.outputs : io.at = <<o, p.id>>} \subseteq seen'.outputs]_vars
  <2> SUFFICES ASSUME EditingInv, Upgrading
               PROVE
            \A o \in seen.ops :
                /\ \A i \in seen.ins[o] :
                    i.exposed /\ (\E t \in current[uses'[o]].inputs : t.name = i.id[1] /\ t.dt = i.dt)
                    => {f \in Feeders(seen, <<o, i.id>>) : f \in seen.constants => f.dt = i.dt}
                           \ UpgradedSources(o) \subseteq Feeders(seen', <<o, i.id>>)
                /\ \A p \in seen.outs[o] :
                    [name |-> p.id[1], dt |-> p.dt] \in current[uses'[o]].outputs
                    => {io \in seen.outputs : io.at = <<o, p.id>>} \subseteq seen'.outputs
    OBVIOUS
  <2>1. UpgradeOf(seen, stored', uses')
    BY ChangeRevisionUpgrades, UpgradeAllUpgrades DEF Upgrading
  <2>2. ASSUME NEW o \in seen.ops, NEW i \in seen.ins[o], i.exposed,
               \E t \in current[uses'[o]].inputs : t.name = i.id[1] /\ t.dt = i.dt
        PROVE  {f \in Feeders(seen, <<o, i.id>>) : f \in seen.constants => f.dt = i.dt}
                   \ UpgradedSources(o) \subseteq Feeders(seen', <<o, i.id>>)
    <3> SUFFICES ASSUME NEW f \in Feeders(seen, <<o, i.id>>), f \in seen.constants => f.dt = i.dt,
                        f \notin UpgradedSources(o)
                 PROVE  f \in Feeders(seen', <<o, i.id>>)
      OBVIOUS
    <3>1. KeepsIn(current[uses'[o]], i)
      BY <2>2 DEF KeepsIn
    <3> QED
      BY <2>1, <2>2, <3>1, FeedersSurvive
  <2>3. ASSUME NEW o \in seen.ops, NEW p \in seen.outs[o],
               [name |-> p.id[1], dt |-> p.dt] \in current[uses'[o]].outputs
        PROVE  {io \in seen.outputs : io.at = <<o, p.id>>} \subseteq seen'.outputs
    <3>1. KeepsOut(current[uses'[o]], p)
      BY <2>3 DEF KeepsOut
    <3>2. seen'.outputs = NewOutputs(stored')
      BY <2>1, ValidatedFields DEF seen, UpgradeOf, WellFormed
    <3> QED
      BY <2>1, <3>1, <3>2, SeenIsSettled, OutputSurvives
  <2> QED
    BY <2>2, <2>3
<1> QED
  BY <1>1, EditingInvariant, PTL DEF Spec, ConnectionsSurvive
=============================================================================
