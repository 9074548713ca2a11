-------------------------- MODULE BackendServiceProofs --------------------------
(***************************************************************************)
(* Proofs about what the backend keeps and what it is asked for: about     *)
(* TransformationStore, for every set of workflows, components and         *)
(* operators and whatever clients send, and, at the end, about the         *)
(* requests of ExecutionRequests: what a process knows of its token's age, *)
(* who holds the token's lock, and what became of the messages it took,    *)
(* for any number of requests, messages and ends.                          *)
(***************************************************************************)
EXTENDS TransformationStore, ExecutionRequests, TLAPS

-----------------------------------------------------------------------------
(* Operators of the model.                                                 *)

\* Merging keeps a row for every key that occurs and invents none.
LEMMA MergeKeepsKeys ==
    ASSUME NEW rows, NEW new \in MergeOutcomes(rows)
    PROVE  /\ new \subseteq rows
           /\ \A r \in rows : \E k \in new : Key(k) = Key(r)
<1>1. CASE \A r, l \in rows : Key(r) = Key(l) => r = l
  BY <1>1 DEF MergeOutcomes
<1>2. CASE ~ \A r, l \in rows : Key(r) = Key(l) => r = l
  <2>1. new \in Merged(rows)
    BY <1>2 DEF MergeOutcomes
  <2> QED
    BY <2>1 DEF Merged
<1> QED
  BY <1>1, <1>2

\* A payload's or a stored workflow's operators, as the type invariant has them.
OperatorsFor(id) == {c \in SUBSET Operator :
                       /\ UniqueIds(c)
                       /\ \A o \in c : [wf |-> id, op |-> o.id, tr |-> o.tr] \in Placements}

LEMMA StoredOperators ==
    ASSUME TypeOK, NEW id \in Ids
    PROVE  content[id] \in OperatorsFor(id)
BY DEF TypeOK, OperatorsFor

LEMMA PayloadOperators ==
    ASSUME TypeOK, NEW id \in Ids, NEW c \in Contents(id)
    PROVE  c \in OperatorsFor(id)
<1>1. CASE id \in Workflows
  <2>1. c \subseteq content[id] \cup Inserted(id) /\ UniqueIds(c)
    BY <1>1 DEF Contents
  <2>2. ASSUME NEW o \in Inserted(id)
        PROVE  o \in Operator /\ [wf |-> id, op |-> o.id, tr |-> o.tr] \in Placements
    <3>1. PICK p \in Placements, s \in States :
               p.wf = id /\ o = [id |-> p.op, tr |-> p.tr, state |-> s]
      BY <2>2 DEF Inserted, SeenStates
    <3>2. p \in [wf : Workflows, op : OpIds, tr : Ids]
      BY ConstantsAssumption
    <3>3. p = [wf |-> id, op |-> o.id, tr |-> o.tr]
      BY <3>1, <3>2
    <3> QED
      BY <3>1, <3>2, <3>3 DEF Operator
  <2> QED
    BY <2>1, <2>2, StoredOperators DEF OperatorsFor
<1>2. CASE id \notin Workflows
  BY <1>2 DEF Contents, OperatorsFor, UniqueIds
<1> QED
  BY <1>1, <1>2

LEMMA ComponentsHaveNoOperators ==
    ASSUME NEW id \in Components, NEW c \in OperatorsFor(id)
    PROVE  c = {}
<1>1. SUFFICES ASSUME NEW o \in c PROVE FALSE
  OBVIOUS
<1>2. [wf |-> id, op |-> o.id, tr |-> o.tr] \in [wf : Workflows, op : OpIds, tr : Ids]
  BY <1>1, ConstantsAssumption DEF OperatorsFor
<1>3. id \in Workflows
  BY <1>2
<1> QED
  BY <1>3, ConstantsAssumption

\* Marking changes neither the ids nor the targets of operators.
LEMMA MarkingKeepsOperators ==
    ASSUME NEW id \in Ids, NEW c \in OperatorsFor(id), NEW marked
    PROVE  /\ Mark(c, marked) \in OperatorsFor(id)
           /\ {<<o.id, o.tr>> : o \in Mark(c, marked)} = {<<o.id, o.tr>> : o \in c}
           /\ \A s : ValidContent(s, c) => ValidContent(s, Mark(c, marked))
<1>1. \A o \in c : /\ Disabled(o) \in Operator
                   /\ Disabled(o).id = o.id
                   /\ Disabled(o).tr = o.tr
                   /\ Disabled(o).state = "DISABLED"
  BY DEF OperatorsFor, Operator, Disabled, States
<1>2. \A x \in Mark(c, marked) : \E o \in c :
         x \in Operator /\ x.id = o.id /\ x.tr = o.tr /\ x.state \in {o.state, "DISABLED"}
             /\ (x = IF o \in marked THEN Disabled(o) ELSE o)
  BY <1>1 DEF OperatorsFor, Mark
<1>3. \A o \in c : \E x \in Mark(c, marked) : x.id = o.id /\ x.tr = o.tr
  BY <1>1 DEF Mark
<1>4. UniqueIds(Mark(c, marked))
  BY <1>2 DEF UniqueIds, OperatorsFor
<1>5. Mark(c, marked) \in OperatorsFor(id)
  BY <1>2, <1>4 DEF OperatorsFor
<1>6. {<<o.id, o.tr>> : o \in Mark(c, marked)} = {<<o.id, o.tr>> : o \in c}
  BY <1>2, <1>3
<1>7. \A s : ValidContent(s, c) => ValidContent(s, Mark(c, marked))
  BY <1>2 DEF ValidContent
<1> QED
  BY <1>5, <1>6, <1>7

LEMMA MarkNewKeepsOperators ==
    ASSUME NEW id \in Ids, NEW c \in OperatorsFor(id)
    PROVE  /\ MarkNewOperators(id, c) \in OperatorsFor(id)
           /\ \A s : ValidContent(s, c) => ValidContent(s, MarkNewOperators(id, c))
BY MarkingKeepsOperators DEF MarkNewOperators

\* Stored operators are not new, whatever they instantiate.
LEMMA MarkNewKeepsStored ==
    ASSUME NEW id
    PROVE  MarkNewOperators(id, content[id]) = content[id]
BY DEF MarkNewOperators, Mark, NewSubworkflow

LEMMA PassOnKeepsOperators ==
    ASSUME NEW id, NEW cs, NEW w \in Ids, cs[w] \in OperatorsFor(w)
    PROVE  /\ PassOnDeprecation(cs, id)[w] \in OperatorsFor(w)
           /\ {<<o.id, o.tr>> : o \in PassOnDeprecation(cs, id)[w]} =
                {<<o.id, o.tr>> : o \in cs[w]}
           /\ \A s : ValidContent(s, cs[w]) =>
                       ValidContent(s, PassOnDeprecation(cs, id)[w])
BY MarkingKeepsOperators DEF PassOnDeprecation

-----------------------------------------------------------------------------
(* What update_nesting leaves in the nestings table.                       *)

LEMMA UpdateNestingRows ==
    ASSUME TypeOK, NEW wf \in Workflows, NEW c \in OperatorsFor(wf), UpdateNesting(wf, c)
    PROVE  /\ nestings' \subseteq Nesting
           /\ \A r \in nestings : r.wf # wf => r \in nestings'
           /\ \A r \in nestings' : r.wf # wf => r \in nestings
           /\ \A o \in c : DirectRow(wf, o) \in nestings' /\ Present(o.tr)
           /\ \A r \in nestings' : r.wf = wf /\ r.depth = 1 => r \in DirectRows(wf, c)
           /\ \A r \in nestings' : r.wf = wf =>
                 \E o \in c : r.via = o.tr /\ (r.tr = o.tr \/ \E k \in nestings : r.tr = k.tr)
<1> DEFINE rows == DirectRows(wf, c) \cup DerivedRows(wf, c)
<1>1. PICK new \in MergeOutcomes(rows) :
           /\ ~ CycleDetected(wf, c, RowsWithout(wf) \cup new)
           /\ nestings' = RowsWithout(wf) \cup new
  BY DEF UpdateNesting
<1>2. new \subseteq rows /\ \A r \in rows : \E k \in new : Key(k) = Key(r)
  BY MergeKeepsKeys
<1>3. \A o \in c : o \in Operator /\ o.id \in OpIds /\ o.tr \in Ids
  BY DEF OperatorsFor, Operator
<1>4. ASSUME NEW r \in DirectRows(wf, c)
      PROVE  /\ r \in Nesting /\ r.wf = wf /\ r.depth = 1
             /\ \E o \in c : r = DirectRow(wf, o) /\ r.via = o.tr /\ r.tr = o.tr
  BY <1>3 DEF DirectRows, DirectRow, Nesting
<1>5. ASSUME NEW r \in DerivedRows(wf, c)
      PROVE  /\ r \in Nesting /\ r.wf = wf /\ r.depth # 1
             /\ \E o \in c : r.via = o.tr /\ \E k \in nestings : r.tr = k.tr
  <2>1. PICK o \in c, k \in nestings : r = DerivedRow(wf, o, k)
    BY DEF DerivedRows, RowsOf
  <2>2. k \in Nesting
    BY DEF TypeOK
  <2>3. /\ k.depth \in Nat \ {0} /\ k.op \in OpIds /\ k.tr \in Ids
    BY <2>2 DEF Nesting
  <2>4. k.depth + 1 \in Nat \ {0} /\ k.depth + 1 # 1
    BY <2>3
  <2> QED
    BY <2>1, <2>3, <2>4, <1>3 DEF DerivedRow, Nesting
<1>6. \A o \in c : DirectRow(wf, o) \in new
  <2>1. TAKE o \in c
  <2>2. DirectRow(wf, o) \in rows
    BY DEF DirectRows
  <2>3. PICK k \in new : Key(k) = Key(DirectRow(wf, o))
    BY <1>2, <2>2
  <2>4. k.depth = 1 /\ k.op = o.id
    BY <2>3 DEF Key, DirectRow
  <2>5. k \in DirectRows(wf, c)
    BY <2>4, <1>2, <1>5
  <2>6. PICK p \in c : k = DirectRow(wf, p)
    BY <2>5, <1>4
  <2>7. p.id = o.id
    BY <2>4, <2>6 DEF DirectRow
  <2>8. p = o
    BY <2>7 DEF OperatorsFor, UniqueIds
  <2> QED
    BY <2>3, <2>6, <2>8
<1>7. nestings' \subseteq Nesting
  BY <1>1, <1>2, <1>4, <1>5 DEF RowsWithout, TypeOK
<1>8. \A r \in nestings : r.wf # wf => r \in nestings'
  BY <1>1 DEF RowsWithout
<1>9. \A r \in nestings' : r.wf # wf => r \in nestings
  BY <1>1, <1>2, <1>4, <1>5 DEF RowsWithout
<1>10. \A o \in c : DirectRow(wf, o) \in nestings' /\ Present(o.tr)
  BY <1>1, <1>6 DEF UpdateNesting, CycleDetected
<1>11. \A r \in nestings' : r.wf = wf /\ r.depth = 1 => r \in DirectRows(wf, c)
  BY <1>1, <1>2, <1>5 DEF RowsWithout
<1>12. \A r \in nestings' : r.wf = wf =>
          \E o \in c : r.via = o.tr /\ (r.tr = o.tr \/ \E k \in nestings : r.tr = k.tr)
  BY <1>1, <1>2, <1>4, <1>5 DEF RowsWithout
<1> QED
  BY <1>7, <1>8, <1>9, <1>10, <1>11, <1>12

-----------------------------------------------------------------------------
(* Every step saves, disables or removes one revision.                     *)

Saving(id, s, c, im) ==
    /\ ValidContent(s, c)
    /\ state' = [state EXCEPT ![id] = s]
    /\ content' = [content EXCEPT ![id] = c]
    /\ imports' = [imports EXCEPT ![id] = im]
    /\ SaveNesting(id, c)

Disabling(id, c, im) ==
    /\ ValidContent("DISABLED", c)
    /\ state' = [state EXCEPT ![id] = "DISABLED"]
    /\ content' = PassOnDeprecation([content EXCEPT ![id] = c], id)
    /\ imports' = [imports EXCEPT ![id] = im]
    /\ UNCHANGED nestings

Removing(id) == \E ignoreState \in BOOLEAN : Delete(id, ignoreState)

SavingOrDisabling(id) ==
    \E c \in OperatorsFor(id), im \in SUBSET Components :
        \/ \E s \in States : Saving(id, s, c, im)
        \/ Disabling(id, c, im)

LEMMA StoreShape ==
    ASSUME NEW id \in Ids, NEW s \in States, NEW c \in OperatorsFor(id),
           NEW im \in SUBSET Components, ValidContent(s, c), Store(id, s, c, im)
    PROVE  SavingOrDisabling(id)
<1>1. CASE s = "DISABLED" /\ content' = PassOnDeprecation([content EXCEPT ![id] = c], id)
           /\ UNCHANGED nestings
  <2>1. Disabling(id, c, im)
    BY <1>1 DEF Disabling, Store
  <2> QED
    BY <2>1 DEF SavingOrDisabling
<1>2. CASE content' = [content EXCEPT ![id] = c] /\ SaveNesting(id, c)
  <2>1. Saving(id, s, c, im)
    BY <1>2 DEF Saving, Store
  <2> QED
    BY <2>1 DEF SavingOrDisabling
<1> QED
  BY <1>1, <1>2 DEF Store

LEMMA StoredContentIsValid ==
    ASSUME TypeOK, NoDraftOperatorOutsideDrafts, NEW id \in Ids, state[id] = "RELEASED"
    PROVE  \A s : ValidContent(s, content[id])
<1>1. CASE id \in Workflows
  BY <1>1 DEF NoDraftOperatorOutsideDrafts, ValidContent
<1>2. CASE id \in Components
  <2>1. content[id] = {}
    BY <1>2, StoredOperators, ComponentsHaveNoOperators
  <2> QED
    BY <2>1 DEF ValidContent
<1> QED
  BY <1>1, <1>2 DEF Ids

LEMMA StepShape ==
    ASSUME TypeOK, NoDraftOperatorOutsideDrafts, Next
    PROVE  \E id \in Ids : SavingOrDisabling(id) \/ Removing(id)
<1>1. PICK id \in Ids : PostRevision(id) \/ PutRevision(id) \/ DeleteRevision(id)
  BY DEF Next
<1>2. \A im \in Codes(id) : im \in SUBSET Components
  BY DEF Codes
<1>3. imports[id] \in SUBSET Components
  BY DEF TypeOK
<1>4. CASE PostRevision(id)
  <2>1. PICK s \in PostStates, c \in Contents(id), im \in Codes(id) : Post(id, s, c, im)
    BY <1>4 DEF PostRevision
  <2>2. s \in States
    BY ConstantsAssumption
  <2>3. Saving(id, s, c, im)
    BY <2>1 DEF Post, Saving
  <2> QED
    BY <2>2, <2>3, <1>2, PayloadOperators DEF SavingOrDisabling
<1>5. CASE PutRevision(id)
  <2>1. PICK im \in Codes(id) :
             \/ \E s \in ImportStates, c \in Contents(id) : PutNew(id, s, c, im)
             \/ \E s \in PutStates, c \in Contents(id), overwrite \in OverwriteFlags :
                   Save(id, s, c, im, overwrite)
             \/ Release(id, im)
             \/ Deprecate(id, im)
    BY <1>5 DEF PutRevision
  <2>2. /\ ImportStates \subseteq States /\ PutStates \subseteq States
        /\ "RELEASED" \in States /\ "DISABLED" \in States
    BY ConstantsAssumption DEF States
  <2>3. CASE \E s \in ImportStates, c \in Contents(id) : PutNew(id, s, c, im)
    BY <2>2, <2>3, <1>2, PayloadOperators, StoreShape DEF PutNew
  <2>4. CASE \E s \in PutStates, c \in Contents(id), overwrite \in OverwriteFlags :
                Save(id, s, c, im, overwrite)
    <3>1. PICK s \in States, c \in Contents(id) :
               /\ ValidContent(s, c)
               /\ Store(id, s, MarkNewOperators(id, c), im)
      BY <2>2, <2>4 DEF Save
    <3>2. c \in OperatorsFor(id)
      BY PayloadOperators
    <3>3. MarkNewOperators(id, c) \in OperatorsFor(id) /\ ValidContent(s, MarkNewOperators(id, c))
      BY <3>1, <3>2, MarkNewKeepsOperators
    <3> QED
      BY <3>1, <3>3, <2>2, <1>2, StoreShape
  <2>5. CASE Release(id, im)
    BY <2>2, <2>5, <1>3, StoredOperators, StoreShape DEF Release
  <2>6. CASE Deprecate(id, im)
    <3>1. ValidContent("DISABLED", content[id])
      BY <2>6, StoredContentIsValid DEF Deprecate
    <3> QED
      BY <2>2, <2>6, <3>1, <1>3, StoredOperators, StoreShape DEF Deprecate
  <2> QED
    BY <2>1, <2>3, <2>4, <2>5, <2>6
<1>6. CASE DeleteRevision(id)
  <2>1. PICK ignoreState \in IgnoreStateFlags : Delete(id, ignoreState)
    BY <1>6 DEF DeleteRevision
  <2> QED
    BY <2>1, ConstantsAssumption DEF Removing
<1> QED
  BY <1>1, <1>4, <1>5, <1>6

-----------------------------------------------------------------------------
(* The inductive invariant.                                                *)

StoreInv == /\ TypeOK
            /\ NoDraftOperatorOutsideDrafts
            /\ ForeignKeysHold
            /\ DirectNestingsMatchContent

LEMMA SameOperatorsSameRows ==
    ASSUME NEW wf, NEW c, NEW d,
           {<<o.id, o.tr>> : o \in c} = {<<o.id, o.tr>> : o \in d}
    PROVE  DirectRows(wf, c) = DirectRows(wf, d)
<1>1. ASSUME NEW o \in c PROVE \E p \in d : p.id = o.id /\ p.tr = o.tr
  <2>1. <<o.id, o.tr>> \in {<<p.id, p.tr>> : p \in d}
    OBVIOUS
  <2> QED
    BY <2>1
<1>2. ASSUME NEW o \in d PROVE \E p \in c : p.id = o.id /\ p.tr = o.tr
  <2>1. <<o.id, o.tr>> \in {<<p.id, p.tr>> : p \in c}
    OBVIOUS
  <2> QED
    BY <2>1
<1> QED
  BY <1>1, <1>2 DEF DirectRows, DirectRow

LEMMA InitInv == Init => StoreInv
<1> SUFFICES ASSUME Init PROVE StoreInv
  OBVIOUS
<1>1. \A id \in Ids : state[id] = "ABSENT" /\ content[id] = {}
  BY DEF Init
<1>2. TypeOK
  BY <1>1 DEF Init, TypeOK, UniqueIds
<1> QED
  BY <1>1, <1>2 DEF Init, StoreInv, NoDraftOperatorOutsideDrafts, ForeignKeysHold,
                    DirectNestingsMatchContent, Ids

LEMMA SavingKeepsInv ==
    ASSUME StoreInv, NEW id \in Ids, NEW s \in States, NEW c \in OperatorsFor(id),
           NEW im \in SUBSET Components, Saving(id, s, c, im)
    PROVE  StoreInv'
<1> USE DEF StoreInv
<1>0. /\ state' = [state EXCEPT ![id] = s]
      /\ content' = [content EXCEPT ![id] = c]
      /\ imports' = [imports EXCEPT ![id] = im]
      /\ ValidContent(s, c)
      /\ SaveNesting(id, c)
  BY DEF Saving
<1>1. /\ \A w \in Ids : state'[w] = IF w = id THEN s ELSE state[w]
      /\ \A w \in Ids : content'[w] = IF w = id THEN c ELSE content[w]
  BY <1>0 DEF TypeOK
<1>2. TypeOK'
  <2>1. nestings' \subseteq Nesting
    BY <1>0, UpdateNestingRows DEF SaveNesting, TypeOK
  <2>2. state' \in [Ids -> States \cup {"ABSENT"}] /\ imports' \in [Ids -> SUBSET Components]
    BY <1>0 DEF TypeOK
  <2>3. content' \in [Ids -> SUBSET Operator]
    BY <1>0 DEF TypeOK, OperatorsFor
  <2> QED
    BY <2>1, <2>2, <2>3, <1>1 DEF TypeOK, OperatorsFor
<1>3. NoDraftOperatorOutsideDrafts'
  BY <1>0, <1>1 DEF NoDraftOperatorOutsideDrafts, ValidContent, Ids
<1>4. ForeignKeysHold'
  <2>1. \A w \in Ids : Present(w) => Present(w)'
    BY <1>1 DEF Present, States
  <2>2. Present(id)'
    BY <1>1 DEF Present, States
  <2>3. \A r \in nestings : r.wf \in Ids /\ r.via \in Ids /\ r.tr \in Ids
    BY DEF TypeOK, Nesting, Ids
  <2>4. CASE id \in Workflows /\ UpdateNesting(id, c)
    <3>1. ASSUME NEW r \in nestings', r.wf = id
          PROVE  Present(r.wf)' /\ Present(r.via)' /\ Present(r.tr)'
      <4>1. PICK o \in c : r.via = o.tr /\ (r.tr = o.tr \/ \E k \in nestings : r.tr = k.tr)
        BY <2>4, <3>1, UpdateNestingRows
      <4>2. Present(o.tr) /\ o.tr \in Ids
        BY <2>4, UpdateNestingRows DEF OperatorsFor, Operator
      <4> QED
        BY <4>1, <4>2, <3>1, <2>1, <2>2, <2>3 DEF ForeignKeysHold
    <3>2. ASSUME NEW r \in nestings', r.wf # id
          PROVE  Present(r.wf)' /\ Present(r.via)' /\ Present(r.tr)'
      <4>1. r \in nestings
        BY <2>4, <3>2, UpdateNestingRows
      <4> QED
        BY <4>1, <2>1, <2>3 DEF ForeignKeysHold
    <3> QED
      BY <3>1, <3>2 DEF ForeignKeysHold
  <2>5. CASE UNCHANGED nestings
    BY <2>5, <2>1, <2>3 DEF ForeignKeysHold
  <2> QED
    BY <2>4, <2>5, <1>0 DEF SaveNesting
<1>5. DirectNestingsMatchContent'
  <2>1. SUFFICES ASSUME NEW w \in Workflows, state'[w] \in {"DRAFT", "RELEASED"}
                 PROVE  {r \in nestings' : r.wf = w /\ r.depth = 1} = DirectRows(w, content'[w])
    BY DEF DirectNestingsMatchContent, RowsOf
  <2>2. CASE w = id
    <3>1. UpdateNesting(w, c)
      BY <2>2, <1>0 DEF SaveNesting
    <3>2. \A o \in c : DirectRow(w, o) \in nestings'
      BY <3>1, <2>2, UpdateNestingRows
    <3>3. \A r \in nestings' : r.wf = w /\ r.depth = 1 => r \in DirectRows(w, c)
      BY <3>1, <2>2, UpdateNestingRows
    <3>4. \A r \in DirectRows(w, c) : r \in nestings' /\ r.wf = w /\ r.depth = 1
      BY <3>2 DEF DirectRows, DirectRow
    <3> QED
      BY <3>3, <3>4, <2>2, <1>1
  <2>3. CASE w # id
    <3>1. \A r : r.wf = w => (r \in nestings' <=> r \in nestings)
      <4>1. CASE id \in Workflows /\ UpdateNesting(id, c)
        BY <4>1, <2>3, UpdateNestingRows
      <4> QED
        BY <4>1, <1>0 DEF SaveNesting
    <3>2. {r \in nestings : r.wf = w /\ r.depth = 1} = DirectRows(w, content[w])
      BY <2>1, <2>3, <1>1 DEF DirectNestingsMatchContent, RowsOf, Ids
    <3> QED
      BY <3>1, <3>2, <2>3, <1>1 DEF Ids
  <2> QED
    BY <2>2, <2>3
<1> QED
  BY <1>2, <1>3, <1>4, <1>5

LEMMA DisablingKeepsInv ==
    ASSUME StoreInv, NEW id \in Ids, NEW c \in OperatorsFor(id),
           NEW im \in SUBSET Components, Disabling(id, c, im)
    PROVE  StoreInv'
<1> USE DEF StoreInv
<1> DEFINE cs == [content EXCEPT ![id] = c]
<1>0. /\ state' = [state EXCEPT ![id] = "DISABLED"]
      /\ content' = PassOnDeprecation(cs, id)
      /\ imports' = [imports EXCEPT ![id] = im]
      /\ ValidContent("DISABLED", c)
      /\ nestings' = nestings
  BY DEF Disabling
<1>1. \A w \in Ids : /\ state'[w] = IF w = id THEN "DISABLED" ELSE state[w]
                     /\ cs[w] = IF w = id THEN c ELSE content[w]
  BY <1>0 DEF TypeOK
<1>2. \A w \in Ids : cs[w] \in OperatorsFor(w)
  BY <1>1, StoredOperators
<1>3. ASSUME NEW w \in Ids
      PROVE  /\ content'[w] \in OperatorsFor(w)
             /\ {<<o.id, o.tr>> : o \in content'[w]} = {<<o.id, o.tr>> : o \in cs[w]}
             /\ \A s : ValidContent(s, cs[w]) => ValidContent(s, content'[w])
  <2>1. cs[w] \in OperatorsFor(w) /\ content' = PassOnDeprecation(cs, id)
    BY <1>0, <1>2
  <2> HIDE DEF cs
  <2> DEFINE passed == PassOnDeprecation(cs, id)
  <2>2. /\ passed[w] \in OperatorsFor(w)
        /\ {<<o.id, o.tr>> : o \in passed[w]} = {<<o.id, o.tr>> : o \in cs[w]}
        /\ \A s : ValidContent(s, cs[w]) => ValidContent(s, passed[w])
    BY <2>1, PassOnKeepsOperators
  <2> HIDE DEF passed
  <2>3. content' = passed
    BY <2>1 DEF passed
  <2> QED
    BY <2>2, <2>3
<1>4. TypeOK'
  <2>1. content' = [w \in Ids |-> content'[w]]
    BY <1>0 DEF PassOnDeprecation
  <2>2. state' \in [Ids -> States \cup {"ABSENT"}] /\ imports' \in [Ids -> SUBSET Components]
    BY <1>0 DEF TypeOK, States
  <2>3. \A w \in Ids : content'[w] \in SUBSET Operator
    BY <1>3 DEF OperatorsFor
  <2>4. content' \in [Ids -> SUBSET Operator]
    BY <2>1, <2>3
  <2> QED
    BY <2>2, <2>4, <1>0, <1>3 DEF TypeOK, OperatorsFor
<1>5. NoDraftOperatorOutsideDrafts'
  <2>1. SUFFICES ASSUME NEW w \in Workflows, state'[w] \in {"RELEASED", "DISABLED"}
                 PROVE  ValidContent("RELEASED", content'[w])
    BY DEF NoDraftOperatorOutsideDrafts, ValidContent
  <2>2. ValidContent("RELEASED", cs[w])
    BY <2>1, <1>0, <1>1 DEF NoDraftOperatorOutsideDrafts, ValidContent, Ids
  <2> QED
    BY <2>2, <1>3 DEF Ids
<1>6. ForeignKeysHold'
  <2>1. \A w \in Ids : Present(w) => Present(w)'
    BY <1>1 DEF Present
  <2>2. \A r \in nestings : r.wf \in Ids /\ r.via \in Ids /\ r.tr \in Ids
    BY DEF TypeOK, Nesting, Ids
  <2> QED
    BY <1>0, <2>1, <2>2 DEF ForeignKeysHold
<1>7. DirectNestingsMatchContent'
  <2>1. SUFFICES ASSUME NEW w \in Workflows, state'[w] \in {"DRAFT", "RELEASED"}
                 PROVE  {r \in nestings' : r.wf = w /\ r.depth = 1} = DirectRows(w, content'[w])
    BY DEF DirectNestingsMatchContent, RowsOf
  <2>2. w # id /\ state[w] \in {"DRAFT", "RELEASED"} /\ cs[w] = content[w]
    BY <2>1, <1>1 DEF Ids
  <2>3. {r \in nestings : r.wf = w /\ r.depth = 1} = DirectRows(w, content[w])
    BY <2>2 DEF DirectNestingsMatchContent, RowsOf
  <2>4. {<<o.id, o.tr>> : o \in content'[w]} = {<<o.id, o.tr>> : o \in content[w]}
    BY <1>3, <2>2 DEF Ids
  <2>5. DirectRows(w, content'[w]) = DirectRows(w, content[w])
    BY <2>4, SameOperatorsSameRows
  <2> QED
    BY <2>3, <2>5, <1>0
<1> QED
  BY <1>4, <1>5, <1>6, <1>7

LEMMA RemovingKeepsInv ==
    ASSUME StoreInv, NEW id \in Ids, Removing(id)
    PROVE  StoreInv'
<1> USE DEF StoreInv
<1>0. /\ state' = [state EXCEPT ![id] = "ABSENT"]
      /\ content' = [content EXCEPT ![id] = {}]
      /\ imports' = [imports EXCEPT ![id] = {}]
      /\ nestings' = {r \in nestings : r.wf # id}
      /\ \A r \in nestings' : r.tr # id /\ r.via # id
  BY DEF Removing, Delete, RowsWithout
<1>1. \A w \in Ids : /\ state'[w] = IF w = id THEN "ABSENT" ELSE state[w]
                     /\ content'[w] = IF w = id THEN {} ELSE content[w]
  BY <1>0 DEF TypeOK
<1>2. TypeOK'
  <2>1. content' \in [Ids -> SUBSET Operator]
    BY <1>0 DEF TypeOK
  <2>2. \A w \in Ids : UniqueIds(content[w])' /\ content'[w] \subseteq content[w]
    BY <1>1 DEF TypeOK, UniqueIds
  <2> QED
    BY <1>0, <2>1, <2>2 DEF TypeOK
<1>3. NoDraftOperatorOutsideDrafts'
  BY <1>1 DEF NoDraftOperatorOutsideDrafts, Ids
<1>4. ForeignKeysHold'
  BY <1>0, <1>1 DEF ForeignKeysHold, Present, TypeOK, Nesting, Ids
<1>5. DirectNestingsMatchContent'
  <2>1. SUFFICES ASSUME NEW w \in Workflows, state'[w] \in {"DRAFT", "RELEASED"}
                 PROVE  {r \in nestings' : r.wf = w /\ r.depth = 1} = DirectRows(w, content'[w])
    BY DEF DirectNestingsMatchContent, RowsOf
  <2>2. w # id /\ state[w] \in {"DRAFT", "RELEASED"} /\ content'[w] = content[w]
    BY <2>1, <1>1 DEF Ids
  <2>3. {r \in nestings : r.wf = w /\ r.depth = 1} = DirectRows(w, content[w])
    BY <2>2 DEF DirectNestingsMatchContent, RowsOf
  <2> QED
    BY <2>2, <2>3, <1>0
<1> QED
  BY <1>2, <1>3, <1>4, <1>5

LEMMA StutterKeepsInv ==
    ASSUME StoreInv, UNCHANGED vars
    PROVE  StoreInv'
BY DEF StoreInv, vars, TypeOK, NoDraftOperatorOutsideDrafts, ForeignKeysHold,
       DirectNestingsMatchContent, RowsOf, Present

LEMMA NextKeepsInv == StoreInv /\ [Next]_vars => StoreInv'
<1>1. ASSUME StoreInv, Next PROVE StoreInv'
  <2>1. PICK id \in Ids : SavingOrDisabling(id) \/ Removing(id)
    BY <1>1, StepShape DEF StoreInv
  <2>2. CASE SavingOrDisabling(id)
    BY <1>1, <2>2, SavingKeepsInv, DisablingKeepsInv DEF SavingOrDisabling
  <2>3. CASE Removing(id)
    BY <1>1, <2>3, RemovingKeepsInv
  <2> QED
    BY <2>1, <2>2, <2>3
<1> QED
  BY <1>1, StutterKeepsInv

\* Every reachable state has correct types, rows that refer to stored
\* revisions, and depth 1 rows that are the operators of the stored content.
THEOREM InvariantHolds == Spec => []StoreInv
BY InitInv, NextKeepsInv, PTL DEF Spec

\* Variables stay in their types and operator ids stay unique.
THEOREM TypeCorrect == Spec => []TypeOK
<1>1. StoreInv => TypeOK
  BY DEF StoreInv
<1> QED
  BY <1>1, InvariantHolds, PTL

\* No path of the store leaves an operator marked DRAFT in a released or
\* deprecated workflow.
THEOREM NoDraftOperators == Spec => []NoDraftOperatorOutsideDrafts
<1>1. StoreInv => NoDraftOperatorOutsideDrafts
  BY DEF StoreInv
<1> QED
  BY <1>1, InvariantHolds, PTL

\* The nestings table has the direct operators of workflows that are not
\* deprecated, no matter which keys of derived rows collide.
THEOREM DirectNestings == Spec => []DirectNestingsMatchContent
<1>1. StoreInv => DirectNestingsMatchContent
  BY DEF StoreInv
<1> QED
  BY <1>1, InvariantHolds, PTL

\* The direct row of an operator holds its target in the database.
THEOREM TargetsExist == Spec => []OperatorTargetsExist
<1>1. StoreInv => OperatorTargetsExist
  <2>1. SUFFICES ASSUME StoreInv, NEW w \in Workflows, state[w] \in {"DRAFT", "RELEASED"},
                        NEW o \in content[w]
                 PROVE  Present(o.tr)
    BY DEF OperatorTargetsExist
  <2>2. DirectRow(w, o) \in {r \in RowsOf(w) : r.depth = 1}
    BY <2>1 DEF StoreInv, DirectNestingsMatchContent, DirectRows
  <2>3. DirectRow(w, o) \in nestings /\ DirectRow(w, o).tr = o.tr
    BY <2>2 DEF RowsOf, DirectRow
  <2> QED
    BY <2>1, <2>3 DEF StoreInv, ForeignKeysHold
<1> QED
  BY <1>1, InvariantHolds, PTL

-----------------------------------------------------------------------------
(* The store implements the life cycle, for clients that neither overwrite *)
(* released revisions nor delete them.                                     *)

Careful == OverwriteFlags \subseteq {FALSE} /\ IgnoreStateFlags \subseteq {FALSE}

BodyOf == [id \in Ids |-> Body(id)]

LEMMA BodiesAreBodies ==
    ASSUME TypeOK, NEW id \in Ids
    PROVE  Body(id) \in Bodies
<1>1. ASSUME NEW o \in content[id]
      PROVE  <<o.id, o.tr>> \in {<<p.op, p.tr>> : p \in Placements}
  <2>1. PICK p \in Placements : p = [wf |-> id, op |-> o.id, tr |-> o.tr]
    BY DEF TypeOK
  <2>2. p.op = o.id /\ p.tr = o.tr
    BY <2>1
  <2> QED
    BY <2>2
<1>2. imports[id] \in SUBSET Components
  BY DEF TypeOK
<1> QED
  BY <1>1, <1>2 DEF Body, Bodies

LEMMA BodiesAreBodiesNow == TypeOK => \A id \in Ids : Body(id) \in Bodies
BY BodiesAreBodies

LEMMA BodiesAreBodiesNext == TypeOK' => (\A id \in Ids : Body(id) \in Bodies)'
BY BodiesAreBodiesNow, PTL

LEMMA InitImplementsLifecycle == Init => Lifecycle!Init
<1> SUFFICES ASSUME Init PROVE Lifecycle!Init
  OBVIOUS
<1>1. TypeOK
  BY InitInv DEF StoreInv
<1> QED
  BY <1>1, BodiesAreBodies DEF Init, Lifecycle!Init

\* What Store does to the state and the bodies of revisions.
LEMMA StoreChangesOneBody ==
    ASSUME StoreInv, NEW id \in Ids, NEW s \in States, NEW c \in OperatorsFor(id), NEW im,
           Store(id, s, c, im)
    PROVE  /\ state' = [state EXCEPT ![id] = s]
           /\ \A w \in Ids : w # id => Body(w)' = Body(w)
           /\ Body(id)' = [operators |-> {<<o.id, o.tr>> : o \in c}, imports |-> im]
<1> DEFINE cs == [content EXCEPT ![id] = c]
<1>0. state' = [state EXCEPT ![id] = s] /\ imports' = [imports EXCEPT ![id] = im]
  BY DEF Store
<1>1. \A w \in Ids : /\ cs[w] = IF w = id THEN c ELSE content[w]
                     /\ imports'[w] = IF w = id THEN im ELSE imports[w]
  BY <1>0 DEF StoreInv, TypeOK
<1>2. \A w \in Ids : cs[w] \in OperatorsFor(w)
  BY <1>1, StoredOperators DEF StoreInv
<1>3. content' = cs \/ content' = PassOnDeprecation(cs, id)
  BY DEF Store
<1>4. ASSUME NEW w \in Ids
      PROVE  {<<o.id, o.tr>> : o \in content'[w]} = {<<o.id, o.tr>> : o \in cs[w]}
  <2> HIDE DEF cs
  <2> QED
    BY <1>2, <1>3, PassOnKeepsOperators
<1> QED
  BY <1>0, <1>1, <1>4 DEF Body

\* The life cycle's view of a step that changes one state and one body.
LEMMA OneChange ==
    ASSUME StoreInv, StoreInv', NEW id \in Ids, NEW s \in States \cup {"ABSENT"},
           state' = [state EXCEPT ![id] = s],
           \A w \in Ids : w # id => Body(w)' = Body(w)
    PROVE  /\ Body(id)' \in Bodies
           /\ BodyOf' = [BodyOf EXCEPT ![id] = Body(id)']
           /\ Body(id)' = Body(id) => BodyOf' = BodyOf
<1>1. Body(id)' \in Bodies
  BY BodiesAreBodiesNext DEF StoreInv
<1> QED
  BY <1>1 DEF BodyOf

LEMMA StoreImplements ==
    ASSUME StoreInv, StoreInv', NEW id \in Ids, NEW s \in States, NEW c \in OperatorsFor(id),
           NEW im, Store(id, s, c, im)
    PROVE  /\ state' = [state EXCEPT ![id] = s]
           /\ Body(id)' \in Bodies
           /\ BodyOf' = [BodyOf EXCEPT ![id] = Body(id)']
           /\ {<<o.id, o.tr>> : o \in c} = {<<o.id, o.tr>> : o \in content[id]} /\ im = imports[id]
                => BodyOf' = BodyOf
<1>1. /\ state' = [state EXCEPT ![id] = s]
      /\ \A w \in Ids : w # id => Body(w)' = Body(w)
      /\ Body(id)' = [operators |-> {<<o.id, o.tr>> : o \in c}, imports |-> im]
  BY StoreChangesOneBody
<1>2. /\ Body(id)' \in Bodies
      /\ BodyOf' = [BodyOf EXCEPT ![id] = Body(id)']
      /\ Body(id)' = Body(id) => BodyOf' = BodyOf
  BY <1>1, OneChange
<1>3. {<<o.id, o.tr>> : o \in c} = {<<o.id, o.tr>> : o \in content[id]} /\ im = imports[id]
        => Body(id)' = Body(id)
  BY <1>1 DEF Body
<1> QED
  BY <1>1, <1>2, <1>3

LEMMA PostImplements ==
    ASSUME StoreInv, StoreInv', NEW id \in Ids, PostRevision(id)
    PROVE  Lifecycle!New(id)
<1>1. PICK s \in States, c \in Contents(id), im \in Codes(id) : Post(id, s, c, im)
  BY ConstantsAssumption DEF PostRevision
<1>2. /\ state' = [state EXCEPT ![id] = s]
      /\ \A w \in Ids : w # id => Body(w)' = Body(w)
  BY <1>1 DEF Post, Body, StoreInv, TypeOK
<1>3. Body(id)' \in Bodies /\ BodyOf' = [BodyOf EXCEPT ![id] = Body(id)']
  BY <1>2, OneChange
<1>4. state[id] = "ABSENT"
  BY <1>1 DEF Post, Present
<1> QED
  BY <1>2, <1>3, <1>4 DEF Lifecycle!New, Lifecycle!States, States, BodyOf

LEMMA PutNewImplements ==
    ASSUME StoreInv, StoreInv', NEW id \in Ids, NEW s \in States, NEW c \in Contents(id),
           NEW im, PutNew(id, s, c, im)
    PROVE  Lifecycle!New(id)
<1>1. c \in OperatorsFor(id) /\ Store(id, s, c, im) /\ state[id] = "ABSENT"
  BY PayloadOperators DEF PutNew, Present, StoreInv
<1>2. /\ state' = [state EXCEPT ![id] = s]
      /\ Body(id)' \in Bodies
      /\ BodyOf' = [BodyOf EXCEPT ![id] = Body(id)']
  BY <1>1, StoreImplements
<1> QED
  BY <1>1, <1>2 DEF Lifecycle!New, Lifecycle!States, States, BodyOf

LEMMA SaveImplements ==
    ASSUME StoreInv, StoreInv', NEW id \in Ids, NEW s \in States, NEW c \in Contents(id),
           NEW im, Save(id, s, c, im, FALSE)
    PROVE  Lifecycle!EditDraft(id) \/ UNCHANGED <<state, BodyOf>>
<1> DEFINE d == MarkNewOperators(id, c)
<1>1. d \in OperatorsFor(id)
  BY PayloadOperators, MarkNewKeepsOperators DEF StoreInv
<1>2. Store(id, s, d, im)
  BY DEF Save
<1>3. /\ state' = [state EXCEPT ![id] = s]
      /\ Body(id)' \in Bodies
      /\ BodyOf' = [BodyOf EXCEPT ![id] = Body(id)']
      /\ {<<o.id, o.tr>> : o \in d} = {<<o.id, o.tr>> : o \in content[id]} /\ im = imports[id]
           => BodyOf' = BodyOf
  <2> HIDE DEF d
  <2> QED
    BY <1>1, <1>2, StoreImplements
<1>4. CASE s = state[id] /\ c = content[id] /\ im = imports[id]
  <2>1. d = content[id]
    BY <1>4, MarkNewKeepsStored
  <2>2. state' = state
    BY <1>3, <1>4 DEF StoreInv, TypeOK
  <2> QED
    BY <2>1, <2>2, <1>3, <1>4
<1>5. CASE state[id] = "DRAFT"
  <2>1. s \in {"DRAFT", "DISABLED"}
    BY <1>5 DEF Save, States
  <2> QED
    BY <2>1, <1>3, <1>5 DEF Lifecycle!EditDraft, BodyOf
<1> QED
  BY <1>4, <1>5 DEF Save

LEMMA ReleaseImplements ==
    ASSUME StoreInv, StoreInv', NEW id \in Ids, NEW im, Release(id, im)
    PROVE  Lifecycle!Release(id)
<1>1. Store(id, "RELEASED", content[id], imports[id]) /\ state[id] = "DRAFT"
  BY DEF Release
<1>2. content[id] \in OperatorsFor(id) /\ "RELEASED" \in States
  BY StoredOperators DEF StoreInv, States
<1>3. state' = [state EXCEPT ![id] = "RELEASED"] /\ BodyOf' = BodyOf
  BY <1>1, <1>2, StoreImplements
<1> QED
  BY <1>1, <1>3 DEF Lifecycle!Release, BodyOf

LEMMA DeprecateImplements ==
    ASSUME StoreInv, StoreInv', NEW id \in Ids, NEW im, Deprecate(id, im)
    PROVE  Lifecycle!Deprecate(id)
<1>1. Store(id, "DISABLED", content[id], imports[id]) /\ state[id] = "RELEASED"
  BY DEF Deprecate
<1>2. content[id] \in OperatorsFor(id) /\ "DISABLED" \in States
  BY StoredOperators DEF StoreInv, States
<1>3. state' = [state EXCEPT ![id] = "DISABLED"] /\ BodyOf' = BodyOf
  BY <1>1, <1>2, StoreImplements
<1> QED
  BY <1>1, <1>3 DEF Lifecycle!Deprecate, BodyOf

LEMMA DeleteImplements ==
    ASSUME StoreInv, StoreInv', NEW id \in Ids, Delete(id, FALSE)
    PROVE  Lifecycle!Remove(id)
<1>1. /\ state[id] = "DRAFT"
      /\ state' = [state EXCEPT ![id] = "ABSENT"]
      /\ \A w \in Ids : w # id => Body(w)' = Body(w)
  BY DEF Delete, Body, StoreInv, TypeOK
<1>2. Body(id)' \in Bodies /\ BodyOf' = [BodyOf EXCEPT ![id] = Body(id)']
  BY <1>1, OneChange
<1> QED
  BY <1>1, <1>2 DEF Lifecycle!Remove, BodyOf

LEMMA NextImplementsLifecycle ==
    Careful /\ StoreInv /\ StoreInv' /\ [Next]_vars => [Lifecycle!Next]_(Lifecycle!vars)
<1>0. ASSUME UNCHANGED <<state, BodyOf>> PROVE UNCHANGED Lifecycle!vars
  BY <1>0 DEF Lifecycle!vars, BodyOf
<1>1. ASSUME Careful, StoreInv, StoreInv', Next PROVE Lifecycle!Next \/ UNCHANGED Lifecycle!vars
  <2>1. PICK id \in Ids : PostRevision(id) \/ PutRevision(id) \/ DeleteRevision(id)
    BY <1>1 DEF Next
  <2>2. CASE PostRevision(id)
    BY <2>2, <1>1, PostImplements DEF Lifecycle!Next
  <2>3. CASE PutRevision(id)
    <3>1. PICK im \in Codes(id) :
               \/ \E s \in ImportStates, c \in Contents(id) : PutNew(id, s, c, im)
               \/ \E s \in PutStates, c \in Contents(id), overwrite \in OverwriteFlags :
                     Save(id, s, c, im, overwrite)
               \/ Release(id, im)
               \/ Deprecate(id, im)
      BY <2>3 DEF PutRevision
    <3>2. ImportStates \subseteq States /\ PutStates \subseteq States
      BY ConstantsAssumption
    <3>3. CASE \E s \in ImportStates, c \in Contents(id) : PutNew(id, s, c, im)
      BY <3>2, <3>3, <1>1, PutNewImplements DEF Lifecycle!Next
    <3>4. CASE \E s \in PutStates, c \in Contents(id), overwrite \in OverwriteFlags :
                  Save(id, s, c, im, overwrite)
      <4>1. PICK s \in States, c \in Contents(id) : Save(id, s, c, im, FALSE)
        BY <3>2, <3>4, <1>1 DEF Careful
      <4>2. Lifecycle!EditDraft(id) \/ UNCHANGED <<state, BodyOf>>
        BY <4>1, <1>1, SaveImplements
      <4> QED
        BY <4>2, <1>0 DEF Lifecycle!Next
    <3>5. CASE Release(id, im)
      BY <3>5, <1>1, ReleaseImplements DEF Lifecycle!Next
    <3>6. CASE Deprecate(id, im)
      BY <3>6, <1>1, DeprecateImplements DEF Lifecycle!Next
    <3> QED
      BY <3>1, <3>3, <3>4, <3>5, <3>6
  <2>4. CASE DeleteRevision(id)
    <3>1. Delete(id, FALSE)
      BY <2>4, <1>1 DEF DeleteRevision, Careful
    <3> QED
      BY <3>1, <1>1, DeleteImplements DEF Lifecycle!Next
  <2> QED
    BY <2>1, <2>2, <2>3, <2>4
<1>2. ASSUME UNCHANGED vars PROVE UNCHANGED Lifecycle!vars
  BY <1>2 DEF vars, Lifecycle!vars, Body
<1> QED
  BY <1>1, <1>2

\* With clients that neither overwrite nor delete released revisions, every
\* behaviour of the store is one of the life cycle: what is released stays as
\* it is, and only drafts disappear, however requests are interleaved and
\* however old the views are that they were made from.
THEOREM LifecycleImplemented ==
    ASSUME Careful
    PROVE  Spec => ImplementsLifecycle
<1>1. Careful /\ StoreInv /\ StoreInv' /\ [Next]_vars => [Lifecycle!Next]_(Lifecycle!vars)
  BY NextImplementsLifecycle
<1>2. Careful
  OBVIOUS
<1> QED
  BY <1>1, <1>2, InitImplementsLifecycle, InvariantHolds, PTL
     DEF Spec, ImplementsLifecycle, Lifecycle!Spec

-----------------------------------------------------------------------------
(* Deprecation marks, for clients whose views are up to date and that do   *)
(* not overwrite.                                                          *)

UpToDate == ~ StaleClients /\ OverwriteFlags \subseteq {FALSE}

Marked(c) == \A o \in c : state[o.tr] = "DISABLED" => o.state = "DISABLED"

MarkInv == /\ \A w \in Ids : state[w] = "ABSENT" => content[w] = {}
           /\ \A w \in Workflows : Live(w) => Marked(content[w])

\* A payload is marked if what is stored is.
LEMMA PayloadIsMarked ==
    ASSUME UpToDate, TypeOK, NEW id \in Ids, NEW c \in Contents(id), Marked(content[id])
    PROVE  Marked(c)
<1> SUFFICES ASSUME NEW o \in c, state[o.tr] = "DISABLED" PROVE o.state = "DISABLED"
  BY DEF Marked
<1>1. o \in content[id] \/ o \in Inserted(id)
  BY DEF Contents
<1>2. CASE o \in Inserted(id)
  <2>1. PICK q \in Placements :
             \E s \in SeenStates(q.tr) : o = [id |-> q.op, tr |-> q.tr, state |-> s]
    BY <1>2 DEF Inserted
  <2>2. o.tr = q.tr /\ o.state = state[q.tr]
    BY <2>1 DEF SeenStates, UpToDate
  <2> QED
    BY <2>1, <2>2
<1> QED
  BY <1>1, <1>2 DEF Marked

\* A step that disables nothing keeps the marks of the other workflows.
LEMMA OthersStayMarked ==
    ASSUME StoreInv, MarkInv, NEW id \in Ids, NEW s \in States \cup {"ABSENT"}, NEW w \in Workflows,
           w # id, Live(w), s = "DISABLED" => state[id] \in {"ABSENT", "DISABLED"},
           state' = [state EXCEPT ![id] = s], content'[w] = content[w]
    PROVE  Marked(content[w])'
<1> SUFFICES ASSUME NEW o \in content[w], state'[o.tr] = "DISABLED" PROVE o.state = "DISABLED"
  BY DEF Marked
<1>1. o.tr \in Ids
  BY DEF StoreInv, TypeOK, Operator, Ids
<1>2. state[o.tr] # "ABSENT"
  <2>1. DirectRow(w, o) \in {r \in RowsOf(w) : r.depth = 1}
    BY DEF StoreInv, DirectNestingsMatchContent, DirectRows, Live
  <2>2. DirectRow(w, o) \in nestings /\ DirectRow(w, o).tr = o.tr
    BY <2>1 DEF RowsOf, DirectRow
  <2> QED
    BY <2>2 DEF StoreInv, ForeignKeysHold, Present
<1>3. state[o.tr] = "DISABLED"
  BY <1>1, <1>2 DEF StoreInv, TypeOK
<1> QED
  BY <1>3 DEF MarkInv, Marked

\* A step that stores c, or c with more marks, for id and does not disable it.
LEMMA SavingKeepsMarks ==
    ASSUME StoreInv, MarkInv, NEW id \in Ids, NEW s \in States,
           NEW c \in OperatorsFor(id), NEW marked,
           s = "DISABLED" => state[id] = "ABSENT",
           id \in Workflows /\ s # "DISABLED" => Marked(c),
           state' = [state EXCEPT ![id] = s],
           content' = [content EXCEPT ![id] = Mark(c, marked)]
    PROVE  MarkInv'
<1>1. \A w \in Ids : /\ state'[w] = IF w = id THEN s ELSE state[w]
                     /\ content'[w] = IF w = id THEN Mark(c, marked) ELSE content[w]
  BY DEF StoreInv, TypeOK
<1>2. ASSUME NEW w \in Ids, state'[w] = "ABSENT"
      PROVE  content'[w] = {}
  BY <1>1, <1>2 DEF MarkInv, States
<1>3. ASSUME NEW w \in Workflows, Live(w)'
      PROVE  Marked(content[w])'
  <2>1. CASE w # id
    BY <2>1, <1>1, <1>3, OthersStayMarked DEF Live, Ids
  <2>2. CASE w = id
    <3>1. s # "DISABLED" /\ Marked(c)
      BY <2>2, <1>1, <1>3 DEF Live
    <3>2. ASSUME NEW o \in c PROVE /\ o \in Operator
                                   /\ Disabled(o).state = "DISABLED" /\ Disabled(o).tr = o.tr
      BY DEF OperatorsFor, Operator, Disabled
    <3>3. ASSUME NEW x \in Mark(c, marked), state'[x.tr] = "DISABLED" PROVE x.state = "DISABLED"
      <4>1. PICK o \in c : x = IF o \in marked THEN Disabled(o) ELSE o
        BY <3>3 DEF Mark
      <4>2. x.tr = o.tr /\ o.tr \in Ids
        BY <4>1, <3>2 DEF Operator
      <4>3. state[o.tr] = "DISABLED"
        BY <4>2, <3>1, <3>3, <1>1
      <4> QED
        BY <4>1, <4>3, <3>1, <3>2 DEF Marked
    <3>4. content'[w] = Mark(c, marked)
      BY <2>2, <1>1
    <3> QED
      BY <3>3, <3>4 DEF Marked
  <2> QED
    BY <2>1, <2>2
<1> QED
  BY <1>2, <1>3 DEF MarkInv

LEMMA PassingOnKeepsMarks ==
    ASSUME StoreInv, MarkInv, NEW id \in Ids, NEW c \in OperatorsFor(id),
           state' = [state EXCEPT ![id] = "DISABLED"],
           content' = PassOnDeprecation([content EXCEPT ![id] = c], id)
    PROVE  MarkInv'
<1> DEFINE cs == [content EXCEPT ![id] = c]
           marked(w) == {o \in content[w] :
                           o.id \in {r.viaOp : r \in {n \in nestings : n.wf = w /\ n.tr = id}}}
<1>1. \A w \in Ids : /\ state'[w] = IF w = id THEN "DISABLED" ELSE state[w]
                     /\ w # id => cs[w] = content[w]
  BY DEF StoreInv, TypeOK
<1>2. \A w \in Ids : w # id => content'[w] = Mark(content[w], marked(w))
  BY <1>1 DEF PassOnDeprecation
<1> HIDE DEF cs, marked
<1>3. ASSUME NEW w \in Ids, state'[w] = "ABSENT" PROVE content'[w] = {}
  <2>1. w # id /\ content[w] = {}
    BY <1>1, <1>3 DEF MarkInv
  <2> QED
    BY <2>1, <1>2 DEF Mark
<1>4. ASSUME NEW w \in Workflows, Live(w)', NEW x \in content'[w], state'[x.tr] = "DISABLED"
      PROVE  x.state = "DISABLED"
  <2>1. w \in Ids /\ w # id /\ Live(w)
    BY <1>1, <1>4 DEF Live, Ids
  <2>0. x \in Mark(content[w], marked(w))
    BY <2>1, <1>2, <1>4
  <2>2. PICK o \in content[w] : x = IF o \in marked(w) THEN Disabled(o) ELSE o
    BY <2>0 DEF Mark
  <2>3. o \in Operator
    BY <2>1 DEF StoreInv, TypeOK
  <2>4. Disabled(o).state = "DISABLED" /\ Disabled(o).tr = o.tr
    BY <2>3 DEF Operator, Disabled
  <2>5. CASE o.tr = id
    <3>1. DirectRow(w, o) \in {r \in RowsOf(w) : r.depth = 1}
      BY <2>1 DEF StoreInv, DirectNestingsMatchContent, DirectRows, Live
    <3>2. DirectRow(w, o) \in {n \in nestings : n.wf = w /\ n.tr = id}
      BY <3>1, <2>5 DEF RowsOf, DirectRow
    <3>3. o \in marked(w)
      BY <3>2 DEF DirectRow, marked
    <3> QED
      BY <3>3, <2>2, <2>4
  <2>6. CASE o.tr # id
    <3>1. state[o.tr] = "DISABLED"
      BY <2>2, <2>3, <2>4, <2>6, <1>1, <1>4 DEF Operator
    <3> QED
      BY <3>1, <2>1, <2>2, <2>4 DEF MarkInv, Marked
  <2> QED
    BY <2>5, <2>6
<1> QED
  BY <1>3, <1>4 DEF MarkInv, Marked

LEMMA StoringKeepsMarks ==
    ASSUME StoreInv, MarkInv, NEW id \in Ids, NEW s \in States,
           NEW c \in OperatorsFor(id), NEW marked, NEW im,
           id \in Workflows /\ s # "DISABLED" => Marked(c),
           Store(id, s, Mark(c, marked), im)
    PROVE  MarkInv'
<1>1. state' = [state EXCEPT ![id] = s]
  BY DEF Store
<1>2. Mark(c, marked) \in OperatorsFor(id)
  BY MarkingKeepsOperators
<1>3. CASE s = "DISABLED" /\ content' = PassOnDeprecation([content EXCEPT ![id] = Mark(c, marked)], id)
  BY <1>1, <1>2, <1>3, PassingOnKeepsMarks
<1>4. CASE s # "DISABLED" /\ content' = [content EXCEPT ![id] = Mark(c, marked)]
  BY <1>1, <1>4, SavingKeepsMarks
<1> QED
  BY <1>3, <1>4 DEF Store

LEMMA MarkNothing ==
    ASSUME NEW c
    PROVE  Mark(c, {}) = c
BY DEF Mark

LEMMA NextKeepsMarks ==
    ASSUME UpToDate, StoreInv, MarkInv, Next
    PROVE  MarkInv'
<1>1. PICK id \in Ids : PostRevision(id) \/ PutRevision(id) \/ DeleteRevision(id)
  BY DEF Next
<1>2. content[id] \in OperatorsFor(id) /\ \A c \in Contents(id) : c \in OperatorsFor(id)
  BY StoredOperators, PayloadOperators DEF StoreInv
<1>3. /\ PostStates \subseteq States /\ ImportStates \subseteq States /\ PutStates \subseteq States
      /\ "RELEASED" \in States /\ "DISABLED" \in States
  BY ConstantsAssumption DEF States
<1>4. ASSUME NEW c \in Contents(id), id \in Workflows, ~ Present(id) \/ Live(id) PROVE Marked(c)
  <2>1. Marked(content[id])
    BY <1>4 DEF MarkInv, Present, Marked
  <2> QED
    BY <2>1, PayloadIsMarked DEF StoreInv
<1>5. CASE PostRevision(id)
  <2>1. PICK s \in States, c \in Contents(id), im \in Codes(id) : Post(id, s, c, im)
    BY <1>3, <1>5 DEF PostRevision
  <2>2. content' = [content EXCEPT ![id] = Mark(c, {})]
    BY <2>1, MarkNothing DEF Post
  <2>3. id \in Workflows => Marked(c)
    BY <2>1, <1>4 DEF Post
  <2> QED
    BY <2>1, <2>2, <2>3, <1>2, SavingKeepsMarks DEF Post, Present
<1>6. CASE PutRevision(id)
  <2>1. PICK im \in Codes(id) :
             \/ \E s \in ImportStates, c \in Contents(id) : PutNew(id, s, c, im)
             \/ \E s \in PutStates, c \in Contents(id), overwrite \in OverwriteFlags :
                   Save(id, s, c, im, overwrite)
             \/ Release(id, im)
             \/ Deprecate(id, im)
    BY <1>6 DEF PutRevision
  <2>2. CASE \E s \in ImportStates, c \in Contents(id) : PutNew(id, s, c, im)
    <3>1. PICK s \in States, c \in Contents(id) : PutNew(id, s, c, im)
      BY <1>3, <2>2
    <3>2. Store(id, s, Mark(c, {}), im) /\ ~ Present(id)
      BY <3>1, MarkNothing DEF PutNew
    <3> QED
      BY <3>2, <1>2, <1>4, StoringKeepsMarks
  <2>3. CASE \E s \in PutStates, c \in Contents(id), overwrite \in OverwriteFlags :
                Save(id, s, c, im, overwrite)
    <3>1. PICK s \in States, c \in Contents(id) : Save(id, s, c, im, FALSE)
      BY <1>3, <2>3 DEF UpToDate
    <3>2. PICK marked : Store(id, s, Mark(c, marked), im)
      BY <3>1 DEF Save, MarkNewOperators
    <3>3. id \in Workflows /\ s # "DISABLED" => Live(id)
      BY <3>1 DEF Save, Live, States
    <3> QED
      BY <3>2, <3>3, <1>2, <1>4, StoringKeepsMarks
  <2>4. CASE Release(id, im)
    <3>1. Store(id, "RELEASED", Mark(content[id], {}), imports[id])
      BY <2>4, MarkNothing DEF Release
    <3>2. id \in Workflows => Marked(content[id])
      BY <2>4 DEF Release, MarkInv, Live
    <3> QED
      BY <3>1, <3>2, <1>2, <1>3, StoringKeepsMarks
  <2>5. CASE Deprecate(id, im)
    <3>1. Store(id, "DISABLED", Mark(content[id], {}), imports[id])
      BY <2>5, MarkNothing DEF Deprecate
    <3> QED
      BY <3>1, <1>2, <1>3, StoringKeepsMarks
  <2> QED
    BY <2>1, <2>2, <2>3, <2>4, <2>5
<1>7. CASE DeleteRevision(id)
  <2>1. /\ state' = [state EXCEPT ![id] = "ABSENT"]
        /\ content' = [content EXCEPT ![id] = {}]
    BY <1>7 DEF DeleteRevision, Delete
  <2>2. \A w \in Ids : /\ state'[w] = IF w = id THEN "ABSENT" ELSE state[w]
                       /\ content'[w] = IF w = id THEN {} ELSE content[w]
    BY <2>1 DEF StoreInv, TypeOK
  <2>3. ASSUME NEW w \in Workflows, Live(w)' PROVE Marked(content[w])'
    <3>1. w \in Ids /\ w # id /\ Live(w) /\ content'[w] = content[w]
      BY <2>2, <2>3 DEF Live, Ids
    <3> QED
      BY <2>1, <3>1, OthersStayMarked
  <2> QED
    BY <2>2, <2>3 DEF MarkInv
<1> QED
  BY <1>1, <1>5, <1>6, <1>7

\* With up to date clients that do not overwrite, every instance of a
\* deprecated revision in a workflow that is not deprecated bears the mark.
THEOREM DeprecatedInstancesMarked ==
    ASSUME UpToDate
    PROVE  Spec => []DeprecatedInstancesAreMarked
<1>1. Init => MarkInv
  BY DEF Init, MarkInv, Live, Ids
<1>2. UpToDate /\ StoreInv /\ MarkInv /\ [Next]_vars => MarkInv'
  <2>1. ASSUME MarkInv, UNCHANGED vars PROVE MarkInv'
    BY <2>1 DEF MarkInv, Marked, Live, vars
  <2> QED
    BY <2>1, NextKeepsMarks
<1>3. MarkInv => DeprecatedInstancesAreMarked
  BY DEF MarkInv, Marked, Live, DeprecatedInstancesAreMarked
<1>4. UpToDate
  OBVIOUS
<1> QED
  BY <1>1, <1>2, <1>3, <1>4, InvariantHolds, PTL DEF Spec


-----------------------------------------------------------------------------
(* Circles that are detected.                                              *)

\* w is live and has an operator that instantiates v.
Uses(w, v) == Live(w) /\ v \in Targets(w)

NoShortCycle ==
    \A w, v, u \in Ids : /\ ~ Uses(w, w)
                         /\ ~ (Uses(w, v) /\ Uses(v, w))
                         /\ ~ (Uses(w, v) /\ Uses(v, u) /\ Uses(u, w))

\* An operator of a live workflow has its row of depth 1.
LEMMA UsedHasRow ==
    ASSUME StoreInv, NEW w \in Ids, NEW v, Uses(w, v)
    PROVE  /\ w \in Workflows /\ v \in Ids
           /\ \E o \in content[w] : o.tr = v /\ o.id \in OpIds /\ DirectRow(w, o) \in nestings
<1>1. PICK o \in content[w] : o.tr = v
  BY DEF Uses, Targets
<1>2. o \in Operator
  BY DEF StoreInv, TypeOK
<1>3. w \in Workflows
  BY <1>1, StoredOperators, ComponentsHaveNoOperators DEF StoreInv, Ids
<1>4. DirectRow(w, o) \in {r \in RowsOf(w) : r.depth = 1}
  BY <1>1, <1>3 DEF StoreInv, DirectNestingsMatchContent, DirectRows, Uses, Live
<1> QED
  BY <1>1, <1>2, <1>3, <1>4 DEF RowsOf, Operator

\* update_nesting refuses every circle of up to three operators that the saved content
\* closes: rows of depth 1 are up to date, and no two of those of depth 2 share a key.
LEMMA SavingClosesNoCircle ==
    ASSUME StoreInv, NEW wf \in Workflows, NEW c \in OperatorsFor(wf), UpdateNesting(wf, c),
           NEW o \in c
    PROVE  /\ o.tr # wf
           /\ ~ Uses(o.tr, wf)
           /\ \A u \in Ids : ~ (Uses(o.tr, u) /\ Uses(u, wf))
<1> DEFINE rows == DirectRows(wf, c) \cup DerivedRows(wf, c)
<1>1. PICK new \in MergeOutcomes(rows) : ~ CycleDetected(wf, c, RowsWithout(wf) \cup new)
  BY DEF UpdateNesting
<1>2. new \subseteq rows /\ \A r \in rows : \E k \in new : Key(k) = Key(r)
  BY MergeKeepsKeys
<1>3. \A p \in c : p.tr # wf
  BY <1>1 DEF CycleDetected
<1>4. \A p \in c : p \in Operator /\ p.tr \in Ids /\ wf \in Ids
  BY DEF OperatorsFor, Operator, Ids
<1>5. ASSUME NEW p \in c, NEW r \in nestings, r.wf = p.tr
      PROVE  DerivedRow(wf, p, r) \in DerivedRows(wf, c)
  <2>1. p.tr \in Workflows
    BY <1>5 DEF StoreInv, TypeOK, Nesting
  <2> QED
    BY <1>5, <2>1 DEF DerivedRows, RowsOf
<1>6. ASSUME Uses(o.tr, wf) PROVE FALSE
  <2>1. PICK q \in content[o.tr] : q.tr = wf /\ DirectRow(o.tr, q) \in nestings
    BY <1>4, <1>6, UsedHasRow
  <2> DEFINE r == DerivedRow(wf, o, DirectRow(o.tr, q))
  <2>2. r \in DerivedRows(wf, c)
    BY <1>5, <2>1 DEF DirectRow
  <2>3. Key(r) = <<wf, o.id, 2, q.id>>
    BY DEF Key, DerivedRow, DirectRow
  <2>4. PICK k \in new : Key(k) = Key(r)
    BY <1>2, <2>2
  <2>5. k.wf = wf /\ k.viaOp = o.id /\ k.depth = 2 /\ k.op = q.id
    BY <2>3, <2>4 DEF Key
  <2>6. k \notin DirectRows(wf, c)
    BY <2>5 DEF DirectRows, DirectRow
  <2>7. PICK p \in c, l \in nestings : l.wf = p.tr /\ k = DerivedRow(wf, p, l)
    BY <1>2, <2>6 DEF DerivedRows, RowsOf
  <2>8. p = o
    BY <2>5, <2>7 DEF DerivedRow, OperatorsFor, UniqueIds
  <2>9. l.depth = 1 /\ l.op = q.id
    <3>1. l.depth \in Nat
      BY DEF StoreInv, TypeOK, Nesting
    <3> QED
      BY <2>5, <2>7, <3>1 DEF DerivedRow
  <2>10. l \in {n \in RowsOf(o.tr) : n.depth = 1}
    BY <2>7, <2>8, <2>9 DEF RowsOf
  <2>11. o.tr \in Workflows /\ state[o.tr] \in {"DRAFT", "RELEASED"}
    BY <1>4, <1>6, UsedHasRow DEF Uses, Live
  <2>12. l \in DirectRows(o.tr, content[o.tr])
    BY <2>10, <2>11 DEF StoreInv, DirectNestingsMatchContent
  <2>13. PICK q2 \in content[o.tr] : l = DirectRow(o.tr, q2)
    BY <2>12 DEF DirectRows
  <2>14. q2.id = q.id
    BY <2>9, <2>13 DEF DirectRow
  <2>15. q2 = q
    BY <1>4, <2>14 DEF StoreInv, TypeOK, UniqueIds
  <2>16. k.tr = wf
    BY <2>1, <2>7, <2>13, <2>15 DEF DerivedRow, DirectRow
  <2> QED
    BY <1>1, <2>4, <2>5, <2>16 DEF CycleDetected, DisallowedAncestors
<1>7. ASSUME NEW u \in Ids, Uses(o.tr, u), Uses(u, wf) PROVE FALSE
  <2>1. PICK q \in content[o.tr] : q.tr = u /\ DirectRow(o.tr, q) \in nestings
    BY <1>4, <1>7, UsedHasRow
  <2>2. DerivedRow(wf, o, DirectRow(o.tr, q)) \in DerivedRows(wf, c)
    BY <1>5, <2>1 DEF DirectRow
  <2>3. u \in DisallowedAncestors(wf, c)
    BY <2>1, <2>2 DEF DisallowedAncestors, DerivedRow, DirectRow
  <2>4. PICK p \in content[u] : p.tr = wf /\ DirectRow(u, p) \in nestings
    BY <1>7, UsedHasRow
  <2>5. u # wf
    BY <1>6, <1>7
  <2>6. DirectRow(u, p) \in RowsWithout(wf)
    BY <2>4, <2>5 DEF RowsWithout, DirectRow
  <2>7. DirectRow(u, p).tr = wf /\ DirectRow(u, p).wf = u
    BY <2>4 DEF DirectRow
  <2> QED
    BY <1>1, <2>3, <2>6, <2>7 DEF CycleDetected
<1> QED
  BY <1>3, <1>6, <1>7

\* What a step makes of who uses whom.
LEMMA UsesAfterStep ==
    ASSUME StoreInv, NEW id \in Ids, SavingOrDisabling(id) \/ Removing(id),
           NEW w \in Ids, NEW v, Uses(w, v)'
    PROVE  \/ w # id /\ Uses(w, v)
           \/ /\ w = id /\ id \in Workflows
              /\ \E c \in OperatorsFor(id) : UpdateNesting(id, c) /\ \E o \in c : v = o.tr
<1>1. CASE Removing(id)
  <2>1. /\ state' = [state EXCEPT ![id] = "ABSENT"]
        /\ content' = [content EXCEPT ![id] = {}]
    BY <1>1 DEF Removing, Delete
  <2> QED
    BY <2>1 DEF Uses, Live, Targets, StoreInv, TypeOK
<1>2. ASSUME NEW c \in OperatorsFor(id), NEW im, NEW s, Saving(id, s, c, im)
      PROVE  \/ w # id /\ Uses(w, v)
             \/ /\ w = id /\ id \in Workflows
                /\ UpdateNesting(id, c) /\ \E o \in c : v = o.tr
  <2>1. /\ state' = [state EXCEPT ![id] = s]
        /\ content' = [content EXCEPT ![id] = c]
    BY <1>2 DEF Saving
  <2>2. CASE w # id
    BY <2>1, <2>2 DEF Uses, Live, Targets, StoreInv, TypeOK
  <2>3. CASE w = id
    <3>1. \E o \in c : v = o.tr
      BY <2>1, <2>3 DEF Uses, Targets, StoreInv, TypeOK
    <3>2. id \in Workflows
      BY <3>1, ComponentsHaveNoOperators DEF Ids
    <3> QED
      BY <2>3, <3>1, <3>2, <1>2 DEF Saving, SaveNesting
  <2> QED
    BY <2>2, <2>3
<1>3. ASSUME NEW c \in OperatorsFor(id), NEW im, Disabling(id, c, im)
      PROVE  w # id /\ Uses(w, v)
  <2>1. /\ state' = [state EXCEPT ![id] = "DISABLED"]
        /\ content' = PassOnDeprecation([content EXCEPT ![id] = c], id)
    BY <1>3 DEF Disabling
  <2>2. w # id /\ state'[w] = state[w]
    BY <2>1 DEF Uses, Live, StoreInv, TypeOK
  <2> DEFINE cs == [content EXCEPT ![id] = c]
  <2>3. content' = PassOnDeprecation(cs, id) /\ cs[w] = content[w] /\ cs[w] \in OperatorsFor(w)
    BY <2>1, <2>2, StoredOperators DEF StoreInv, TypeOK
  <2> HIDE DEF cs
  <2>4. {<<o.id, o.tr>> : o \in content'[w]} = {<<o.id, o.tr>> : o \in content[w]}
    <3>1. {<<o.id, o.tr>> : o \in PassOnDeprecation(cs, id)[w]} = {<<o.id, o.tr>> : o \in cs[w]}
      BY <2>3, PassOnKeepsOperators
    <3> QED
      BY <2>3, <3>1
  <2>5. PICK o \in content'[w] : v = o.tr
    BY DEF Uses, Targets
  <2>6. <<o.id, o.tr>> \in {<<p.id, p.tr>> : p \in content[w]}
    BY <2>4, <2>5
  <2> QED
    BY <2>2, <2>5, <2>6 DEF Uses, Live, Targets
<1> QED
  BY <1>1, <1>2, <1>3 DEF SavingOrDisabling

LEMMA NextKeepsNoShortCycle ==
    StoreInv /\ StoreInv' /\ NoShortCycle /\ [Next]_vars => NoShortCycle'
<1>1. ASSUME UNCHANGED vars, NoShortCycle PROVE NoShortCycle'
  BY <1>1 DEF NoShortCycle, Uses, Live, Targets, vars
<1>2. ASSUME StoreInv, NoShortCycle, Next PROVE NoShortCycle'
  <2>1. PICK id \in Ids : SavingOrDisabling(id) \/ Removing(id)
    BY <1>2, StepShape DEF StoreInv
  <2>2. \A w \in Ids : \A v : Uses(w, v)' => w = id \/ Uses(w, v)
    BY <1>2, <2>1, UsesAfterStep
  <2>3. ASSUME NEW v, Uses(id, v)'
        PROVE  v # id /\ ~ Uses(v, id) /\ \A u \in Ids : ~ (Uses(v, u) /\ Uses(u, id))
    <3>1. PICK c \in OperatorsFor(id) :
               id \in Workflows /\ UpdateNesting(id, c) /\ \E o \in c : v = o.tr
      BY <1>2, <2>1, <2>3, UsesAfterStep
    <3> QED
      BY <1>2, <3>1, SavingClosesNoCircle
  <2>4. ASSUME NEW v \in Ids, Uses(id, v)' PROVE v # id /\ ~ Uses(v, id)'
    BY <2>2, <2>3, <2>4
  <2>5. ASSUME NEW v \in Ids, NEW u \in Ids, Uses(id, v)', Uses(v, u)', Uses(u, id)' PROVE FALSE
    <3>1. v # id /\ u # id
      BY <2>4, <2>5
    <3>2. Uses(v, u) /\ Uses(u, id)
      BY <3>1, <2>2, <2>5
    <3> QED
      BY <3>2, <2>3, <2>5
  <2>6. ASSUME NEW w \in Ids, NEW v \in Ids, NEW u \in Ids
        PROVE  /\ ~ Uses(w, w)'
               /\ ~ (Uses(w, v)' /\ Uses(v, w)')
               /\ ~ (Uses(w, v)' /\ Uses(v, u)' /\ Uses(u, w)')
    <3>1. ~ Uses(w, w)'
      BY <1>2, <2>2, <2>4 DEF NoShortCycle
    <3>2. ~ (Uses(w, v)' /\ Uses(v, w)')
      BY <1>2, <2>2, <2>4 DEF NoShortCycle
    <3>3. ~ (Uses(w, v)' /\ Uses(v, u)' /\ Uses(u, w)')
      BY <1>2, <2>2, <2>5 DEF NoShortCycle
    <3> QED
      BY <3>1, <3>2, <3>3
  <2> QED
    BY <2>6 DEF NoShortCycle
<1> QED
  BY <1>1, <1>2

\* No circle of up to three operators is ever stored among workflows that are not
\* deprecated, whatever is overwritten and however old the views of clients are.
THEOREM ShortCyclesDetected == Spec => []ShortCyclesAreDetected
<1>1. Init => NoShortCycle
  BY DEF Init, NoShortCycle, Uses, Live
<1>2. StoreInv /\ NoShortCycle => ShortCyclesAreDetected
  <2> SUFFICES ASSUME StoreInv, NoShortCycle, NEW w \in Workflows, Live(w)
               PROVE  /\ w \notin Targets(w)
                      /\ \A v \in Targets(w) : Live(v) => w \notin Targets(v)
                      /\ \A v \in Targets(w) : Live(v) =>
                            \A u \in Targets(v) : Live(u) => w \notin Targets(u)
    BY DEF ShortCyclesAreDetected
  <2>1. w \in Ids
    BY DEF Ids
  <2>2. ASSUME NEW v \in Targets(w), Live(v) PROVE v \in Ids /\ Uses(w, v)
    BY <2>1, UsedHasRow DEF Uses
  <2>3. ASSUME NEW v \in Targets(w), Live(v), NEW u \in Targets(v), Live(u)
        PROVE  u \in Ids /\ Uses(v, u)
    BY <2>2, <2>3, UsedHasRow DEF Uses
  <2>4. w \notin Targets(w)
    BY <2>1 DEF NoShortCycle, Uses
  <2>5. ASSUME NEW v \in Targets(w), Live(v) PROVE w \notin Targets(v)
    BY <2>1, <2>2, <2>5 DEF NoShortCycle, Uses
  <2>6. ASSUME NEW v \in Targets(w), Live(v), NEW u \in Targets(v), Live(u)
        PROVE  w \notin Targets(u)
    <3>1. v \in Ids /\ Uses(w, v) /\ u \in Ids /\ Uses(v, u) /\ ~ Uses(u, w)
      BY <2>1, <2>2, <2>3, <2>6 DEF NoShortCycle
    <3> QED
      BY <3>1, <2>6 DEF Uses
  <2> QED
    BY <2>4, <2>5, <2>6
<1> QED
  BY <1>1, <1>2, NextKeepsNoShortCycle, InvariantHolds, PTL DEF Spec


-----------------------------------------------------------------------------
(* Executing what is released: rows that are copied once still cover what  *)
(* a released workflow needs.                                              *)

\* The nestings' primary key leaves out the nested revision: operators with the same id
\* in different workflows have to instantiate the same revision.
OneTargetPerOperator == \A p, q \in Placements : p.op = q.op => p.tr = q.tr

\* A set of released revisions without deprecated operators, closed under nesting.
Sound(ids) ==
    \A v \in ids : /\ state[v] = "RELEASED"
                   /\ \A o \in content[v] : o.state = "RELEASED"
                   /\ Targets(v) \subseteq ids

\* What the rows of a workflow name.
Found(w) == {r.tr : r \in RowsOf(w)}

\* An operator marked RELEASED was made from a revision that will never be a draft again.
Grounded(c) == \A o \in c : o.state = "RELEASED" => state[o.tr] \in {"RELEASED", "DISABLED"}

ReleasedInv ==
    /\ \A r \in nestings : \E p \in Placements : p.op = r.op /\ p.tr = r.tr
    /\ \A w \in Ids : state[w] = "ABSENT" => content[w] = {}
    /\ \A w \in Ids : Live(w) => Grounded(content[w])
    /\ \A ids \in SUBSET Ids : Sound(ids) =>
          \A w \in ids : /\ Found(w) \subseteq ids
                         /\ \A t \in Found(w) : Targets(t) \subseteq Found(w)


LEMMA UpdateNestingFinds ==
    ASSUME StoreInv, ReleasedInv, OneTargetPerOperator,
           NEW wf \in Workflows, NEW c \in OperatorsFor(wf), UpdateNesting(wf, c)
    PROVE  /\ \A r \in nestings' : r.wf = wf => r \in DirectRows(wf, c) \cup DerivedRows(wf, c)
           /\ \A r \in DirectRows(wf, c) \cup DerivedRows(wf, c) :
                 \E k \in nestings' : k.wf = wf /\ k.tr = r.tr
           /\ \A r : r.wf # wf => (r \in nestings' <=> r \in nestings)
           /\ \A r \in nestings' : \E p \in Placements : p.op = r.op /\ p.tr = r.tr
<1> DEFINE rows == DirectRows(wf, c) \cup DerivedRows(wf, c)
<1>1. PICK new \in MergeOutcomes(rows) : nestings' = RowsWithout(wf) \cup new
  BY DEF UpdateNesting
<1>2. new \subseteq rows /\ \A r \in rows : \E k \in new : Key(k) = Key(r)
  BY MergeKeepsKeys
<1>3. ASSUME NEW r \in rows
      PROVE  r.wf = wf /\ \E p \in Placements : p.op = r.op /\ p.tr = r.tr
  <2>1. CASE r \in DirectRows(wf, c)
    <3>1. PICK o \in c : r = DirectRow(wf, o)
      BY <2>1 DEF DirectRows
    <3>2. [wf |-> wf, op |-> o.id, tr |-> o.tr] \in Placements
      BY DEF OperatorsFor
    <3> QED
      BY <3>1, <3>2 DEF DirectRow
  <2>2. CASE r \in DerivedRows(wf, c)
    <3>1. PICK o \in c, k \in nestings : r = DerivedRow(wf, o, k)
      BY <2>2 DEF DerivedRows, RowsOf
    <3> QED
      BY <3>1 DEF DerivedRow, ReleasedInv
  <2> QED
    BY <2>1, <2>2
<1>4. \A r \in nestings' : r.wf = wf => r \in rows
  BY <1>1, <1>2 DEF RowsWithout
<1>5. ASSUME NEW r \in rows PROVE \E k \in nestings' : k.wf = wf /\ k.tr = r.tr
  <2>1. PICK k \in new : Key(k) = Key(r)
    BY <1>2
  <2>2. k.op = r.op
    BY <2>1 DEF Key
  <2>3. k.tr = r.tr /\ k.wf = wf
    BY <2>2, <1>2, <1>3 DEF OneTargetPerOperator
  <2> QED
    BY <2>3, <1>1
<1>6. \A r : r.wf # wf => (r \in nestings' <=> r \in nestings)
  BY <1>1, <1>2, <1>3 DEF RowsWithout
<1>7. ASSUME NEW r \in nestings' PROVE \E p \in Placements : p.op = r.op /\ p.tr = r.tr
  BY <1>1, <1>2, <1>3 DEF RowsWithout, ReleasedInv
<1> QED
  BY <1>4, <1>5, <1>6, <1>7

\* What Careful clients may save: content of their own for a draft or a new revision,
\* or what is stored.
NotOfDrafts(c) == \A o \in c : o.state = "RELEASED" => state[o.tr] # "DRAFT"

Fresh(id, s, c) == \/ state[id] \in {"ABSENT", "DRAFT"} /\ NotOfDrafts(c)
                   \/ s = state[id] /\ c = content[id]

CarefulStep(id) ==
    \/ Removing(id) /\ state[id] = "DRAFT"
    \/ \E c \in OperatorsFor(id), im \in SUBSET Components :
          \/ \E s \in States : Saving(id, s, c, im) /\ Fresh(id, s, c)
          \/ Disabling(id, c, im)

LEMMA CarefulStore ==
    ASSUME NEW id \in Ids, NEW s \in States, NEW c \in OperatorsFor(id),
           NEW im \in SUBSET Components, ValidContent(s, c), Store(id, s, c, im),
           s = "DISABLED" \/ Fresh(id, s, c)
    PROVE  CarefulStep(id)
<1>1. CASE s = "DISABLED" /\ content' = PassOnDeprecation([content EXCEPT ![id] = c], id)
           /\ UNCHANGED nestings
  <2>1. Disabling(id, c, im)
    BY <1>1 DEF Disabling, Store
  <2> QED
    BY <2>1 DEF CarefulStep
<1>2. CASE s # "DISABLED" /\ content' = [content EXCEPT ![id] = c] /\ SaveNesting(id, c)
  <2>1. Saving(id, s, c, im)
    BY <1>2 DEF Saving, Store
  <2> QED
    BY <2>1, <1>2 DEF CarefulStep
<1> QED
  BY <1>1, <1>2 DEF Store

LEMMA PayloadNotOfDrafts ==
    ASSUME StoreInv, ReleasedInv, NEW id \in Ids, NEW c \in Contents(id),
           state[id] \in {"ABSENT", "DRAFT"}
    PROVE  NotOfDrafts(c)
<1> SUFFICES ASSUME NEW o \in c, o.state = "RELEASED" PROVE state[o.tr] # "DRAFT"
  BY DEF NotOfDrafts
<1>1. o \in content[id] \/ o \in Inserted(id)
  BY DEF Contents
<1>2. CASE o \in content[id]
  BY <1>2 DEF ReleasedInv, Grounded, Live
<1>3. CASE o \in Inserted(id)
  <2>1. PICK q \in Placements :
             \E s \in SeenStates(q.tr) : o = [id |-> q.op, tr |-> q.tr, state |-> s]
    BY <1>3 DEF Inserted
  <2>2. o.tr = q.tr /\ o.state \in SeenStates(q.tr)
    BY <2>1
  <2>3. ASSUME state[o.tr] = "DRAFT" PROVE FALSE
    <3>1. IF StaleClients THEN Age["RELEASED"] <= Age["DRAFT"] ELSE "RELEASED" = "DRAFT"
      BY <2>2, <2>3 DEF SeenStates
    <3>2. Age["RELEASED"] = 2 /\ Age["DRAFT"] = 1
      BY DEF Age, States
    <3> QED
      BY <3>1, <3>2
  <2> QED
    BY <2>3
<1> QED
  BY <1>1, <1>2, <1>3

LEMMA CarefulShape ==
    ASSUME Careful, StoreInv, ReleasedInv, Next
    PROVE  \E id \in Ids : CarefulStep(id)
<1>1. PICK id \in Ids : PostRevision(id) \/ PutRevision(id) \/ DeleteRevision(id)
  BY DEF Next
<1>2. \A im \in Codes(id) : im \in SUBSET Components
  BY DEF Codes
<1>3. imports[id] \in SUBSET Components /\ content[id] \in OperatorsFor(id)
  BY StoredOperators DEF StoreInv, TypeOK
<1>4. /\ PostStates \subseteq States /\ ImportStates \subseteq States /\ PutStates \subseteq States
      /\ "RELEASED" \in States /\ "DISABLED" \in States
  BY ConstantsAssumption DEF States
<1>5. \A c \in Contents(id) : c \in OperatorsFor(id)
  BY PayloadOperators DEF StoreInv
<1>6. CASE PostRevision(id)
  <2>1. PICK s \in PostStates, c \in Contents(id), im \in Codes(id) : Post(id, s, c, im)
    BY <1>6 DEF PostRevision
  <2>2. Saving(id, s, c, im) /\ state[id] = "ABSENT"
    BY <2>1 DEF Post, Saving, Present
  <2>3. Fresh(id, s, c)
    BY <2>2, PayloadNotOfDrafts DEF Fresh
  <2> QED
    BY <2>2, <2>3, <1>2, <1>4, <1>5 DEF CarefulStep
<1>7. CASE PutRevision(id)
  <2>1. PICK im \in Codes(id) :
             \/ \E s \in ImportStates, c \in Contents(id) : PutNew(id, s, c, im)
             \/ \E s \in PutStates, c \in Contents(id), overwrite \in OverwriteFlags :
                   Save(id, s, c, im, overwrite)
             \/ Release(id, im)
             \/ Deprecate(id, im)
    BY <1>7 DEF PutRevision
  <2>2. CASE \E s \in ImportStates, c \in Contents(id) : PutNew(id, s, c, im)
    <3>1. PICK s \in States, c \in Contents(id) : PutNew(id, s, c, im)
      BY <1>4, <2>2
    <3>2. Fresh(id, s, c)
      BY <3>1, PayloadNotOfDrafts DEF Fresh, PutNew, Present
    <3> QED
      BY <3>1, <3>2, <1>2, <1>5, CarefulStore DEF PutNew
  <2>3. CASE \E s \in PutStates, c \in Contents(id), overwrite \in OverwriteFlags :
                Save(id, s, c, im, overwrite)
    <3>1. PICK s \in States, c \in Contents(id) : Save(id, s, c, im, FALSE)
      BY <1>4, <2>3 DEF Careful
    <3>2. PICK m : m = MarkNewOperators(id, c)
      OBVIOUS
    <3>3. m \in OperatorsFor(id) /\ ValidContent(s, m) /\ Store(id, s, m, im)
      BY <3>1, <3>2, <1>5, MarkNewKeepsOperators DEF Save
    <3>4. CASE <<s, c, im>> = <<state[id], content[id], imports[id]>>
      <4>1. m = content[id] /\ s = state[id]
        BY <3>2, <3>4, MarkNewKeepsStored
      <4> QED
        BY <4>1, <3>3, <1>2, CarefulStore DEF Fresh
    <3>5. CASE state[id] = "DRAFT"
      <4>1. NotOfDrafts(c)
        BY <3>5, PayloadNotOfDrafts
      <4>2. ASSUME NEW x \in m PROVE x \in c \/ x.state = "DISABLED"
        <5>1. PICK o \in c : x = o \/ x = Disabled(o)
          BY <3>2 DEF MarkNewOperators, Mark
        <5>2. o \in Operator
          BY <1>5 DEF OperatorsFor
        <5> QED
          BY <5>1, <5>2 DEF Disabled, Operator
      <4>3. NotOfDrafts(m)
        BY <4>1, <4>2 DEF NotOfDrafts
      <4> QED
        BY <4>3, <3>3, <3>5, <1>2, CarefulStore DEF Fresh
    <3> QED
      BY <3>1, <3>4, <3>5 DEF Save
  <2>4. CASE Release(id, im)
    <3>1. Fresh(id, "RELEASED", content[id])
      BY <2>4 DEF Release, Fresh, ReleasedInv, Grounded, Live, NotOfDrafts
    <3> QED
      BY <2>4, <3>1, <1>3, <1>4, CarefulStore DEF Release
  <2>5. CASE Deprecate(id, im)
    <3>1. ValidContent("DISABLED", content[id])
      BY <2>5, StoredContentIsValid DEF Deprecate, StoreInv
    <3> QED
      BY <2>5, <3>1, <1>3, <1>4, CarefulStore DEF Deprecate
  <2> QED
    BY <2>1, <2>2, <2>3, <2>4, <2>5
<1>8. CASE DeleteRevision(id)
  <2>1. Delete(id, FALSE)
    BY <1>8 DEF DeleteRevision, Careful
  <2> QED
    BY <2>1 DEF Delete, Removing, CarefulStep
<1> QED
  BY <1>1, <1>6, <1>7, <1>8


\* Sound sets are found by their rows.
Covered(ids) == \A w \in ids : /\ Found(w) \subseteq ids
                               /\ \A t \in Found(w) : Targets(t) \subseteq Found(w)

LEMMA DirectTargetsAreFound ==
    ASSUME StoreInv, NEW w \in Ids, Live(w)
    PROVE  Targets(w) \subseteq Found(w)
<1> SUFFICES ASSUME NEW v \in Targets(w) PROVE v \in Found(w)
  OBVIOUS
<1>1. PICK o \in content[w] : o.tr = v /\ DirectRow(w, o) \in nestings
  BY UsedHasRow DEF Uses
<1>2. DirectRow(w, o).wf = w /\ DirectRow(w, o).tr = v
  BY <1>1 DEF DirectRow
<1> QED
  BY <1>1, <1>2 DEF Found, RowsOf

\* A set without the revision a step changes stays covered if it was sound before.
LEMMA OthersStayCovered ==
    ASSUME StoreInv, ReleasedInv, NEW ids \in SUBSET Ids, Sound(ids),
           \A w \in ids : /\ \A r : r.wf = w => (r \in nestings' <=> r \in nestings)
                          /\ Targets(w)' = Targets(w)
    PROVE  \A w \in ids : /\ Found(w)' = Found(w)
                          /\ Found(w)' \subseteq ids
                          /\ \A t \in Found(w)' : Targets(t)' \subseteq Found(w)'
<1> TAKE w \in ids
<1>1. Found(w)' = Found(w)
  BY DEF Found, RowsOf
<1>2. Found(w) \subseteq ids /\ \A t \in Found(w) : Targets(t) \subseteq Found(w)
  BY DEF ReleasedInv
<1> QED
  BY <1>1, <1>2

LEMMA SavingKeepsGrounded ==
    ASSUME StoreInv, ReleasedInv, NEW id \in Ids, NEW s \in States, NEW c \in OperatorsFor(id),
           NEW im, Saving(id, s, c, im), Fresh(id, s, c)
    PROVE  \A w \in Ids : Live(w)' => Grounded(content[w])'
<1>1. \A w \in Ids : /\ state'[w] = IF w = id THEN s ELSE state[w]
                     /\ content'[w] = IF w = id THEN c ELSE content[w]
  BY DEF Saving, StoreInv, TypeOK
<1>2. \A w \in Ids : \A o \in content'[w] : o.tr \in Ids
  BY <1>1 DEF StoreInv, TypeOK, OperatorsFor, Operator
<1>3. \A t \in Ids : state[t] \in {"RELEASED", "DISABLED"} => state'[t] = state[t]
  BY <1>1 DEF Fresh
<1> SUFFICES ASSUME NEW w \in Ids, Live(w)', NEW o \in content'[w], o.state = "RELEASED"
             PROVE  state'[o.tr] \in {"RELEASED", "DISABLED"}
  BY DEF Grounded
<1>4. CASE w # id
  <2>1. state[o.tr] \in {"RELEASED", "DISABLED"}
    BY <1>1, <1>4 DEF ReleasedInv, Grounded, Live
  <2> QED
    BY <2>1, <1>2, <1>3
<1>5. CASE w = id /\ state[id] \in {"ABSENT", "DRAFT"} /\ NotOfDrafts(c)
  <2>1. o \in c /\ state[o.tr] # "DRAFT"
    BY <1>1, <1>5 DEF NotOfDrafts
  <2>2. id \in Workflows
    BY <2>1, ComponentsHaveNoOperators DEF Ids
  <2>3. UpdateNesting(id, c)
    BY <2>2 DEF Saving, SaveNesting
  <2>4. Present(o.tr)
    BY <2>1, <2>2, <2>3, UpdateNestingRows DEF StoreInv
  <2>5. state[o.tr] \in {"RELEASED", "DISABLED"}
    BY <2>1, <2>4, <1>2 DEF Present, StoreInv, TypeOK, States
  <2> QED
    BY <2>5, <1>2, <1>3
<1>6. CASE w = id /\ s = state[id] /\ c = content[id]
  <2>1. state[o.tr] \in {"RELEASED", "DISABLED"}
    BY <1>1, <1>6 DEF ReleasedInv, Grounded, Live
  <2> QED
    BY <2>1, <1>2, <1>3
<1> QED
  BY <1>4, <1>5, <1>6 DEF Fresh

LEMMA SavingKeepsCovered ==
    ASSUME StoreInv, ReleasedInv, OneTargetPerOperator,
           NEW id \in Ids, NEW s \in States, NEW c \in OperatorsFor(id),
           NEW im, Saving(id, s, c, im), Fresh(id, s, c),
           NEW ids \in SUBSET Ids, Sound(ids)'
    PROVE  Covered(ids)'
<1>1. \A w \in Ids : /\ state'[w] = IF w = id THEN s ELSE state[w]
                     /\ content'[w] = IF w = id THEN c ELSE content[w]
  BY DEF Saving, StoreInv, TypeOK
<1>2. \A w \in Ids : w # id => Targets(w)' = Targets(w)
  BY <1>1 DEF Targets
<1>3. \A w \in Ids : w # id => \A r : r.wf = w => (r \in nestings' <=> r \in nestings)
  <2>1. CASE id \in Workflows
    BY <2>1, UpdateNestingFinds DEF Saving, SaveNesting
  <2>2. CASE id \notin Workflows
    BY <2>2 DEF Saving, SaveNesting
  <2> QED
    BY <2>1, <2>2
<1>4. PICK old \in SUBSET ids :
          /\ Sound(old) /\ ids \subseteq old \cup {id}
          /\ \A v \in old : Targets(v)' = Targets(v)
          /\ id \in ids => \A o \in c : o.tr # id => o.tr \in old
  <2>1. CASE s = state[id] /\ c = content[id]
    <3>1. \A w \in Ids : state'[w] = state[w] /\ content'[w] = content[w]
      BY <1>1, <2>1
    <3>2. Sound(ids) /\ \A v \in ids : Targets(v)' = Targets(v)
      BY <3>1 DEF Sound, Targets
    <3>3. id \in ids => \A o \in c : o.tr \in ids
      BY <3>2, <2>1 DEF Sound, Targets
    <3> QED
      BY <3>2, <3>3, <2>1
  <2>2. CASE state[id] \in {"ABSENT", "DRAFT"}
    <3>1. \A v \in ids \ {id} : /\ state[v] = "RELEASED" /\ Targets(v) \subseteq ids
                                /\ \A o \in content[v] : o.state = "RELEASED"
      BY <1>1, <1>2 DEF Sound
    <3>2. ASSUME NEW v \in ids \ {id} PROVE id \notin Targets(v)
      <4>1. Grounded(content[v])
        BY <3>1 DEF ReleasedInv, Live
      <4> QED
        BY <4>1, <3>1, <2>2 DEF Grounded, Targets
    <3>3. Sound(ids \ {id})
      BY <3>1, <3>2 DEF Sound
    <3>4. id \in ids => \A o \in c : o.tr \in ids
      BY <1>1 DEF Sound, Targets
    <3> QED
      BY <3>3, <3>4, <1>2
  <2> QED
    BY <2>1, <2>2 DEF Fresh
<1>5. \A w \in ids : w # id => /\ Found(w)' \subseteq ids
                               /\ \A t \in Found(w)' : Targets(t)' \subseteq Found(w)'
  <2> SUFFICES ASSUME NEW w \in ids, w # id
               PROVE  /\ Found(w)' \subseteq ids
                      /\ \A t \in Found(w)' : Targets(t)' \subseteq Found(w)'
    OBVIOUS
  <2>1. Found(w)' = Found(w)
    BY <1>3 DEF Found, RowsOf
  <2>2. w \in old /\ Found(w) \subseteq old /\ \A t \in Found(w) : Targets(t) \subseteq Found(w)
    BY <1>4 DEF ReleasedInv
  <2> QED
    BY <2>1, <2>2, <1>4
<1>6. ASSUME id \in ids, id \in Workflows
      PROVE  /\ Found(id)' \subseteq ids
             /\ \A t \in Found(id)' : Targets(t)' \subseteq Found(id)'
  <2>1. UpdateNesting(id, c)
    BY <1>6 DEF Saving, SaveNesting
  <2>2. \A o \in c : o.tr \in old /\ o.tr \in Ids
    BY <1>4, <1>6, <2>1, SavingClosesNoCircle DEF OperatorsFor, Operator
  <2>3. ASSUME NEW o \in c, NEW x \in Found(o.tr) PROVE x \in Found(id)'
    <3>1. PICK k \in nestings : k.wf = o.tr /\ k.tr = x
      BY <2>3 DEF Found, RowsOf
    <3>2. o.tr \in Workflows
      BY <3>1 DEF StoreInv, TypeOK, Nesting
    <3>3. DerivedRow(id, o, k) \in DerivedRows(id, c)
      BY <3>1, <3>2 DEF DerivedRows, RowsOf
    <3>4. DerivedRow(id, o, k).tr = x
      BY <3>1 DEF DerivedRow
    <3>5. PICK l \in nestings' : l.wf = id /\ l.tr = x
      BY <3>3, <3>4, <2>1, <1>6, UpdateNestingFinds
    <3> QED
      BY <3>5 DEF Found, RowsOf
  <2>4. ASSUME NEW t \in Found(id)' PROVE t \in ids /\ Targets(t)' \subseteq Found(id)'
    <3>1. PICK r \in nestings' : r.wf = id /\ r.tr = t
      BY <2>4 DEF Found, RowsOf
    <3>2. r \in DirectRows(id, c) \cup DerivedRows(id, c)
      BY <3>1, <2>1, <1>6, UpdateNestingFinds
    <3>3. CASE r \in DirectRows(id, c)
      <4>1. PICK o \in c : t = o.tr
        BY <3>1, <3>3 DEF DirectRows, DirectRow
      <4>2. t \in old /\ t \in Ids /\ state[t] = "RELEASED"
        BY <4>1, <2>2, <1>4 DEF Sound
      <4>3. Targets(t) \subseteq Found(t)
        BY <4>2, DirectTargetsAreFound DEF Live
      <4> QED
        BY <4>1, <4>2, <4>3, <2>3, <1>4
    <3>4. CASE r \in DerivedRows(id, c)
      <4>1. PICK o \in c, k \in nestings : k.wf = o.tr /\ r = DerivedRow(id, o, k)
        BY <3>4 DEF DerivedRows, RowsOf
      <4>2. t \in Found(o.tr)
        BY <4>1, <3>1 DEF DerivedRow, Found, RowsOf
      <4>3. t \in old /\ Targets(t) \subseteq Found(o.tr)
        BY <4>2, <2>2, <1>4 DEF ReleasedInv
      <4> QED
        BY <4>3, <2>3, <1>4
    <3> QED
      BY <3>2, <3>3, <3>4
  <2> QED
    BY <2>4
<1>7. ASSUME id \notin Workflows PROVE Found(id)' = {}
  <2>1. nestings' = nestings
    BY <1>7 DEF Saving, SaveNesting
  <2> QED
    BY <2>1, <1>7 DEF Found, RowsOf, StoreInv, TypeOK, Nesting
<1> QED
  BY <1>5, <1>6, <1>7 DEF Covered


LEMMA SavingKeepsReleasedInv ==
    ASSUME StoreInv, ReleasedInv, OneTargetPerOperator,
           NEW id \in Ids, NEW s \in States, NEW c \in OperatorsFor(id),
           NEW im, Saving(id, s, c, im), Fresh(id, s, c)
    PROVE  ReleasedInv'
<1>1. \A r \in nestings' : \E p \in Placements : p.op = r.op /\ p.tr = r.tr
  <2>1. CASE id \in Workflows
    BY <2>1, UpdateNestingFinds DEF Saving, SaveNesting
  <2>2. CASE id \notin Workflows
    BY <2>2 DEF Saving, SaveNesting, ReleasedInv
  <2> QED
    BY <2>1, <2>2
<1>2. \A w \in Ids : state'[w] = "ABSENT" => content'[w] = {}
  BY DEF Saving, StoreInv, TypeOK, States, ReleasedInv
<1>3. \A w \in Ids : Live(w)' => Grounded(content[w])'
  BY SavingKeepsGrounded
<1>4. \A ids \in SUBSET Ids : Sound(ids)' => Covered(ids)'
  BY SavingKeepsCovered
<1> QED
  BY <1>1, <1>2, <1>3, <1>4 DEF ReleasedInv, Covered

\* What a step that disables or removes a revision leaves of another one, w: its
\* operators at most change their state to disabled, and its rows stay.
LeftAsItWas(w) ==
    /\ Targets(w)' = Targets(w)
    /\ \A o \in content[w] : \E x \in content'[w] : x = o \/ x.state = "DISABLED"
    /\ \A x \in content'[w] : x.state = "RELEASED" => x \in content[w]
    /\ content[w] = {} => content'[w] = {}
    /\ \A r : r.wf = w => (r \in nestings' <=> r \in nestings)

\* What remains of a set of released revisions when another one is disabled or removed.
LEMMA LeavingKeepsReleasedInv ==
    ASSUME StoreInv, ReleasedInv, NEW id \in Ids, NEW s \in {"ABSENT", "DISABLED"},
           state' = [state EXCEPT ![id] = s],
           s = "ABSENT" => state[id] = "DRAFT" /\ content'[id] = {},
           \A w \in Ids : w # id => LeftAsItWas(w),
           nestings' \subseteq nestings
    PROVE  ReleasedInv'
<1>1. \A w \in Ids : state'[w] = IF w = id THEN s ELSE state[w]
  BY DEF StoreInv, TypeOK
<1>2. \A r \in nestings' : \E p \in Placements : p.op = r.op /\ p.tr = r.tr
  BY DEF ReleasedInv
<1>3. \A w \in Ids : state'[w] = "ABSENT" => content'[w] = {}
  <2> SUFFICES ASSUME NEW w \in Ids, state'[w] = "ABSENT" PROVE content'[w] = {}
    OBVIOUS
  <2>1. CASE w = id
    BY <2>1, <1>1
  <2>2. CASE w # id
    BY <2>2, <1>1 DEF ReleasedInv, LeftAsItWas
  <2> QED
    BY <2>1, <2>2
<1>4. ASSUME NEW w \in Ids, Live(w)' PROVE Grounded(content[w])'
  <2>1. w # id /\ Live(w)
    <3>1. w # id
      BY <1>1, <1>4 DEF Live
    <3>2. LeftAsItWas(w)
      BY <3>1
    <3> QED
      BY <3>1, <3>2, <1>1, <1>4 DEF Live, LeftAsItWas
  <2>2. ASSUME NEW o \in content'[w], o.state = "RELEASED"
        PROVE  state'[o.tr] \in {"RELEASED", "DISABLED"}
    <3>1. o \in content[w] /\ o.tr \in Ids
      <4>1. o \in content[w]
        BY <2>1, <2>2 DEF LeftAsItWas
      <4> QED
        BY <4>1 DEF StoreInv, TypeOK, Operator
    <3>2. state[o.tr] \in {"RELEASED", "DISABLED"}
      BY <2>1, <2>2, <3>1 DEF ReleasedInv, Grounded
    <3> QED
      BY <3>1, <3>2, <1>1
  <2> QED
    BY <2>2 DEF Grounded
<1>5. ASSUME NEW ids \in SUBSET Ids, Sound(ids)' PROVE Covered(ids)'
  <2>1. id \notin ids
    BY <1>1, <1>5 DEF Sound
  <2>2. Sound(ids)
    <3>1. ASSUME NEW v \in ids
          PROVE  state[v] = "RELEASED" /\ \A o \in content[v] : o.state = "RELEASED"
      <4>1. v \in Ids /\ v # id
        BY <2>1
      <4>2. LeftAsItWas(v) /\ state'[v] = state[v]
        BY <4>1, <1>1
      <4>3. state'[v] = "RELEASED" /\ \A x \in content'[v] : x.state = "RELEASED"
        BY <1>5 DEF Sound
      <4>4. ASSUME NEW o \in content[v] PROVE o.state = "RELEASED"
        <5>1. PICK x \in content'[v] : x = o \/ x.state = "DISABLED"
          BY <4>2 DEF LeftAsItWas
        <5> QED
          BY <5>1, <4>3
      <4> QED
        BY <4>2, <4>3, <4>4
    <3>2. \A v \in ids : Targets(v)' \subseteq ids
      BY <1>5 DEF Sound
    <3>3. \A v \in ids : Targets(v)' = Targets(v)
      BY <2>1 DEF LeftAsItWas
    <3> QED
      BY <3>1, <3>2, <3>3 DEF Sound
  <2>3. \A w \in ids : /\ \A r : r.wf = w => (r \in nestings' <=> r \in nestings)
                       /\ Targets(w)' = Targets(w)
    BY <2>1 DEF LeftAsItWas
  <2>4. \A w \in ids : /\ Found(w)' \subseteq ids
                       /\ \A t \in Found(w)' : Targets(t)' \subseteq Found(w)'
    BY <2>2, <2>3, OthersStayCovered
  <2> QED
    BY <2>4 DEF Covered
<1> QED
  BY <1>2, <1>3, <1>4, <1>5 DEF ReleasedInv, Covered


LEMMA RemovingKeepsReleasedInv ==
    ASSUME StoreInv, ReleasedInv, NEW id \in Ids, Removing(id), state[id] = "DRAFT"
    PROVE  ReleasedInv'
<1>1. /\ state' = [state EXCEPT ![id] = "ABSENT"]
      /\ content' = [content EXCEPT ![id] = {}]
      /\ nestings' = RowsWithout(id)
  BY DEF Removing, Delete
<1>2. content'[id] = {} /\ \A w \in Ids : w # id => content'[w] = content[w]
  BY <1>1 DEF StoreInv, TypeOK
<1>3. nestings' \subseteq nestings
      /\ \A w \in Ids : w # id => \A r : r.wf = w => (r \in nestings' <=> r \in nestings)
  BY <1>1 DEF RowsWithout
<1>4. ASSUME NEW w \in Ids, w # id PROVE LeftAsItWas(w)
  BY <1>2, <1>3, <1>4 DEF LeftAsItWas, Targets
<1> QED
  BY <1>1, <1>2, <1>3, <1>4, LeavingKeepsReleasedInv

LEMMA DisablingKeepsReleasedInv ==
    ASSUME StoreInv, ReleasedInv, NEW id \in Ids, NEW c, NEW im, Disabling(id, c, im)
    PROVE  ReleasedInv'
<1> DEFINE cs == [content EXCEPT ![id] = c]
           via(w) == {r.viaOp : r \in {n \in nestings : n.wf = w /\ n.tr = id}}
           marked(w) == {o \in cs[w] : o.id \in via(w)}
<1>1. /\ state' = [state EXCEPT ![id] = "DISABLED"] /\ nestings' = nestings
      /\ \A w \in Ids : w # id => cs[w] = content[w]
      /\ \A w \in Ids : content'[w] = Mark(cs[w], marked(w))
  BY DEF Disabling, PassOnDeprecation, StoreInv, TypeOK
<1> HIDE DEF cs, marked
<1>2. ASSUME NEW w \in Ids, w # id PROVE LeftAsItWas(w)
  <2>1. content'[w] = Mark(content[w], marked(w))
    BY <1>1, <1>2
  <2>2. \A o \in content[w] : Disabled(o).tr = o.tr /\ Disabled(o).state = "DISABLED"
    BY DEF StoreInv, TypeOK, Operator, Disabled
  <2>3. \A o \in content[w] : \E x \in content'[w] : x.tr = o.tr /\ (x = o \/ x.state = "DISABLED")
    BY <2>1, <2>2 DEF Mark
  <2>4. \A x \in content'[w] : \E o \in content[w] : x.tr = o.tr /\ (x = o \/ x.state = "DISABLED")
    BY <2>1, <2>2 DEF Mark
  <2> QED
    BY <2>3, <2>4, <1>1 DEF Targets, LeftAsItWas
<1> QED
  BY <1>1, <1>2, LeavingKeepsReleasedInv

LEMMA NextKeepsReleasedInv ==
    Careful /\ OneTargetPerOperator /\ StoreInv /\ ReleasedInv /\ [Next]_vars => ReleasedInv'
<1>1. ASSUME ReleasedInv, UNCHANGED vars PROVE ReleasedInv'
  <2>1. nestings' = nestings /\ content' = content /\ state' = state
    BY <1>1 DEF vars
  <2>2. \A w : Found(w)' = Found(w) /\ Targets(w)' = Targets(w) /\ (Live(w)' <=> Live(w))
    BY <2>1 DEF Found, RowsOf, Targets, Live
  <2>3. \A c : Grounded(c)' <=> Grounded(c)
    BY <2>1 DEF Grounded
  <2>4. \A ids : Sound(ids)' <=> Sound(ids)
    BY <2>1, <2>2 DEF Sound
  <2> QED
    BY <1>1, <2>1, <2>2, <2>3, <2>4 DEF ReleasedInv
<1>2. ASSUME Careful, OneTargetPerOperator, StoreInv, ReleasedInv, Next PROVE ReleasedInv'
  <2>1. PICK id \in Ids : CarefulStep(id)
    BY <1>2, CarefulShape
  <2> QED
    BY <2>1, <1>2, SavingKeepsReleasedInv, RemovingKeepsReleasedInv, DisablingKeepsReleasedInv
       DEF CarefulStep
<1> QED
  BY <1>1, <1>2

\* Released workflows that nest no deprecated instance find everything they need in
\* their rows, although these are copied when a workflow is saved and nobody refreshes
\* them: for clients that do not overwrite, as long as an operator id stands for one revision.
THEOREM UndeprecatedAreExecutable ==
    ASSUME Careful, OneTargetPerOperator
    PROVE  Spec => []UndeprecatedReleasedIsExecutable
<1>1. Init => ReleasedInv
  <2> SUFFICES ASSUME Init PROVE ReleasedInv
    OBVIOUS
  <2>1. nestings = {} /\ \A w \in Ids : state[w] = "ABSENT" /\ content[w] = {}
    BY DEF Init
  <2>2. \A ids \in SUBSET Ids : Sound(ids) => ids = {}
    BY <2>1 DEF Sound
  <2> QED
    BY <2>1, <2>2 DEF ReleasedInv, Live
<1>2. StoreInv /\ ReleasedInv => UndeprecatedReleasedIsExecutable
  <2> SUFFICES ASSUME StoreInv, ReleasedInv, NEW w \in Workflows, state[w] = "RELEASED",
                      \A v \in {w} \cup Reachable(w) :
                         state[v] = "RELEASED" /\ \A o \in content[v] : o.state = "RELEASED"
               PROVE  Executable(w)
    BY DEF UndeprecatedReleasedIsExecutable
  <2> DEFINE ids == {w} \cup Reachable(w)
  <2>1. w \in Ids /\ ids \subseteq Ids
    BY DEF Ids, Reachable
  <2>2. \A v \in Ids : Targets(v) \subseteq Ids
    BY DEF Targets, StoreInv, TypeOK, Operator
  <2>3. Targets(w) \subseteq Reachable(w) /\ \A v \in Reachable(w) : Targets(v) \subseteq Reachable(w)
    BY <2>1, <2>2 DEF Reachable, Nested
  <2>4. Sound(ids)
    BY <2>3 DEF Sound
  <2>5. Found(w) \subseteq Ids /\ \A t \in Found(w) : Targets(t) \subseteq Found(w)
    BY <2>1, <2>4 DEF ReleasedInv
  <2>6. Targets(w) \subseteq Found(w)
    BY <2>1, DirectTargetsAreFound DEF Live
  <2>7. Reachable(w) \subseteq Found(w)
    BY <2>5, <2>6 DEF Reachable, Nested
  <2> QED
    BY <2>7 DEF Executable, Found
<1>3. Careful /\ OneTargetPerOperator
  OBVIOUS
<1> QED
  BY <1>1, <1>2, <1>3, NextKeepsReleasedInv, InvariantHolds, PTL DEF Spec

-----------------------------------------------------------------------------
(* Requests and the token they share: ExecutionRequests.                   *)

\* No token is older than the process takes it for: the time it counts from lies
\* before the moment the provider issued the token.
AgesAreEstimatedSafely ==
    /\ token # None => token.issued <= token.age
    /\ flight # None => flight.issued <= flight.age /\ flight.age <= Timeout

InQueue(c) == \E i \in 1 .. Len(queue) : queue[i] = c

\* Who waits for a token is in the queue of the lock, once, and nobody else is; a
\* request to the provider is somebody's who holds the lock.
LockIsForTheWaiting ==
    /\ \A c \in Callers : pc[c] = "token" <=> InQueue(c)
    /\ \A i, j \in 1 .. Len(queue) : queue[i] = queue[j] => i = j
    /\ flight # None => queue # <<>>

\* Every message taken was answered, failed or was interrupted, or is the one at work;
\* so is every committed one, from which the consumer goes on after a restart.
TakenAreAccountedFor ==
    /\ committed <= position
    /\ \A m \in 1 .. position :
          \/ m \in answered \cup failed \cup interrupted
          \/ m = position /\ pc[Consumer] # "idle"
    /\ pc[Consumer] # "idle" => position > 0

\* A process that is down runs no coroutine.
DownIsIdle == ~up => \A c \in Callers : pc[c] = "idle"

RequestsInv ==
    /\ RequestsTypeOK /\ AgesAreEstimatedSafely /\ LockIsForTheWaiting
    /\ TakenAreAccountedFor /\ DownIsIdle

-----------------------------------------------------------------------------
(* The token.                                                              *)

TokenPart ==
    /\ token \in Tokens \cup {None} /\ flight \in Requests \cup {None}
    /\ AgesAreEstimatedSafely

LEMMA GettingOlder ==
    /\ \A a \in Ages : Older(a) \in Ages /\ Older(a) <= a + 1
    /\ \A a, b \in Ages : a <= b => Older(a) <= Older(b)
    /\ 0 \in Ages /\ Ages \subseteq Nat
BY LivesAssumption DEF Ages, Older

\* A record is told apart from None by its kind.
LEMMA Kinds ==
    /\ \A t \in Tokens : t # None
    /\ \A r \in Requests : r # None
    /\ \A kind \in {"refresh", "obtain"} : NewRequest(kind) \in Requests
<1>1. \A t \in Tokens : t.kind = "token"
  BY DEF Tokens
<1>2. \A r \in Requests : r.kind \in {"refresh", "obtain"}
  BY DEF Requests
<1>3. None.kind = "none"
  BY DEF None
<1>4. \A kind \in {"refresh", "obtain"} : NewRequest(kind) \in Requests
  BY GettingOlder DEF NewRequest, Requests
<1> QED  BY <1>1, <1>2, <1>3, <1>4

\* A request that is about to be sent has waited for nothing yet.
LEMMA NewRequestIsSafe ==
    ASSUME NEW kind \in {"refresh", "obtain"}
    PROVE  NewRequest(kind).issued <= NewRequest(kind).age /\ NewRequest(kind).age <= Timeout
<1>1. NewRequest(kind).issued = 0 /\ NewRequest(kind).age = 0
  BY DEF NewRequest
<1> QED  BY <1>1, LivesAssumption

LEMMA ReceivedIsSafe ==
    ASSUME TokenPart, NEW c, Received(c)
    PROVE  TokenPart' /\ token' # None /\ token'.issued <= AccessLife
<1>1. flight \in Requests /\ flight.issued <= flight.age /\ flight.age <= Timeout
  BY DEF Received, TokenPart, AgesAreEstimatedSafely
<1>2. flight.age \in Ages /\ flight.issued \in Ages
  BY <1>1 DEF Requests
<1>3. PICK refreshable \in BOOLEAN :
        token' = [kind |-> "token", age |-> flight.age, issued |-> flight.issued,
                  refreshable |-> refreshable]
  BY DEF Received, EstimatedAge
<1>4. token' \in Tokens /\ token'.issued = flight.issued /\ token'.age = flight.age
  BY <1>2, <1>3 DEF Tokens
<1>5. flight' = None
  BY DEF Received
<1>6. flight.issued \in Nat /\ flight.age \in Nat
  BY <1>2, GettingOlder
<1>7. flight.issued <= AccessLife
  BY <1>1, <1>6, LivesAssumption
<1> QED  BY <1>1, <1>4, <1>5, <1>7, Kinds DEF TokenPart, AgesAreEstimatedSafely

LEMMA TickIsSafe ==
    ASSUME TokenPart, Tick
    PROVE  TokenPart'
<1>1. token' \in Tokens \cup {None} /\ (token' # None => token'.issued <= token'.age)
  <2>1. CASE token = None
    BY <2>1 DEF Tick
  <2>2. CASE token # None
    <3>1. token \in Tokens /\ token.age \in Ages /\ token.issued \in Ages
          /\ token.issued <= token.age
      BY <2>2 DEF TokenPart, Tokens, AgesAreEstimatedSafely
    <3>2. token' = [kind |-> token.kind, age |-> Older(token.age), issued |-> Older(token.issued),
                    refreshable |-> token.refreshable]
      BY <2>2, <3>1 DEF Tick, Tokens
    <3>3. token' \in Tokens /\ token'.age = Older(token.age) /\ token'.issued = Older(token.issued)
      BY <3>1, <3>2, GettingOlder DEF Tokens
    <3> QED  BY <3>1, <3>3, GettingOlder
  <2> QED  BY <2>1, <2>2
<1>2. flight' \in Requests \cup {None}
      /\ (flight' # None => flight'.issued <= flight'.age /\ flight'.age <= Timeout)
  <2>1. CASE flight = None
    BY <2>1 DEF Tick
  <2>2. CASE flight # None
    <3> DEFINE later == IF flight.answered THEN Older(flight.issued) ELSE 0
    <3>1. flight \in Requests /\ flight.age \in Ages /\ flight.issued \in Ages
          /\ flight.issued <= flight.age /\ flight.age < Timeout
      BY <2>2 DEF TokenPart, Requests, AgesAreEstimatedSafely, Tick
    <3>2. flight' = [kind |-> flight.kind, age |-> Older(flight.age), issued |-> later,
                     answered |-> flight.answered]
      BY <2>2, <3>1 DEF Tick, Requests
    <3>3. /\ Older(flight.age) \in Ages /\ Older(flight.issued) \in Ages /\ 0 \in Ages
          /\ Older(flight.age) <= flight.age + 1 /\ Older(flight.issued) <= Older(flight.age)
      BY <3>1, GettingOlder
    <3>4. Older(flight.age) \in Nat /\ flight.age \in Nat
      BY <3>1, <3>3, GettingOlder
    <3>5. later \in Ages /\ later <= Older(flight.age)
      BY <3>3, <3>4
    <3>6. flight' \in Requests /\ flight'.age = Older(flight.age) /\ flight'.issued = later
      BY <3>1, <3>2, <3>5, GettingOlder DEF Requests
    <3>7. Older(flight.age) <= Timeout
      BY <3>1, <3>3, <3>4, LivesAssumption
    <3> QED  BY <3>5, <3>6, <3>7
  <2> QED  BY <2>1, <2>2
<1> QED  BY <1>1, <1>2 DEF TokenPart, AgesAreEstimatedSafely

LEMMA ProviderIssuesIsSafe ==
    ASSUME TokenPart, ProviderIssues
    PROVE  TokenPart'
<1>1. flight \in Requests /\ flight.issued <= flight.age /\ flight.age <= Timeout
  BY DEF TokenPart, AgesAreEstimatedSafely, ProviderIssues
<1>2. flight' = [kind |-> flight.kind, age |-> flight.age, issued |-> flight.issued, answered |-> TRUE]
  BY <1>1 DEF ProviderIssues, Requests
<1>3. flight' \in Requests /\ flight'.age = flight.age /\ flight'.issued = flight.issued
  BY <1>1, <1>2 DEF Requests
<1> QED  BY <1>1, <1>3 DEF TokenPart, AgesAreEstimatedSafely, ProviderIssues

\* What a step may do to the token and the request to the provider.
TokenMoves ==
    \/ UNCHANGED <<token, flight>>
    \/ token' = token /\ \E kind \in {"refresh", "obtain"} : flight' = NewRequest(kind)
    \/ token' \in {token, None} /\ flight' = None
    \/ ProviderIssues \/ Tick \/ \E c \in Callers : Received(c)

LEMMA NextMovesToken == [RequestsNext]_requestVars => TokenMoves
<1>1. ASSUME NEW c \in Callers, Goes(c) PROVE TokenMoves
  BY <1>1 DEF Goes, TokenMoves, FindLatest, NoneReleased, Refuse, Prepare, Acquire, CallRuntime,
              TokenArrives, UseExisting, TokenRefused, ObtainFails, RuntimeAnswers,
              RuntimeRefuses, Answer, AnswerFails, CallbackFails, tokenVars
<1>2. CASE TokenWork \/ TimePasses
  BY <1>2 DEF TokenWork, TokenStep, TimePasses, TokenMoves, StartRefresh, StartObtain, RefreshFails
<1>3. CASE Crash \/ Stop
  BY <1>3 DEF Crash, Stop, End, TokenMoves
<1>4. CASE Take \/ AutoCommit \/ Start \/ UNCHANGED requestVars
  BY <1>4 DEF Take, AutoCommit, Start, requestVars, tokenVars, TokenMoves
<1>5. ASSUME NEW h \in Http, Request(h) \/ RequestAsync(h) \/ RequestLatest(h) \/ RequestLatestAsync(h)
      PROVE  TokenMoves
  BY <1>5 DEF Request, RequestAsync, RequestLatest, RequestLatestAsync, tokenVars, TokenMoves
<1> QED  BY <1>1, <1>2, <1>3, <1>4, <1>5 DEF RequestsNext

LEMMA TokenPartKept == TokenPart /\ [RequestsNext]_requestVars => TokenPart'
<1> SUFFICES ASSUME TokenPart, TokenMoves PROVE TokenPart'
  BY NextMovesToken
<1>1. CASE UNCHANGED <<token, flight>>
  BY <1>1 DEF TokenPart, AgesAreEstimatedSafely
<1>2. ASSUME token' = token, NEW kind \in {"refresh", "obtain"}, flight' = NewRequest(kind)
      PROVE  TokenPart'
  BY <1>2, NewRequestIsSafe, Kinds DEF TokenPart, AgesAreEstimatedSafely
<1>3. CASE token' \in {token, None} /\ flight' = None
  BY <1>3 DEF TokenPart, AgesAreEstimatedSafely
<1> QED  BY <1>1, <1>2, <1>3, ProviderIssuesIsSafe, TickIsSafe, ReceivedIsSafe DEF TokenMoves

LEMMA TokenPartInvariant == RequestsSpec => []TokenPart
<1>1. RequestsInit => TokenPart
  BY DEF RequestsInit, TokensInit, TokenPart, AgesAreEstimatedSafely
<1> QED  BY <1>1, TokenPartKept, PTL DEF RequestsSpec

\* A token that is handed out is one the provider takes for valid: by the process's own
\* reckoning it is older than it is, and not too old.
THEOREM TokensAreValid == RequestsSpec => HandedOutTokensAreValid
<1>1. TokenPart => [\A c \in Callers : CallRuntime(c) => token'.issued <= AccessLife]_requestVars
  <2> SUFFICES ASSUME TokenPart, NEW c \in Callers, CallRuntime(c)
               PROVE  token'.issued <= AccessLife
    OBVIOUS
  <2>1. CASE UseExisting(c)
    <3>1. token \in Tokens /\ token.issued <= token.age /\ token.age <= FreshFor /\ token' = token
      BY <2>1 DEF UseExisting, StillValidEnough, TokenPart, AgesAreEstimatedSafely
    <3>2. token.issued \in Nat /\ token.age \in Nat
      BY <3>1, GettingOlder DEF Tokens
    <3> QED  BY <3>1, <3>2, LivesAssumption
  <2>2. CASE Received(c)
    BY <2>2, ReceivedIsSafe
  <2> QED  BY <2>1, <2>2 DEF CallRuntime, TokenArrives
<1> QED  BY <1>1, TokenPartInvariant, PTL DEF HandedOutTokensAreValid

-----------------------------------------------------------------------------
(* The lock.                                                               *)

RequestTypes ==
    /\ up \in BOOLEAN /\ pc \in [Callers -> Steps]
    /\ position \in 0 .. Messages /\ committed \in 0 .. Messages
    /\ answered \in SUBSET (1 .. Messages) /\ failed \in SUBSET (1 .. Messages)
    /\ interrupted \in SUBSET (1 .. Messages)
    /\ background \in SUBSET {h \in Http : pc[h] # "idle"}
    /\ ends \in 0 .. MaxEnds

LockPart == queue \in Seq(Callers) /\ LockIsForTheWaiting

\* A step that leaves the queue alone and those who wait.
LEMMA LockUnaffected ==
    ASSUME LockPart, queue' = queue, \A c \in Callers : pc'[c] = "token" <=> pc[c] = "token",
           flight' # None => queue # <<>>
    PROVE  LockPart'
BY DEF LockPart, LockIsForTheWaiting, InQueue

\* Who asks for the lock is the last in the queue.
LEMMA LockAskedFor ==
    ASSUME LockPart, pc \in [Callers -> Steps], NEW c \in Callers, pc[c] # "token",
           pc' = [pc EXCEPT ![c] = "token"], queue' = Append(queue, c), flight' = flight
    PROVE  LockPart'
<1>1. queue' \in Seq(Callers) /\ Len(queue) \in Nat /\ Len(queue') = Len(queue) + 1
  BY DEF LockPart
<1>2. /\ \A i \in 1 .. Len(queue) : queue'[i] = queue[i]
      /\ queue'[Len(queue) + 1] = c
  BY DEF LockPart
<1>3. \A i \in 1 .. Len(queue) : queue[i] # c
  BY DEF LockPart, LockIsForTheWaiting, InQueue
<1>4. ASSUME NEW d \in Callers
      PROVE  pc'[d] = "token" <=> \E i \in 1 .. Len(queue') : queue'[i] = d
  <2>1. CASE d = c
    BY <1>1, <1>2, <2>1
  <2>2. CASE d # c
    BY <1>1, <1>2, <2>2 DEF LockPart, LockIsForTheWaiting, InQueue
  <2> QED  BY <2>1, <2>2
<1>5. ASSUME NEW i \in 1 .. Len(queue'), NEW j \in 1 .. Len(queue'), queue'[i] = queue'[j]
      PROVE  i = j
  BY <1>1, <1>2, <1>3, <1>5 DEF LockPart, LockIsForTheWaiting
<1>6. queue' # <<>>
  BY <1>1
<1> QED  BY <1>1, <1>4, <1>5, <1>6 DEF LockPart, LockIsForTheWaiting, InQueue

\* Who has an answer leaves the head of the queue to the next.
LEMMA LockReleased ==
    ASSUME LockPart, pc \in [Callers -> Steps], NEW c \in Callers, Holds(c),
           NEW step \in Steps \ {"token"}, pc' = [pc EXCEPT ![c] = step],
           queue' = Tail(queue), flight' = None
    PROVE  LockPart'
<1>1. queue \in Seq(Callers) /\ queue # <<>> /\ queue[1] = c
  BY DEF LockPart, Holds
<1>2. queue' \in Seq(Callers) /\ Len(queue) \in Nat \ {0} /\ Len(queue') = Len(queue) - 1
  BY <1>1
<1>3. \A i \in 1 .. Len(queue') : queue'[i] = queue[i + 1]
  BY <1>1
<1>4. ASSUME NEW d \in Callers
      PROVE  pc'[d] = "token" <=> \E i \in 1 .. Len(queue') : queue'[i] = d
  <2>1. CASE d = c
    <3>1. \A i \in 1 .. Len(queue') : queue[i + 1] # c
      BY <1>1, <1>2 DEF LockPart, LockIsForTheWaiting
    <3> QED  BY <1>3, <2>1, <3>1
  <2>2. CASE d # c
    <3>1. pc[d] = "token" <=> \E i \in 1 .. Len(queue) : queue[i] = d
      BY DEF LockPart, LockIsForTheWaiting, InQueue
    <3>2. \A i \in 1 .. Len(queue) : queue[i] = d => i - 1 \in 1 .. Len(queue') /\ queue'[i - 1] = d
      BY <1>1, <1>2, <1>3, <2>2
    <3>3. \A i \in 1 .. Len(queue') : queue'[i] = d => i + 1 \in 1 .. Len(queue) /\ queue[i + 1] = d
      BY <1>2, <1>3
    <3> QED  BY <2>2, <3>1, <3>2, <3>3
  <2> QED  BY <2>1, <2>2
<1>5. ASSUME NEW i \in 1 .. Len(queue'), NEW j \in 1 .. Len(queue'), queue'[i] = queue'[j]
      PROVE  i = j
  BY <1>2, <1>3, <1>5 DEF LockPart, LockIsForTheWaiting
<1> QED  BY <1>2, <1>4, <1>5 DEF LockPart, LockIsForTheWaiting, InQueue

LEMMA LockKept ==
    ASSUME LockPart, RequestTypes, [RequestsNext]_requestVars
    PROVE  LockPart'
<1> USE DEF RequestTypes
<1>1. ASSUME NEW c \in Callers, Goes(c) PROVE LockPart'
  <2>1. CASE Prepare(c)
    BY <2>1, LockAskedFor DEF Prepare, Acquire, GoesTo
  <2>2. CASE CallRuntime(c)
    <3>1. Holds(c) /\ queue' = Tail(queue) /\ flight' = None
      BY <2>2 DEF CallRuntime, TokenArrives, UseExisting, Received
    <3> QED  BY <2>2, <3>1, LockReleased DEF CallRuntime, GoesTo, Steps
  <2>3. CASE TokenRefused(c)
    BY <2>3, LockReleased DEF TokenRefused, ObtainFails, Fails, Ends, GoesTo, Steps
  <2>4. CASE ~(Prepare(c) \/ CallRuntime(c) \/ TokenRefused(c))
    <3>1. /\ pc[c] # "token" /\ UNCHANGED tokenVars
          /\ \E step \in Steps \ {"token"} : pc' = [pc EXCEPT ![c] = step]
      BY <1>1, <2>4 DEF Goes, FindLatest, NoneReleased, Refuse, RuntimeAnswers, RuntimeRefuses,
                        Answer, AnswerFails, CallbackFails, Fails, Ends, GoesTo, Steps
    <3>2. flight' # None => queue # <<>>
      BY <3>1 DEF tokenVars, LockPart, LockIsForTheWaiting
    <3> QED  BY <3>1, <3>2, LockUnaffected DEF tokenVars
  <2> QED  BY <2>1, <2>2, <2>3, <2>4
<1>2. CASE TokenWork \/ TimePasses
  <2>1. queue' = queue /\ pc' = pc
    BY <1>2 DEF TokenWork, TokenStep, TimePasses, Tick, StartRefresh, StartObtain, RefreshFails,
                ProviderIssues, coroutineVars
  <2>2. flight' # None => queue # <<>>
    BY <1>2 DEF TokenWork, TokenStep, TimePasses, Tick, StartRefresh, StartObtain, RefreshFails,
                ProviderIssues, Holds, LockPart, LockIsForTheWaiting
  <2> QED  BY <2>1, <2>2, LockUnaffected
<1>3. CASE Crash \/ Stop
  <2>1. queue' = <<>> /\ flight' = None /\ pc' = [c \in Callers |-> "idle"]
    BY <1>3 DEF Crash, Stop, End
  <2> QED  BY <2>1 DEF LockPart, LockIsForTheWaiting, InQueue
<1>4. CASE Take
  BY <1>4, LockUnaffected DEF Take, GoesTo, tokenVars, LockPart, LockIsForTheWaiting
<1>5. CASE AutoCommit \/ Start \/ UNCHANGED requestVars
  BY <1>5, LockUnaffected DEF AutoCommit, Start, requestVars, coroutineVars, tokenVars, LockPart, LockIsForTheWaiting
<1>6. ASSUME NEW h \in Http, Request(h) \/ RequestAsync(h) \/ RequestLatest(h) \/ RequestLatestAsync(h)
      PROVE  LockPart'
  BY <1>6, LockUnaffected, RequestsAssumption
     DEF Request, RequestAsync, RequestLatest, RequestLatestAsync, GoesTo, tokenVars, LockPart, LockIsForTheWaiting
<1> QED  BY <1>1, <1>2, <1>3, <1>4, <1>5, <1>6 DEF RequestsNext

-----------------------------------------------------------------------------
(* The messages.                                                           *)

MessagePart == RequestTypes /\ TakenAreAccountedFor /\ DownIsIdle

\* A step of a coroutine that goes on with its request, or begins one.
LEMMA CoroutineGoesOn ==
    ASSUME MessagePart, NEW c \in Callers, NEW step \in Steps \ {"idle"},
           up, pc[c] # "idle" \/ c \in Http, pc' = [pc EXCEPT ![c] = step],
           background' \in {background, background \cup ({c} \cap Http)},
           UNCHANGED <<up, position, committed, answered, failed, interrupted, ends>>
    PROVE  MessagePart'
<1>1. Consumer \in Callers /\ Consumer \notin Http
  BY RequestsAssumption
<1>2. pc' \in [Callers -> Steps] /\ pc'[c] # "idle" /\ \A d \in Callers : d # c => pc'[d] = pc[d]
  BY DEF MessagePart, RequestTypes
<1>3. background' \in SUBSET {h \in Http : pc'[h] # "idle"}
  BY <1>2 DEF MessagePart, RequestTypes
<1>4. pc'[Consumer] # "idle" <=> pc[Consumer] # "idle"
  BY <1>1, <1>2
<1> QED
  BY <1>2, <1>3, <1>4 DEF MessagePart, RequestTypes, TakenAreAccountedFor, DownIsIdle

\* A coroutine's request ends, the consumer's with one of these results.
LEMMA CoroutineEnds ==
    ASSUME MessagePart, NEW c \in Callers, pc[c] # "idle", Ends(c),
           \/ answered' = (IF c = Consumer THEN answered \cup {position} ELSE answered) /\ failed' = failed
           \/ failed' = (IF c = Consumer THEN failed \cup {position} ELSE failed) /\ answered' = answered,
           UNCHANGED <<up, position, committed, interrupted, ends>>
    PROVE  MessagePart'
<1>1. Consumer \in Callers
  BY RequestsAssumption
<1>2. pc' \in [Callers -> Steps] /\ pc'[c] = "idle" /\ \A d \in Callers : d # c => pc'[d] = pc[d]
  BY DEF MessagePart, RequestTypes, Ends, GoesTo, Steps
<1>3. background' \in SUBSET {h \in Http : pc'[h] # "idle"}
  BY <1>2, RequestsAssumption DEF MessagePart, RequestTypes, Ends
<1>4. c = Consumer => position \in 1 .. Messages
  BY RequestsAssumption DEF MessagePart, RequestTypes, TakenAreAccountedFor
<1>5. answered' \in SUBSET (1 .. Messages) /\ failed' \in SUBSET (1 .. Messages)
  BY <1>4 DEF MessagePart, RequestTypes
<1>6. TakenAreAccountedFor'
  <2>1. CASE c = Consumer
    <3>1. position \in answered' \cup failed' \cup interrupted'
      BY <2>1
    <3>2. answered \cup failed \cup interrupted \subseteq answered' \cup failed' \cup interrupted'
      BY <2>1
    <3> QED  BY <1>1, <1>2, <2>1, <3>1, <3>2 DEF MessagePart, TakenAreAccountedFor
  <2>2. CASE c # Consumer
    BY <1>1, <1>2, <2>2 DEF MessagePart, TakenAreAccountedFor
  <2> QED  BY <2>1, <2>2
<1>7. DownIsIdle'
  BY <1>2 DEF MessagePart, DownIsIdle
<1> QED  BY <1>2, <1>3, <1>5, <1>6, <1>7 DEF MessagePart, RequestTypes

LEMMA EndInterrupts ==
    ASSUME MessagePart, End, committed' \in {committed, position}
    PROVE  MessagePart'
<1>1. Consumer \in Callers
  BY RequestsAssumption
<1>2. pc' = [c \in Callers |-> "idle"] /\ position' = position /\ answered' = answered /\ failed' = failed
      /\ up' = FALSE /\ ends' \in 0 .. MaxEnds /\ background' = {}
  BY RequestsAssumption DEF End, MessagePart, RequestTypes
<1>3. interrupted' \in SUBSET (1 .. Messages) /\ interrupted \subseteq interrupted'
      /\ (pc[Consumer] # "idle" => position \in interrupted')
  BY RequestsAssumption DEF End, MessagePart, RequestTypes, TakenAreAccountedFor
<1>4. RequestTypes'
  BY <1>2, <1>3 DEF MessagePart, RequestTypes, Steps
<1>5. TakenAreAccountedFor'
  BY <1>1, <1>2, <1>3 DEF MessagePart, RequestTypes, TakenAreAccountedFor
<1> QED  BY <1>2, <1>4, <1>5 DEF MessagePart, DownIsIdle

LEMMA MessagesKept ==
    ASSUME MessagePart, [RequestsNext]_requestVars
    PROVE  MessagePart'
<1>1. ASSUME NEW c \in Callers, Goes(c) PROVE MessagePart'
  <2>1. ASSUME NEW step \in Steps \ {"idle"}, pc[c] # "idle", GoesTo(c, step),
               UNCHANGED <<up, position, committed, answered, failed, interrupted, ends, background>>
        PROVE  MessagePart'
    <3>1. up
      BY <2>1 DEF MessagePart, RequestTypes, DownIsIdle
    <3> QED  BY <2>1, <3>1, CoroutineGoesOn DEF GoesTo
  <2>2. CASE FindLatest(c) \/ Prepare(c) \/ CallRuntime(c) \/ RuntimeAnswers(c)
    BY <2>1, <2>2 DEF FindLatest, Prepare, CallRuntime, RuntimeAnswers, Steps
  <2>3. CASE \/ NoneReleased(c) \/ Refuse(c) \/ TokenRefused(c) \/ RuntimeRefuses(c)
             \/ AnswerFails(c) \/ CallbackFails(c)
    <3>1. pc[c] # "idle" /\ Fails(c) /\ UNCHANGED <<up, position, committed, interrupted, ends>>
      BY <2>3 DEF NoneReleased, Refuse, TokenRefused, RuntimeRefuses, AnswerFails, CallbackFails
    <3> QED  BY <3>1, CoroutineEnds DEF Fails
  <2>4. CASE Answer(c)
    BY <2>4, CoroutineEnds DEF Answer
  <2> QED  BY <1>1, <2>2, <2>3, <2>4 DEF Goes
<1>2. CASE TokenWork \/ TimePasses \/ UNCHANGED requestVars
  <2>1. UNCHANGED coroutineVars
    BY <1>2 DEF TokenWork, TimePasses, requestVars
  <2> QED  BY <2>1 DEF coroutineVars, MessagePart, RequestTypes, TakenAreAccountedFor, DownIsIdle
<1>3. CASE Crash \/ Stop
  BY <1>3, EndInterrupts DEF Crash, Stop
<1>4. CASE Take
  <2>1. Consumer \in Callers /\ Consumer \notin Http
    BY RequestsAssumption
  <2>2. /\ pc' \in [Callers -> Steps] /\ pc'[Consumer] = "prepare"
        /\ \A d \in Callers : d # Consumer => pc'[d] = pc[d]
    BY <1>4, <2>1 DEF MessagePart, RequestTypes, Take, GoesTo, Steps
  <2>3. RequestTypes'
    BY <1>4, <2>1, <2>2, RequestsAssumption DEF MessagePart, RequestTypes, Take
  <2>4. TakenAreAccountedFor'
    BY <1>4, <2>2 DEF MessagePart, RequestTypes, TakenAreAccountedFor, Take
  <2> QED  BY <1>4, <2>3, <2>4 DEF MessagePart, DownIsIdle, Take
<1>5. CASE AutoCommit
  BY <1>5 DEF AutoCommit, MessagePart, RequestTypes, TakenAreAccountedFor, DownIsIdle
<1>6. CASE Start
  <2>1. Consumer \in Callers /\ pc[Consumer] = "idle"
    BY <1>6, RequestsAssumption DEF Start, MessagePart, DownIsIdle
  <2> QED  BY <1>6, <2>1 DEF Start, MessagePart, RequestTypes, TakenAreAccountedFor, DownIsIdle
<1>7. ASSUME NEW h \in Http, Request(h) \/ RequestAsync(h) \/ RequestLatest(h) \/ RequestLatestAsync(h)
      PROVE  MessagePart'
  <2>1. h \in Callers /\ up
    BY <1>7, RequestsAssumption DEF Request, RequestAsync, RequestLatest, RequestLatestAsync
  <2>2. /\ pc' = [pc EXCEPT ![h] = "prepare"] \/ pc' = [pc EXCEPT ![h] = "latest"]
        /\ background' \in {background, background \cup ({h} \cap Http)}
        /\ UNCHANGED <<up, position, committed, answered, failed, interrupted, ends>>
    BY <1>7 DEF Request, RequestAsync, RequestLatest, RequestLatestAsync, GoesTo
  <2> QED  BY <2>1, <2>2, CoroutineGoesOn DEF Steps
<1> QED  BY <1>1, <1>2, <1>3, <1>4, <1>5, <1>6, <1>7 DEF RequestsNext

-----------------------------------------------------------------------------

\* All of it, from the first state on.
THEOREM RequestsInvariant == RequestsSpec => []RequestsInv
<1>1. RequestsInit => MessagePart /\ LockPart
  <2> SUFFICES ASSUME RequestsInit PROVE MessagePart /\ LockPart
    OBVIOUS
  <2>1. RequestTypes
    BY RequestsAssumption DEF RequestsInit, RequestTypes, Steps
  <2>2. TakenAreAccountedFor /\ DownIsIdle
    BY RequestsAssumption DEF RequestsInit, TakenAreAccountedFor, DownIsIdle
  <2>3. LockPart
    BY DEF RequestsInit, TokensInit, LockPart, LockIsForTheWaiting, InQueue
  <2> QED  BY <2>1, <2>2, <2>3 DEF MessagePart
<1>2. MessagePart /\ LockPart /\ [RequestsNext]_requestVars => (MessagePart /\ LockPart)'
  BY MessagesKept, LockKept DEF MessagePart
<1>3. TokenPart /\ MessagePart /\ LockPart => RequestsInv
  BY DEF TokenPart, MessagePart, LockPart, RequestsInv, RequestsTypeOK, TokensTypeOK, RequestTypes
<1> QED  BY <1>1, <1>2, <1>3, TokenPartInvariant, PTL DEF RequestsSpec

=============================================================================
