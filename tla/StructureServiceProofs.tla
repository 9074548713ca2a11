------------------------ MODULE StructureServiceProofs ------------------------
(***************************************************************************)
(* Proofs about the structure service: the stored structure stays a forest  *)
(* in which uuids and external ids agree, and what happens to it is what    *)
(* VirtualStructure promises, for any elements, structures and crashes.     *)
(***************************************************************************)
EXTENDS StructureService, TLAPS

\* What is assumed of the structures: they bring their element types, none that is
\* stored in addition makes a root of a stored child, the configured one included.
Careful == SelfContained /\ KeepsRoots /\ (Overwrites \/ Startup = {})

-----------------------------------------------------------------------------
(* The inductive invariant.                                                *)

Own(x) == {x} \X (1 .. MaxUuid)

\* A circle among the thing nodes K by the parents that above names.
Circle(K, above) == \E C \in (SUBSET K) \ {{}} : \A k \in C : above[k] \in C

\* A structure that passed validation, with the uuids it was given: what the update
\* of the tables relies on.
Valid(p) ==
    /\ p.above \in Forests
    /\ p.refs \in Attachments(DOMAIN p.above)
    /\ p.types \subseteq Types /\ {TypeOf[k] : k \in DOMAIN p.above} \subseteq p.types
    /\ \A x \in DOMAIN p.above \cup DOMAIN p.refs : p.id[x] \in Own(x)
    /\ \A k \in DOMAIN p.above : p.above[k] = NoKey => p.parent[k] = NoId

\* Rows there are not have no values; every row has a uuid of its own.
RowsAreOwn ==
    /\ \A k \in Keys : IF Stored(k) THEN node[k].id \in Own(k) ELSE node[k] = NoNode
    /\ \A l \in Leaves : IF StoredLeaf(l) THEN leaf[l].id \in Own(l) ELSE leaf[l] = NoLeaf

\* The parent a row names is stored, and its uuid is the one in the row.
ParentsAreStored ==
    \A k \in Keys :
        IF node[k].above = NoKey THEN node[k].parent = NoId
        ELSE Stored(node[k].above) /\ node[k].parent = node[node[k].above].id

\* A source or sink names stored thing nodes only.
RefsAreStored == \A l \in Leaves : \A k \in leaf[l].refs : Stored(k)

NoCircle == ~Circle({k \in Keys : Stored(k)}, [k \in Keys |-> node[k].above])

\* Between deletion and update the tables are empty.
PendingIsValid == pc = "updating" => Valid(pending) /\ Empty

StructureInv ==
    /\ TypeOK /\ RowsAreOwn /\ ParentsAreStored /\ NoCircle
    /\ RefsAreStored /\ LeavesAreAtTheirNodes /\ PendingIsValid

-----------------------------------------------------------------------------
(* Uuids.                                                                  *)

\* Uuids of different elements differ, and none is the missing one.
LEMMA OwnUuids ==
    /\ \A x \in Keys \cup Leaves : Own(x) \subseteq Uuids /\ NoId \notin Own(x)
    /\ \A x, y \in Keys \cup Leaves : x # y => Own(x) \cap Own(y) = {}
    /\ NoId \notin Uuids /\ NoKey \notin Keys
BY KeysAssumption, BoundsAssumption DEF Own, Uuids, NoId

\* uuid4 makes a uuid that is not in use, if there is one.
LEMMA FreshIdIsOwn ==
    ASSUME NEW x, NEW used, \E i \in Own(x) : i \notin used
    PROVE  FreshId(x, used) \in Own(x) \ used
BY DEF FreshId, Own

LEMMA FreshForEmptyTables ==
    ASSUME NEW x
    PROVE  FreshId(x, {}) \in Own(x)
<1>1. <<x, 1>> \in Own(x)
  BY BoundsAssumption DEF Own
<1> QED  BY <1>1, FreshIdIsOwn

\* An element has one uuid in the tables, wherever it is referred to.
LEMMA OneUuidInUse ==
    ASSUME StructureInv, NEW x \in Keys \cup Leaves
    PROVE  \E used : InUse \cap Own(x) \subseteq {used}
<1>1. ASSUME NEW k \in Keys
      PROVE  node[k].id \in Own(k) \cup {NoId} /\ (\E j \in Keys : node[k].parent \in {node[j].id, NoId})
  BY <1>1 DEF StructureInv, RowsAreOwn, ParentsAreStored, Stored, NoNode, TypeOK
<1>2. ASSUME NEW l \in Leaves
      PROVE  leaf[l].id \in Own(l) \cup {NoId} /\ leaf[l].at \subseteq {node[j].id : j \in Keys}
  BY <1>2 DEF StructureInv, RowsAreOwn, LeavesAreAtTheirNodes, StoredLeaf, NoLeaf, TypeOK
<1>3. ASSUME NEW i \in InUse
      PROVE  \/ i = NoId
             \/ \E k \in Keys : i = node[k].id
             \/ \E l \in Leaves : i = leaf[l].id
  <2>1. \/ \E k \in Keys : i = node[k].id \/ i = node[k].parent
        \/ \E l \in Leaves : i = leaf[l].id \/ i \in leaf[l].at
    BY <1>3, Zenon DEF InUse
  <2> QED  BY <2>1, <1>1, <1>2
<1>4. CASE x \in Keys
  <2>1. ASSUME NEW i \in InUse, i \in Own(x)
        PROVE  i = node[x].id
    <3>1. i # NoId /\ (\A y \in Keys \cup Leaves : y # x => i \notin Own(y))
      BY <2>1, OwnUuids
    <3>2. x \notin Leaves
      BY <1>4, KeysAssumption
    <3> QED  BY <3>1, <3>2, <1>1, <1>2, <1>3
  <2> QED  BY <2>1
<1>5. CASE x \in Leaves
  <2>1. ASSUME NEW i \in InUse, i \in Own(x)
        PROVE  i = leaf[x].id
    <3>1. i # NoId /\ (\A y \in Keys \cup Leaves : y # x => i \notin Own(y))
      BY <2>1, OwnUuids
    <3>2. x \notin Keys
      BY <1>5, KeysAssumption
    <3> QED  BY <3>1, <3>2, <1>1, <1>2, <1>3
  <2> QED  BY <2>1
<1> QED  BY <1>4, <1>5

LEMMA FreshForStoredTables ==
    ASSUME StructureInv, NEW x \in Keys \cup Leaves
    PROVE  FreshId(x, InUse) \in Own(x)
<1>1. PICK used : InUse \cap Own(x) \subseteq {used}
  BY OneUuidInUse
<1>2. <<x, 1>> \in Own(x) /\ <<x, 2>> \in Own(x) /\ <<x, 1>> # <<x, 2>>
  BY BoundsAssumption DEF Own
<1>3. \E i \in Own(x) : i \notin InUse
  BY <1>1, <1>2
<1> QED  BY <1>3, FreshIdIsOwn

\* The structures the endpoint and the prepopulation make of what they are sent.
LEMMA SentIsValid ==
    ASSUME StructureInv, SelfContained,
           NEW above \in Forests, NEW refs \in Attachments(DOMAIN above),
           NEW ts \in ElementTypes(DOMAIN above), NEW copied \in BOOLEAN, NEW used \in {{}, InUse},
           LET p == Payload(ts, above, refs, copied, used)
           IN  \A k \in DOMAIN above : above[k] = NoKey => p.parent[k] = NoId
    PROVE  Valid(Payload(ts, above, refs, copied, used))
<1> DEFINE p == Payload(ts, above, refs, copied, used)
<1>1. p.above = above /\ p.refs = refs /\ p.types = ts
  BY DEF Payload
<1>2. DOMAIN above \subseteq Keys /\ DOMAIN refs \subseteq Leaves
  BY DEF Forests, Attachments
<1>3. ASSUME NEW x \in DOMAIN above \cup DOMAIN refs
      PROVE  p.id[x] \in Own(x)
  <2>1. p.id[x] = Uuid(x, copied, used)
    BY <1>3 DEF Payload
  <2>2. x \in Keys \cup Leaves
    BY <1>2, <1>3
  <2>3. FreshId(x, used) \in Own(x)
    BY <2>2, FreshForEmptyTables, FreshForStoredTables
  <2>4. /\ x \in Keys /\ Stored(x) => node[x].id \in Own(x)
        /\ x \in Leaves /\ StoredLeaf(x) => leaf[x].id \in Own(x)
    BY DEF StructureInv, RowsAreOwn
  <2> QED  BY <2>1, <2>3, <2>4 DEF Uuid
<1>4. ts \subseteq Types /\ {TypeOf[k] : k \in DOMAIN above} \subseteq ts
  BY DEF ElementTypes
<1> QED  BY <1>1, <1>3, <1>4 DEF Valid

-----------------------------------------------------------------------------
(* What an update leaves in the tables.                                    *)

\* Columns of a thing node's row are written one at a time.
LEMMA ColumnsOfRow ==
    ASSUME NEW I, NEW A, NEW P, NEW r \in [id : I, above : A, parent : P], NEW x
    PROVE  /\ [r EXCEPT !.above = x] = [id |-> r.id, above |-> x, parent |-> r.parent]
           /\ [r EXCEPT !.parent = x] = [id |-> r.id, above |-> r.above, parent |-> x]
BY SMT

\* The uuid of a row after the update.
IdAfter(p, k) == IF k \in DOMAIN p.above /\ ~Stored(k) THEN p.id[k] ELSE node[k].id

\* ... and what it says of its parent.
AboveAfter(p, k) == IF k \in DOMAIN p.above THEN p.above[k] ELSE node[k].above

\* upsert_thing_nodes.
LEMMA RowsAfterUpsert ==
    ASSUME StructureInv, NEW p, Valid(p), RootsKept(p), NEW k \in Keys
    PROVE  /\ Upserted(p) = DOMAIN p.above
           /\ Upsert(p)[k] =
                  [id |-> IdAfter(p, k), above |-> AboveAfter(p, k),
                   parent |-> IF Stored(k) \/ k \notin DOMAIN p.above
                              THEN node[k].parent ELSE ParentIdSent(p, k)]
<1>1. Upserted(p) = DOMAIN p.above
  BY DEF Upserted, Valid
<1>2. node[k] \in [id : Ids, above : Keys \cup {NoKey}, parent : Ids]
  BY DEF StructureInv, TypeOK
<1>3. CASE k \in DOMAIN p.above /\ Stored(k)
  <2>1. [node[k] EXCEPT !.above = p.above[k]]
           = [id |-> node[k].id, above |-> p.above[k], parent |-> node[k].parent]
    BY <1>2, ColumnsOfRow
  <2> QED  BY <2>1, <1>1, <1>3 DEF Upsert, IdAfter, AboveAfter
<1>4. CASE k \in DOMAIN p.above /\ ~Stored(k)
  BY <1>1, <1>4 DEF Upsert, IdAfter, AboveAfter
<1>5. CASE k \notin DOMAIN p.above
  BY <1>1, <1>2, <1>5 DEF Upsert, IdAfter, AboveAfter
<1> QED  BY <1>1, <1>3, <1>4, <1>5

\* update_parent_ids corrects what upsert_thing_nodes wrote: every row has its own
\* uuid and its parent's.
LEMMA RowsAfterUpdate ==
    ASSUME StructureInv, NEW p, Valid(p), RootsKept(p), NEW k \in Keys
    PROVE  UpdateParentIds(p)[k] =
              [id |-> IdAfter(p, k), above |-> AboveAfter(p, k),
               parent |-> IF AboveAfter(p, k) = NoKey THEN NoId ELSE IdAfter(p, AboveAfter(p, k))]
<1> DEFINE D == DOMAIN p.above
<1>1. /\ D \subseteq Keys
      /\ \A j \in D : p.above[j] \in D \cup {NoKey}
  BY DEF Valid, Forests
<1>2. Upserted(p) = D
  BY RowsAfterUpsert
<1>3. Upsert(p)[k] =
          [id |-> IdAfter(p, k), above |-> AboveAfter(p, k),
           parent |-> IF Stored(k) \/ k \notin D THEN node[k].parent ELSE ParentIdSent(p, k)]
  BY RowsAfterUpsert
<1>4. CASE k \notin D
  <2>1. UpdateParentIds(p)[k] = Upsert(p)[k]
    BY <1>2, <1>4, Zenon DEF UpdateParentIds
  <2>2. AboveAfter(p, k) = node[k].above
    BY <1>4 DEF AboveAfter
  <2>3. node[k].above # NoKey => node[k].above \in Keys /\ Stored(node[k].above)
    BY DEF StructureInv, TypeOK, ParentsAreStored
  <2>4. node[k].parent = IF node[k].above = NoKey THEN NoId ELSE node[node[k].above].id
    BY DEF StructureInv, ParentsAreStored
  <2>5. node[k].parent = IF AboveAfter(p, k) = NoKey THEN NoId ELSE IdAfter(p, AboveAfter(p, k))
    BY <2>2, <2>3, <2>4 DEF IdAfter
  <2> QED  BY <1>3, <1>4, <2>1, <2>5
<1>5. CASE k \in D /\ p.above[k] = NoKey
  <2>1. p.above[k] \notin D
    BY <1>1, <1>5, OwnUuids
  <2>2. UpdateParentIds(p)[k] = Upsert(p)[k]
    BY <1>2, <2>1, Zenon DEF UpdateParentIds
  <2>3. p.parent[k] = NoId /\ node[k].parent = NoId
    BY <1>1, <1>5 DEF Valid, RootsKept, StructureInv, ParentsAreStored
  <2>4. ParentIdSent(p, k) = NoId /\ AboveAfter(p, k) = NoKey
    BY <1>5, <2>3 DEF ParentIdSent, AboveAfter
  <2> QED  BY <1>3, <2>2, <2>3, <2>4
<1>6. CASE k \in D /\ p.above[k] # NoKey
  <2>1. p.above[k] \in D /\ p.above[k] \in Keys /\ AboveAfter(p, k) = p.above[k]
    BY <1>1, <1>6 DEF AboveAfter
  <2>2. UpdateParentIds(p)[k] = [Upsert(p)[k] EXCEPT !.parent = Upsert(p)[p.above[k]].id]
    BY <1>2, <1>6, <2>1, Zenon DEF UpdateParentIds
  <2>3. Upsert(p)[p.above[k]].id = IdAfter(p, p.above[k])
    <3> DEFINE j == p.above[k]
    <3>1. j \in Keys
      BY <2>1
    <3>2. Upsert(p)[j] =
            [id |-> IdAfter(p, j), above |-> AboveAfter(p, j),
             parent |-> IF Stored(j) \/ j \notin D THEN node[j].parent ELSE ParentIdSent(p, j)]
      BY <3>1, RowsAfterUpsert
    <3> QED  BY <3>2
  <2> QED  BY <1>3, <1>6, <2>1, <2>2, <2>3
<1> QED  BY <1>4, <1>5, <1>6

LEMMA IdsAndParentsAfter ==
    ASSUME StructureInv, NEW p, Valid(p), NEW k \in Keys
    PROVE  /\ IF k \in DOMAIN p.above \/ Stored(k)
              THEN IdAfter(p, k) \in Own(k) /\ IdAfter(p, k) # NoId
              ELSE IdAfter(p, k) = NoId
           /\ AboveAfter(p, k) # NoKey =>
                  /\ AboveAfter(p, k) \in Keys
                  /\ AboveAfter(p, k) \in DOMAIN p.above \/ Stored(AboveAfter(p, k))
           /\ k \notin DOMAIN p.above /\ ~Stored(k) => AboveAfter(p, k) = NoKey
<1> DEFINE D == DOMAIN p.above
<1>1. /\ D \subseteq Keys
      /\ \A j \in D : p.above[j] \in D \cup {NoKey} /\ p.id[j] \in Own(j)
  BY DEF Valid, Forests
<1>2. /\ Stored(k) => node[k].id \in Own(k)
      /\ ~Stored(k) => node[k].id = NoId /\ node[k].above = NoKey
  BY DEF StructureInv, RowsAreOwn, Stored, NoNode
<1>3. node[k].above # NoKey => node[k].above \in Keys /\ Stored(node[k].above)
  BY DEF StructureInv, ParentsAreStored, TypeOK
<1>4. NoId \notin Own(k)
  BY OwnUuids
<1> QED  BY <1>1, <1>2, <1>3, <1>4 DEF IdAfter, AboveAfter

\* A circle after the update would be one of the structure sent, or have been there.
LEMMA NoCircleAfter ==
    ASSUME StructureInv, NEW p, Valid(p),
           NEW C \in (SUBSET {k \in Keys : k \in DOMAIN p.above \/ Stored(k)}) \ {{}}
    PROVE  ~ \A k \in C : AboveAfter(p, k) \in C
<1> SUFFICES ASSUME \A k \in C : AboveAfter(p, k) \in C
             PROVE  FALSE
  OBVIOUS
<1> DEFINE D == DOMAIN p.above
<1>1. /\ D \subseteq Keys /\ ~Circular(p.above)
      /\ \A j \in D : p.above[j] \in D \cup {NoKey}
  BY DEF Valid, Forests
<1>2. C \subseteq Keys /\ NoKey \notin C /\ C # {}
  BY OwnUuids
<1>3. CASE C \cap D = {}
  <2>1. C \in (SUBSET {k \in Keys : Stored(k)}) \ {{}}
    BY <1>2, <1>3
  <2>2. \A k \in C : [j \in Keys |-> node[j].above][k] \in C
    BY <1>2, <1>3 DEF AboveAfter
  <2> QED  BY <2>1, <2>2 DEF StructureInv, NoCircle, Circle
<1>4. CASE C \cap D # {}
  <2>1. C \cap D \in (SUBSET D) \ {{}}
    BY <1>4
  <2>2. \A k \in C \cap D : p.above[k] \in C \cap D
    BY <1>1, <1>2 DEF AboveAfter
  <2> QED  BY <1>1, <2>1, <2>2 DEF Circular
<1> QED  BY <1>3, <1>4

\* What an update leaves, of all that the invariant says of the tables.
TablesInv ==
    /\ types \subseteq Types
    /\ node \in [Keys -> [id : Ids, above : Keys \cup {NoKey}, parent : Ids]]
    /\ leaf \in [Leaves -> [id : Ids, refs : SUBSET Keys, at : SUBSET Uuids]]
    /\ last \in [ended : {"none", "ok", "integrityError"}, nodes : SUBSET Keys, leaves : SUBSET Leaves]
    /\ RowsAreOwn /\ ParentsAreStored /\ NoCircle /\ RefsAreStored /\ LeavesAreAtTheirNodes

LEMMA UpdateKeepsTables ==
    ASSUME StructureInv, NEW p, Valid(p), RootsKept(p), UpdateStructure(p)
    PROVE  TablesInv'
<1> DEFINE D == DOMAIN p.above
<1>1. D \subseteq Keys /\ DOMAIN p.refs \subseteq Leaves /\ (\A l \in DOMAIN p.refs : p.refs[l] \subseteq D)
  BY DEF Valid, Forests, Attachments
<1>2. Upserted(p) = D
  BY DEF Upserted, Valid
<1>3. CASE IntegrityError(p)
  <2>1. UNCHANGED tables /\ last' = [ended |-> "integrityError", nodes |-> {}, leaves |-> {}]
    BY <1>3 DEF UpdateStructure
  <2>2. node' = node /\ leaf' = leaf /\ types' = types
    BY <2>1 DEF tables
  <2>3. RowsAreOwn' /\ ParentsAreStored' /\ RefsAreStored'
    BY <2>2 DEF StructureInv, RowsAreOwn, ParentsAreStored, RefsAreStored, Stored, StoredLeaf
  <2>4. NoCircle' /\ LeavesAreAtTheirNodes'
    BY <2>2 DEF StructureInv, NoCircle, LeavesAreAtTheirNodes, Stored
  <2>5. last' \in [ended : {"none", "ok", "integrityError"}, nodes : SUBSET Keys, leaves : SUBSET Leaves]
    BY <2>1
  <2> QED
    BY <2>2, <2>3, <2>4, <2>5 DEF TablesInv, StructureInv, TypeOK
<1>4. CASE ~IntegrityError(p)
  <2>1. /\ last' = [ended |-> "ok", nodes |-> D, leaves |-> DOMAIN p.refs]
        /\ types' = types \cup p.types
        /\ node' = UpdateParentIds(p)
        /\ leaf' = UpsertLeaves(p)
    BY <1>2, <1>4 DEF UpdateStructure
  <2>2. ASSUME NEW k \in Keys
        PROVE  /\ node'[k].id = IdAfter(p, k)
               /\ node'[k].above = AboveAfter(p, k)
               /\ node'[k].parent =
                      IF AboveAfter(p, k) = NoKey THEN NoId ELSE IdAfter(p, AboveAfter(p, k))
    <3>1. node'[k] = [id |-> IdAfter(p, k), above |-> AboveAfter(p, k),
                  parent |-> IF AboveAfter(p, k) = NoKey THEN NoId ELSE IdAfter(p, AboveAfter(p, k))]
      BY <2>1, RowsAfterUpdate
    <3> QED  BY <3>1
  <2>3. ASSUME NEW k \in Keys
        PROVE  /\ IF k \in D \/ Stored(k)
                  THEN IdAfter(p, k) \in Own(k) /\ IdAfter(p, k) # NoId
                  ELSE IdAfter(p, k) = NoId
               /\ AboveAfter(p, k) # NoKey =>
                      /\ AboveAfter(p, k) \in Keys
                      /\ AboveAfter(p, k) \in D \/ Stored(AboveAfter(p, k))
               /\ k \notin D /\ ~Stored(k) => AboveAfter(p, k) = NoKey
    BY IdsAndParentsAfter
  <2>4. ASSUME NEW k \in Keys
        PROVE  Stored(k)' <=> k \in D \/ Stored(k)
    BY <2>2, <2>3 DEF Stored
  <2>5. ASSUME NEW k \in Keys
        PROVE  node'[k] \in [id : Ids, above : Keys \cup {NoKey}, parent : Ids]
    <3>1. IdAfter(p, k) \in Ids
      BY <2>3, OwnUuids DEF Ids
    <3>2. AboveAfter(p, k) # NoKey => IdAfter(p, AboveAfter(p, k)) \in Ids
      BY <2>3, OwnUuids DEF Ids
    <3>3. (IF AboveAfter(p, k) = NoKey THEN NoId ELSE IdAfter(p, AboveAfter(p, k))) \in Ids
      BY <3>2 DEF Ids
    <3>4. node'[k] = [id |-> IdAfter(p, k), above |-> AboveAfter(p, k),
                  parent |-> IF AboveAfter(p, k) = NoKey THEN NoId ELSE IdAfter(p, AboveAfter(p, k))]
      BY <2>1, RowsAfterUpdate
    <3>5. AboveAfter(p, k) \in Keys \cup {NoKey}
      BY <2>3
    <3> QED  BY <3>1, <3>3, <3>4, <3>5
  <2>6. node' \in [Keys -> [id : Ids, above : Keys \cup {NoKey}, parent : Ids]]
    BY <2>1, <2>5 DEF UpdateParentIds
  <2>7. ParentsAreStored'
    <3> SUFFICES ASSUME NEW k \in Keys
                 PROVE  IF node'[k].above = NoKey THEN node'[k].parent = NoId
                        ELSE /\ node'[node'[k].above].id # NoId
                             /\ node'[k].parent = node'[node'[k].above].id
      BY DEF ParentsAreStored, Stored
    <3> DEFINE j == AboveAfter(p, k)
    <3>1. node'[k].above = j /\ node'[k].parent = IF j = NoKey THEN NoId ELSE IdAfter(p, j)
      BY <2>2
    <3>2. j # NoKey => j \in Keys /\ IdAfter(p, j) # NoId
      BY <2>3
    <3>3. j # NoKey => node'[j].id = IdAfter(p, j)
      BY <3>2, <2>2
    <3> QED  BY <3>1, <3>2, <3>3
  <2>8. NoCircle'
    <3> SUFFICES ASSUME NEW C \in (SUBSET {k \in Keys : Stored(k)'}) \ {{}},
                        \A k \in C : [j \in Keys |-> node'[j].above][k] \in C
                 PROVE  FALSE
      BY DEF NoCircle, Circle
    <3>1. C \in (SUBSET {k \in Keys : k \in DOMAIN p.above \/ Stored(k)}) \ {{}}
      BY <2>4
    <3>2. ASSUME NEW k \in C
          PROVE  AboveAfter(p, k) \in C
      <4>1. k \in Keys
        BY <3>1
      <4>2. node'[k].above = AboveAfter(p, k)
        BY <2>2, <4>1
      <4> QED  BY <4>1, <4>2
    <3> QED  BY <3>1, <3>2, NoCircleAfter
  <2>9. ASSUME NEW l \in Leaves
        PROVE  /\ l \notin DOMAIN p.refs => leaf'[l] = leaf[l]
               /\ l \in DOMAIN p.refs =>
                    /\ leaf'[l].id = IF StoredLeaf(l) THEN leaf[l].id ELSE p.id[l]
                    /\ leaf'[l].refs = p.refs[l]
                    /\ leaf'[l].at = {IdAfter(p, k) : k \in p.refs[l]}
                    /\ leaf'[l] \in [id : Ids, refs : SUBSET Keys, at : SUBSET Uuids]
    <3>1. CASE l \in DOMAIN p.refs
      <4>1. leaf'[l] = [id |-> IF StoredLeaf(l) THEN leaf[l].id ELSE p.id[l],
                        refs |-> p.refs[l],
                        at |-> {Upsert(p)[k].id : k \in p.refs[l] \cap Upserted(p)}]
        BY <2>1, <3>1, Zenon DEF UpsertLeaves
      <4>2. p.refs[l] \cap Upserted(p) = p.refs[l] /\ p.refs[l] \subseteq Keys
        BY <1>1, <1>2, <3>1
      <4>3. ASSUME NEW k \in Keys
            PROVE  Upsert(p)[k].id = IdAfter(p, k)
        <5>1. Upsert(p)[k] =
                  [id |-> IdAfter(p, k), above |-> AboveAfter(p, k),
                   parent |-> IF Stored(k) \/ k \notin DOMAIN p.above
                              THEN node[k].parent ELSE ParentIdSent(p, k)]
          BY RowsAfterUpsert
        <5> QED  BY <5>1
      <4>4. {Upsert(p)[k].id : k \in p.refs[l] \cap Upserted(p)} = {IdAfter(p, k) : k \in p.refs[l]}
        BY <4>2, <4>3
      <4>5. {IdAfter(p, k) : k \in p.refs[l]} \in SUBSET Uuids
        <5>1. \A k \in p.refs[l] : k \in Keys /\ IdAfter(p, k) \in Own(k)
          BY <3>1, <1>1, <4>2, <2>3
        <5> QED  BY <5>1, OwnUuids
      <4>6. (IF StoredLeaf(l) THEN leaf[l].id ELSE p.id[l]) \in Ids
        BY <3>1, OwnUuids DEF StructureInv, TypeOK, Valid, Ids
      <4>7. p.refs[l] \in SUBSET Keys
        BY <4>2
      <4>8. leaf'[l] = [id |-> IF StoredLeaf(l) THEN leaf[l].id ELSE p.id[l],
                        refs |-> p.refs[l], at |-> {IdAfter(p, k) : k \in p.refs[l]}]
        BY <4>1, <4>4
      <4> QED  BY <3>1, <4>5, <4>6, <4>7, <4>8
    <3>2. CASE l \notin DOMAIN p.refs
      BY <2>1, <3>2, Zenon DEF UpsertLeaves
    <3> QED  BY <3>1, <3>2
  <2>10. RowsAreOwn'
    <3>1. ASSUME NEW k \in Keys
          PROVE  IF Stored(k)' THEN node'[k].id \in Own(k) ELSE node'[k] = NoNode
      <4>1. CASE k \in D \/ Stored(k)
        BY <4>1, <2>2, <2>3, <2>4
      <4>2. CASE ~(k \in D \/ Stored(k))
        <5>1. IdAfter(p, k) = NoId /\ AboveAfter(p, k) = NoKey /\ ~Stored(k)'
          BY <4>2, <2>3, <2>4
        <5>2. node'[k] = [id |-> IdAfter(p, k), above |-> AboveAfter(p, k),
                  parent |-> IF AboveAfter(p, k) = NoKey THEN NoId ELSE IdAfter(p, AboveAfter(p, k))]
          BY <2>1, RowsAfterUpdate
        <5> QED  BY <5>1, <5>2 DEF NoNode
      <4> QED  BY <4>1, <4>2
    <3>2. ASSUME NEW l \in Leaves
          PROVE  IF StoredLeaf(l)' THEN leaf'[l].id \in Own(l) ELSE leaf'[l] = NoLeaf
      <4>1. IF StoredLeaf(l) THEN leaf[l].id \in Own(l) ELSE leaf[l] = NoLeaf
        BY DEF StructureInv, RowsAreOwn
      <4>2. CASE l \in DOMAIN p.refs
        <5>1. p.id[l] \in Own(l)
          BY <4>2 DEF Valid
        <5>2. leaf'[l].id \in Own(l)
          BY <4>1, <4>2, <5>1, <2>9
        <5> QED  BY <5>2, OwnUuids DEF StoredLeaf
      <4>3. CASE l \notin DOMAIN p.refs
        BY <4>1, <4>3, <2>9 DEF StoredLeaf
      <4> QED  BY <4>2, <4>3
    <3> QED  BY <3>1, <3>2 DEF RowsAreOwn
  <2>11. LeavesAreAtTheirNodes'
    <3> SUFFICES ASSUME NEW l \in Leaves
                 PROVE  leaf'[l].at = {node'[k].id : k \in {j \in leaf'[l].refs : Stored(j)'}}
      BY DEF LeavesAreAtTheirNodes
    <3>1. CASE l \in DOMAIN p.refs
      <4>1. leaf'[l].refs = p.refs[l] /\ leaf'[l].at = {IdAfter(p, k) : k \in p.refs[l]}
        BY <3>1, <2>9
      <4>2. \A k \in p.refs[l] : k \in Keys /\ Stored(k)' /\ node'[k].id = IdAfter(p, k)
        BY <3>1, <1>1, <2>2, <2>4
      <4> QED  BY <4>1, <4>2
    <3>2. CASE l \notin DOMAIN p.refs
      <4>1. leaf'[l] = leaf[l]
        BY <3>2, <2>9
      <4>2. leaf[l].at = {node[k].id : k \in {j \in leaf[l].refs : Stored(j)}}
        BY DEF StructureInv, LeavesAreAtTheirNodes
      <4>3. ASSUME NEW k \in leaf[l].refs
            PROVE  Stored(k) /\ Stored(k)' /\ node'[k].id = node[k].id
        <5>1. k \in Keys /\ Stored(k)
          BY DEF StructureInv, TypeOK, RefsAreStored
        <5> QED  BY <5>1, <2>2, <2>4 DEF IdAfter
      <4> QED  BY <4>1, <4>2, <4>3
    <3> QED  BY <3>1, <3>2
  <2>14. RefsAreStored'
    <3> SUFFICES ASSUME NEW l \in Leaves, NEW k \in leaf'[l].refs
                 PROVE  Stored(k)'
      BY DEF RefsAreStored
    <3>1. CASE l \in DOMAIN p.refs
      BY <3>1, <1>1, <2>4, <2>9
    <3>2. CASE l \notin DOMAIN p.refs
      <4>1. k \in Keys /\ Stored(k)
        BY <3>2, <2>9 DEF StructureInv, TypeOK, RefsAreStored
      <4> QED  BY <4>1, <2>4
    <3> QED  BY <3>1, <3>2
  <2>12. leaf' \in [Leaves -> [id : Ids, refs : SUBSET Keys, at : SUBSET Uuids]]
    <3>1. \A l \in Leaves : leaf[l] \in [id : Ids, refs : SUBSET Keys, at : SUBSET Uuids]
      BY DEF StructureInv, TypeOK
    <3>2. \A l \in Leaves : leaf'[l] \in [id : Ids, refs : SUBSET Keys, at : SUBSET Uuids]
      BY <2>9, <3>1
    <3> QED  BY <2>1, <3>2 DEF UpsertLeaves
  <2>13. types' \subseteq Types /\ last' \in [ended : {"none", "ok", "integrityError"}, nodes : SUBSET Keys, leaves : SUBSET Leaves]
    <3>1. types \subseteq Types /\ p.types \subseteq Types
      BY DEF StructureInv, TypeOK, Valid
    <3> QED  BY <1>1, <2>1, <3>1
  <2> QED  BY <2>6, <2>7, <2>8, <2>10, <2>11, <2>12, <2>13, <2>14 DEF TablesInv
<1> QED  BY <1>3, <1>4

-----------------------------------------------------------------------------
(* Every step keeps the invariant.                                         *)

LEMMA StructureInvInit == Init => StructureInv
<1> SUFFICES ASSUME Init PROVE StructureInv
  OBVIOUS
<1>1. TypeOK
  BY BoundsAssumption DEF Init, TypeOK, NoNode, NoLeaf, Ids
<1>2. RowsAreOwn /\ ParentsAreStored
  BY DEF Init, RowsAreOwn, ParentsAreStored, Stored, StoredLeaf, NoNode, NoLeaf
<1>3. NoCircle
  BY DEF Init, NoCircle, Circle, Stored, NoNode
<1>4. RefsAreStored /\ LeavesAreAtTheirNodes
  BY DEF Init, RefsAreStored, LeavesAreAtTheirNodes, NoLeaf
<1> QED  BY <1>1, <1>2, <1>3, <1>4 DEF Init, StructureInv, PendingIsValid

LEMMA SameTables ==
    ASSUME StructureInv, UNCHANGED <<tables, last>>
    PROVE  TablesInv'
BY DEF TablesInv, StructureInv, TypeOK, tables, RowsAreOwn, Stored, StoredLeaf,
       ParentsAreStored, NoCircle, RefsAreStored, LeavesAreAtTheirNodes

LEMMA UpdateKeepsInv ==
    ASSUME StructureInv, NEW p, Valid(p), RootsKept(p), UpdateStructure(p),
           pc' = "idle", UNCHANGED crashes
    PROVE  StructureInv'
<1>1. TablesInv'
  BY UpdateKeepsTables
<1>2. TypeOK'
  BY <1>1 DEF TablesInv, TypeOK, StructureInv
<1> QED  BY <1>1, <1>2 DEF TablesInv, StructureInv, PendingIsValid

\* Nothing is stored below an empty structure's roots.
LEMMA EmptyKeepsRoots ==
    ASSUME StructureInv, Empty, NEW p, Valid(p)
    PROVE  RootsKept(p)
<1>1. ASSUME NEW k \in Keys PROVE node[k].above = NoKey
  <2>1. node[k] = NoNode
    BY DEF StructureInv, RowsAreOwn, Empty
  <2> QED  BY <2>1 DEF NoNode
<1>2. DOMAIN p.above \subseteq Keys
  BY DEF Valid, Forests
<1> QED  BY <1>1, <1>2 DEF RootsKept

LEMMA ReplaceKeepsInv ==
    ASSUME StructureInv, NEW p, Valid(p), Replace(p)
    PROVE  StructureInv'
<1>1. CASE Empty /\ UpdateStructure(p) /\ pc' = "idle" /\ UNCHANGED <<pending, crashes>>
  BY <1>1, EmptyKeepsRoots, UpdateKeepsInv
<1>2. CASE DeleteStructure /\ pc' = "updating" /\ pending' = p /\ UNCHANGED <<last, crashes>>
  <2>1. types' = {} /\ node' = [k \in Keys |-> NoNode] /\ leaf' = [l \in Leaves |-> NoLeaf]
    BY <1>2 DEF DeleteStructure
  <2>2. Empty'
    BY <2>1 DEF Empty, Stored, StoredLeaf, NoNode, NoLeaf
  <2>3. Valid(p)'
    BY <1>2 DEF Valid
  <2>4. PendingIsValid'
    BY <1>2, <2>2, <2>3 DEF PendingIsValid, Valid
  <2>5. TypeOK'
    BY <1>2, <2>1 DEF StructureInv, TypeOK, NoNode, NoLeaf, Ids
  <2>6. RowsAreOwn' /\ ParentsAreStored'
    BY <2>1 DEF RowsAreOwn, ParentsAreStored, Stored, StoredLeaf, NoNode, NoLeaf
  <2>7. NoCircle'
    BY <2>1 DEF NoCircle, Circle, Stored, NoNode
  <2>8. RefsAreStored' /\ LeavesAreAtTheirNodes'
    BY <2>1 DEF RefsAreStored, LeavesAreAtTheirNodes, NoLeaf
  <2> QED  BY <2>4, <2>5, <2>6, <2>7, <2>8 DEF StructureInv
<1> QED  BY <1>1, <1>2 DEF Replace

\* A step is one of these, with a structure that passed validation; the refinement
\* goes by the same cases.
LEMMA StepShape ==
    ASSUME Careful, StructureInv, Next
    PROVE  \/ \E p : Valid(p) /\ Replace(p)
           \/ \E p : /\ Valid(p) /\ RootsKept(p) /\ UpdateStructure(p)
                     /\ pc' = "idle" /\ UNCHANGED crashes
           \/ /\ UNCHANGED <<tables, last>> /\ pc' \in {"idle", "down"}
              /\ crashes' \in 0 .. MaxCrashes
<1>1. CASE UpdateEndpoint
  <2>1. PICK above \in Forests, copied \in BOOLEAN :
          \E refs \in Attachments(DOMAIN above), ts \in ElementTypes(DOMAIN above) :
             \/ LET p == Payload(ts, above, refs, copied, {})
                IN  (KeepsRoots => RootsSent(p)) /\ Replace(p)
             \/ LET p == Payload(ts, above, refs, copied, InUse)
                IN  (KeepsRoots => RootsKept(p)) /\ UpdateInPlace(p)
    BY <1>1, Zenon DEF UpdateEndpoint
  <2>2. PICK refs \in Attachments(DOMAIN above), ts \in ElementTypes(DOMAIN above) :
             \/ LET p == Payload(ts, above, refs, copied, {})
                IN  (KeepsRoots => RootsSent(p)) /\ Replace(p)
             \/ LET p == Payload(ts, above, refs, copied, InUse)
                IN  (KeepsRoots => RootsKept(p)) /\ UpdateInPlace(p)
    BY <2>1
  <2> DEFINE r == Payload(ts, above, refs, copied, {})
             u == Payload(ts, above, refs, copied, InUse)
  <2>3. CASE RootsSent(r) /\ Replace(r)
    <3>1. \A k \in DOMAIN above : above[k] = NoKey => r.parent[k] = NoId
      BY <2>3 DEF RootsSent, Payload
    <3>2. Valid(r)
      BY <3>1, SentIsValid DEF Careful
    <3> HIDE DEF r
    <3> QED  BY <2>3, <3>2
  <2>4. CASE RootsKept(u) /\ UpdateInPlace(u)
    <3>1. \A k \in DOMAIN above : above[k] = NoKey => u.parent[k] = NoId
      <4>1. \A k \in DOMAIN above : k \in Keys /\ u.parent[k] \in {node[k].parent, NoId}
        BY DEF Payload, Forests
      <4>2. \A k \in DOMAIN above : above[k] = NoKey => node[k].above = NoKey
        BY <2>4 DEF RootsKept, Payload
      <4> QED  BY <4>1, <4>2 DEF StructureInv, ParentsAreStored
    <3>2. Valid(u)
      BY <3>1, SentIsValid DEF Careful
    <3> HIDE DEF u
    <3> QED  BY <2>4, <3>2 DEF UpdateInPlace
  <2> QED  BY <2>2, <2>3, <2>4 DEF Careful
<1>2. CASE FinishReplace
  <2>1. Valid(pending) /\ Empty
    BY <1>2 DEF FinishReplace, StructureInv, PendingIsValid
  <2> QED  BY <1>2, <2>1, EmptyKeepsRoots DEF FinishReplace
<1>3. CASE Crash
  BY <1>3, BoundsAssumption DEF Crash, StructureInv, TypeOK
<1>4. CASE Start
  <2>1. CASE Startup = {}
    BY <1>4, <2>1 DEF Start, StructureInv, TypeOK
  <2>2. CASE Startup # {}
    <3>1. PICK s \in Startup : Replace(Payload(s.types, s.above, s.refs, FALSE, {}))
      BY <1>4, <2>2 DEF Start, Careful
    <3> DEFINE p == Payload(s.types, s.above, s.refs, FALSE, {})
    <3>2. \A k \in DOMAIN s.above : p.parent[k] = NoId
      BY DEF Payload
    <3>3. Valid(p)
      BY <3>2, SentIsValid, StartupAssumption DEF Careful
    <3> HIDE DEF p
    <3> QED  BY <3>1, <3>3 DEF p
  <2> QED  BY <2>1, <2>2
<1> QED  BY <1>1, <1>2, <1>3, <1>4 DEF Next

LEMMA StructureInvStep ==
    ASSUME Careful, StructureInv, [Next]_vars
    PROVE  StructureInv'
<1>1. CASE Next
  <2>1. ASSUME NEW p, Valid(p), Replace(p)
        PROVE  StructureInv'
    BY <2>1, ReplaceKeepsInv
  <2>2. ASSUME NEW p, Valid(p), RootsKept(p), UpdateStructure(p), pc' = "idle", UNCHANGED crashes
        PROVE  StructureInv'
    BY <2>2, UpdateKeepsInv
  <2>3. CASE UNCHANGED <<tables, last>> /\ pc' \in {"idle", "down"} /\ crashes' \in 0 .. MaxCrashes
    <3>1. TablesInv'
      BY <2>3, SameTables
    <3> QED  BY <2>3, <3>1 DEF TablesInv, StructureInv, TypeOK, PendingIsValid
  <2> QED  BY <1>1, <2>1, <2>2, <2>3, StepShape
<1>2. CASE UNCHANGED vars
  <2>1. TablesInv'
    BY <1>2, SameTables DEF vars
  <2>2. UNCHANGED <<types, node, leaf, pc, pending, crashes>>
    BY <1>2 DEF vars, tables
  <2>3. PendingIsValid'
    BY <2>2 DEF StructureInv, PendingIsValid, Valid, Empty, Stored, StoredLeaf
  <2> QED  BY <2>1, <2>2, <2>3 DEF TablesInv, StructureInv, TypeOK
<1> QED  BY <1>1, <1>2

\* The tables hold a forest in which uuids and external ids say the same, whatever
\* is sent, deleted, interrupted and prepopulated.
THEOREM StructureInvariant == Careful => (Spec => []StructureInv)
<1>1. Careful /\ StructureInv /\ [Next]_vars => StructureInv'
  BY StructureInvStep
<1>2. SUFFICES ASSUME Careful PROVE Spec => []StructureInv
  OBVIOUS
<1> QED  BY <1>1, <1>2, StructureInvInit, PTL DEF Spec

\* get_children leads to every thing node, since a row's parent_node_id is the uuid of
\* the stored node it names and the names make no circle.
THEOREM NodesAreFound == Careful => (Spec => []EveryNodeIsFound)
<1>1. StructureInv => EveryNodeIsFound
  <2> SUFFICES ASSUME StructureInv,
                      NEW C \in (SUBSET {k \in Keys : Stored(k)}) \ {{}},
                      \A k \in C : \/ \E j \in C : node[k].parent = node[j].id
                                   \/ node[k].parent \notin {NoId} \cup {node[j].id : j \in Keys}
               PROVE  FALSE
    BY DEF EveryNodeIsFound
  <2>1. ASSUME NEW k \in C
        PROVE  node[k].above \in C
    <3>1. k \in Keys /\ node[k].above \in Keys \cup {NoKey}
      BY DEF StructureInv, TypeOK
    <3>2. IF node[k].above = NoKey THEN node[k].parent = NoId
          ELSE Stored(node[k].above) /\ node[k].parent = node[node[k].above].id
      BY <3>1 DEF StructureInv, ParentsAreStored
    <3>3. PICK j \in C : node[k].parent = node[j].id
      BY <3>1, <3>2
    <3>4. j \in Keys /\ Stored(j) /\ node[j].id # NoId
      BY DEF Stored
    <3>5. node[k].above # NoKey /\ node[k].above \in Keys /\ node[node[k].above].id = node[j].id
      BY <3>1, <3>2, <3>3, <3>4
    <3>6. node[j].id \in Own(j) /\ node[node[k].above].id \in Own(node[k].above)
      BY <3>2, <3>4, <3>5 DEF StructureInv, RowsAreOwn
    <3>7. node[k].above = j
      BY <3>4, <3>5, <3>6, OwnUuids
    <3> QED  BY <3>7
  <2>2. \A k \in C : [j \in Keys |-> node[j].above][k] \in C
    BY <2>1
  <2> QED  BY <2>2 DEF StructureInv, NoCircle, Circle
<1>2. SUFFICES ASSUME Careful PROVE Spec => []EveryNodeIsFound
  OBVIOUS
<1> QED  BY <1>1, <1>2, StructureInvariant, PTL

\* Uuids and external ids tell the same hierarchy, and a source or sink is attached
\* to the nodes its row names.
THEOREM HierarchiesAndLeavesAgree ==
    Careful => (Spec => [](HierarchiesAgree /\ LeavesAreAtTheirNodes))
<1>1. StructureInv => HierarchiesAgree /\ LeavesAreAtTheirNodes
  BY DEF StructureInv, ParentsAreStored, HierarchiesAgree
<1>2. SUFFICES ASSUME Careful PROVE Spec => [](HierarchiesAgree /\ LeavesAreAtTheirNodes)
  OBVIOUS
<1> QED  BY <1>1, <1>2, StructureInvariant, PTL

-----------------------------------------------------------------------------
(* The refinement of VirtualStructure.                                     *)

\* What the abstract structure has in the place of uuids.
LEMMA ByExternalIds ==
    StructureInv =>
        /\ \A k \in Keys : ParentKey(k) = node[k].above
        /\ \A l \in Leaves : {k \in Keys : Stored(k) /\ node[k].id \in leaf[l].at} = leaf[l].refs
<1> SUFFICES ASSUME StructureInv
             PROVE  /\ \A k \in Keys : ParentKey(k) = node[k].above
                    /\ \A l \in Leaves :
                          {k \in Keys : Stored(k) /\ node[k].id \in leaf[l].at} = leaf[l].refs
  OBVIOUS
<1>1. \A j \in Keys : Stored(j) => node[j].id # NoId /\ node[j].id \in Own(j)
  BY DEF StructureInv, RowsAreOwn, Stored
<1>2. \A i, j \in Keys : Stored(i) /\ Stored(j) /\ node[i].id = node[j].id => i = j
  BY <1>1, OwnUuids
<1>3. ASSUME NEW k \in Keys
      PROVE  ParentKey(k) = node[k].above
  <2>1. IF node[k].above = NoKey THEN node[k].parent = NoId
        ELSE Stored(node[k].above) /\ node[k].parent = node[node[k].above].id
    BY DEF StructureInv, ParentsAreStored
  <2>2. node[k].above \in Keys \cup {NoKey}
    BY DEF StructureInv, TypeOK
  <2>3. CASE node[k].above = NoKey
    BY <1>1, <2>1, <2>3 DEF ParentKey
  <2>4. CASE node[k].above # NoKey
    <3>1. \A j \in Keys : Stored(j) /\ node[j].id = node[k].parent <=> j = node[k].above
      BY <1>2, <2>1, <2>2, <2>4
    <3>2. \E j \in Keys : Stored(j) /\ node[j].id = node[k].parent
      BY <2>2, <2>4, <3>1
    <3>3. (CHOOSE j \in Keys : Stored(j) /\ node[j].id = node[k].parent) = node[k].above
      BY <3>1, <3>2
    <3> QED  BY <3>2, <3>3, Zenon DEF ParentKey
  <2> QED  BY <2>3, <2>4
<1>4. ASSUME NEW l \in Leaves
      PROVE  {k \in Keys : Stored(k) /\ node[k].id \in leaf[l].at} = leaf[l].refs
  <2>1. leaf[l].at = {node[k].id : k \in {j \in leaf[l].refs : Stored(j)}}
    BY DEF StructureInv, LeavesAreAtTheirNodes
  <2>2. leaf[l].refs \subseteq Keys /\ \A k \in leaf[l].refs : Stored(k)
    BY DEF StructureInv, TypeOK, RefsAreStored
  <2> QED  BY <1>2, <2>1, <2>2
<1> QED  BY <1>3, <1>4

\* The abstract variables, by external ids.
nodesThere == {k \in Keys : Stored(k)}
parents == [k \in Keys |-> node[k].above]
leavesThere == {l \in Leaves : StoredLeaf(l)}
placesOf == [l \in Leaves |-> leaf[l].refs]

SeenByNames ==
    /\ [k \in Keys |-> ParentKey(k)] = parents
    /\ [l \in Leaves |-> {k \in Keys : Stored(k) /\ node[k].id \in leaf[l].at}] = placesOf

LEMMA AbstractState == StructureInv => SeenByNames
BY ByExternalIds DEF parents, placesOf, SeenByNames

LEMMA AbstractStep == StructureInv /\ StructureInv' => SeenByNames /\ SeenByNames'
<1>1. StructureInv' => SeenByNames'
  BY AbstractState, PTL
<1> QED  BY <1>1, AbstractState

\* What update_structure did, seen by external ids.
LEMMA UpdateIsMerge ==
    ASSUME StructureInv, NEW p, Valid(p), RootsKept(p), UpdateStructure(p), ~IntegrityError(p)
    PROVE  LET ks == DOMAIN p.above
               ls == DOMAIN p.refs
           IN  /\ ks \in SUBSET Keys /\ ls \in SUBSET Leaves
               /\ last'.nodes \cup last'.leaves = ks \cup ls
               /\ nodesThere' = nodesThere \cup ks
               /\ leavesThere' = leavesThere \cup ls
               /\ \A k \in ks : parents'[k] \in ks \cup {NoKey}
               /\ \A C \in (SUBSET ks) \ {{}} : \E k \in C : parents'[k] \notin C
               /\ \A k \in Keys \ ks : parents'[k] = parents[k]
               /\ \A l \in ls : placesOf'[l] \subseteq ks
               /\ \A l \in Leaves \ ls : placesOf'[l] = placesOf[l]
<1> DEFINE ks == DOMAIN p.above
           ls == DOMAIN p.refs
<1>1. /\ ks \subseteq Keys /\ ls \subseteq Leaves /\ ~Circular(p.above)
      /\ (\A k \in ks : p.above[k] \in ks \cup {NoKey}) /\ (\A l \in ls : p.refs[l] \subseteq ks)
  BY DEF Valid, Forests, Attachments
<1>2. Upserted(p) = ks
  BY DEF Upserted, Valid
<1>3. /\ last' = [ended |-> "ok", nodes |-> ks, leaves |-> ls]
      /\ node' = UpdateParentIds(p)
      /\ leaf' = UpsertLeaves(p)
  BY <1>2 DEF UpdateStructure
<1>4. ASSUME NEW k \in Keys
      PROVE  /\ node'[k].above = AboveAfter(p, k)
             /\ Stored(k)' <=> k \in ks \/ Stored(k)
  <2>1. node'[k] = [id |-> IdAfter(p, k), above |-> AboveAfter(p, k),
                parent |-> IF AboveAfter(p, k) = NoKey THEN NoId ELSE IdAfter(p, AboveAfter(p, k))]
    BY <1>3, RowsAfterUpdate
  <2>2. node'[k].above = AboveAfter(p, k) /\ node'[k].id = IdAfter(p, k)
    BY <2>1
  <2>3. IdAfter(p, k) # NoId <=> k \in ks \/ Stored(k)
    BY IdsAndParentsAfter
  <2>4. Stored(k)' <=> node'[k].id # NoId
    BY DEF Stored
  <2> QED  BY <2>2, <2>3, <2>4
<1>5. ASSUME NEW l \in Leaves
      PROVE  /\ l \notin ls => leaf'[l] = leaf[l]
             /\ l \in ls => leaf'[l].refs = p.refs[l] /\ leaf'[l].id # NoId
  <2>1. CASE l \notin ls
    BY <1>3, <2>1, Zenon DEF UpsertLeaves
  <2>2. CASE l \in ls
    <3>1. leaf'[l] = [id |-> IF StoredLeaf(l) THEN leaf[l].id ELSE p.id[l],
                      refs |-> p.refs[l],
                      at |-> {Upsert(p)[k].id : k \in p.refs[l] \cap Upserted(p)}]
      BY <1>3, <2>2, Zenon DEF UpsertLeaves
    <3>2. p.id[l] \in Own(l) /\ NoId \notin Own(l)
      BY <2>2, OwnUuids DEF Valid
    <3>3. (IF StoredLeaf(l) THEN leaf[l].id ELSE p.id[l]) # NoId
      BY <3>2 DEF StoredLeaf
    <3> QED  BY <2>2, <3>1, <3>3
  <2> QED  BY <2>1, <2>2
<1>6. \A C \in (SUBSET ks) \ {{}} : \E k \in C : p.above[k] \notin C
  BY <1>1 DEF Circular
<1>7. \A k \in ks : parents'[k] = p.above[k]
  BY <1>1, <1>4 DEF parents, AboveAfter
<1>8. nodesThere' = nodesThere \cup ks /\ leavesThere' = leavesThere \cup ls
  BY <1>1, <1>4, <1>5 DEF nodesThere, leavesThere, StoredLeaf
<1>9. \A k \in Keys \ ks : parents'[k] = parents[k]
  BY <1>4 DEF parents, AboveAfter
<1>10. (\A l \in ls : placesOf'[l] \subseteq ks) /\ (\A l \in Leaves \ ls : placesOf'[l] = placesOf[l])
  BY <1>1, <1>5 DEF placesOf
<1>11. last'.nodes \cup last'.leaves = ks \cup ls
  BY <1>3
<1> QED  BY <1>1, <1>6, <1>7, <1>8, <1>9, <1>10, <1>11

LEMMA UpdateImplements ==
    ASSUME StructureInv, StructureInv', NEW p, Valid(p), RootsKept(p), UpdateStructure(p)
    PROVE  [Structure!Next]_Structure!vars
<1>0. SeenByNames /\ SeenByNames'
  BY AbstractStep
<1>1. CASE IntegrityError(p)
  <2>1. /\ last' = [ended |-> "integrityError", nodes |-> {}, leaves |-> {}]
        /\ types' = types /\ node' = node /\ leaf' = leaf
    BY <1>1 DEF UpdateStructure, tables
  <2>2. nodesThere' = nodesThere /\ leavesThere' = leavesThere /\ parents' = parents /\ placesOf' = placesOf
    BY <2>1 DEF nodesThere, leavesThere, parents, placesOf, Stored, StoredLeaf
  <2>3. last'.nodes \cup last'.leaves = {}
    BY <2>1
  <2>4. Structure!Merge({}, {})
    BY <1>0, <2>2, <2>3 DEF Structure!Merge, Structure!Lost, nodesThere, leavesThere, SeenByNames
  <2> QED  BY <2>4 DEF Structure!Next
<1>2. CASE ~IntegrityError(p)
  <2> DEFINE ks == DOMAIN p.above
             ls == DOMAIN p.refs
  <2>1. /\ ks \in SUBSET Keys /\ ls \in SUBSET Leaves
        /\ last'.nodes \cup last'.leaves = ks \cup ls
        /\ nodesThere' = nodesThere \cup ks
        /\ leavesThere' = leavesThere \cup ls
        /\ \A k \in ks : parents'[k] \in ks \cup {NoKey}
        /\ \A C \in (SUBSET ks) \ {{}} : \E k \in C : parents'[k] \notin C
        /\ \A k \in Keys \ ks : parents'[k] = parents[k]
        /\ \A l \in ls : placesOf'[l] \subseteq ks
        /\ \A l \in Leaves \ ls : placesOf'[l] = placesOf[l]
    BY <1>2, UpdateIsMerge, Zenon
  <2> HIDE DEF ks, ls
  <2>2. Structure!Merge(ks, ls)
    BY <1>0, <2>1 DEF Structure!Merge, Structure!Lost, nodesThere, leavesThere, SeenByNames
  <2> QED  BY <2>1, <2>2 DEF Structure!Next
<1> QED  BY <1>1, <1>2

\* Rows and uuids implement replacing and merging of structures: the two statements of
\* an update, the two transactions of a replacement and whatever interrupts them
\* look from outside like clearing and merging.
THEOREM StructuresAreMerged == Careful => (Spec => ImplementsVirtualStructure)
<1> SUFFICES ASSUME Careful PROVE Spec => ImplementsVirtualStructure
  OBVIOUS
<1>1. Init => Structure!Init
  <2> SUFFICES ASSUME Init PROVE Structure!Init
    OBVIOUS
  <2>1. SeenByNames
    BY StructureInvInit, AbstractState
  <2> QED
    BY <2>1 DEF SeenByNames, Structure!Init, Init, Stored, StoredLeaf, NoNode, NoLeaf, parents, placesOf
<1>2. StructureInv /\ StructureInv' /\ [Next]_vars => [Structure!Next]_Structure!vars
  <2> SUFFICES ASSUME StructureInv, StructureInv', [Next]_vars
               PROVE  [Structure!Next]_Structure!vars
    OBVIOUS
  <2>1. ASSUME NEW p, Valid(p), Replace(p)
        PROVE  [Structure!Next]_Structure!vars
    <3>1. CASE Empty /\ UpdateStructure(p)
      BY <2>1, <3>1, EmptyKeepsRoots, UpdateImplements
    <3>2. CASE DeleteStructure /\ UNCHANGED last
      <4>1. /\ nodesThere' = {} /\ leavesThere' = {}
            /\ parents' = [k \in Keys |-> NoKey] /\ placesOf' = [l \in Leaves |-> {}]
        BY <3>2 DEF DeleteStructure, nodesThere, leavesThere, parents, placesOf, Stored, StoredLeaf,
                    NoNode, NoLeaf
      <4>2. Structure!Clear
        BY <3>2, <4>1, AbstractStep DEF Structure!Clear, nodesThere, leavesThere, SeenByNames
      <4> QED  BY <4>2 DEF Structure!Next
    <3> QED  BY <2>1, <3>1, <3>2 DEF Replace
  <2>2. ASSUME NEW p, Valid(p), RootsKept(p), UpdateStructure(p)
        PROVE  [Structure!Next]_Structure!vars
    BY <2>2, UpdateImplements
  <2>3. CASE UNCHANGED <<tables, last>>
    BY <2>3 DEF tables, Structure!vars, Stored, StoredLeaf, ParentKey
  <2>4. CASE UNCHANGED vars
    BY <2>3, <2>4 DEF vars
  <2>5. CASE Next
    BY <2>1, <2>2, <2>3, <2>5, StepShape
  <2> QED  BY <2>4, <2>5
<1> QED
  BY <1>1, <1>2, StructureInvariant, PTL DEF Spec, ImplementsVirtualStructure, Structure!Spec
=============================================================================
