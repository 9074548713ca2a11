------------------------- MODULE BackendExecutionProofs -------------------------
(***************************************************************************)
(* Proofs about an execution in the backend: what it reads through its     *)
(* caches, one revision after the other, and which modules it runs, for    *)
(* any components, workflows and contents and any writes between the reads. *)
(***************************************************************************)
EXTENDS BackendExecution, TLAPS

IsDraft(rev) == rev.state = "DRAFT"

\* A revision that was not a draft when it was read is still stored as it was read.
Frozen(rev) ==
    ~IsDraft(rev) => ~IsDraft(db[rev.of]) /\ db[rev.of].version = rev.version

StoreIsTyped == db \in [Ids -> Revisions] /\ \A id \in Ids : db[id].of = id

\* What was released when all it uses was is no draft and uses what was released likewise.
SoundUseSound ==
    /\ sound \in SUBSET Ids
    /\ \A id \in sound : ~IsDraft(db[id]) /\ Uses(db[id]) \subseteq sound

\* Every set of these has a member that uses no other of it.
SoundAreFounded ==
    ~\E S \in (SUBSET sound) \ {{}} : \A c \in S : \E d \in S : d \in Uses(db[c])

\* A cache holds what is stored.
Cached(cache) ==
    /\ DOMAIN cache \subseteq Ids
    /\ \A id \in DOMAIN cache :
          cache[id] \in Revisions /\ cache[id].of = id /\ ~IsDraft(cache[id]) /\ Frozen(cache[id])

CachesAreTrue == Cached(rootCache) /\ Cached(nestedCache) /\ Cached(importCache)

ReleasedRoot == ~IsDraft(asked[root.of])
SoundRoot == ReleasedRoot /\ root.of \in sound

\* What was requested is stored, or an earlier version of what is stored.
RequestIsPast ==
    /\ asked \in [Ids -> Revisions]
    /\ \A id \in Ids :
          asked[id].of = id /\ asked[id].version <= db[id].version /\ Frozen(asked[id])

\* What the execution knows of a component it read: it is no older than the request,
\* sound and no draft if the root was when it was requested, and, if nothing was written
\* in between, a draft just where the stored one is.
IsRead(rev, c) ==
    /\ rev \in Codes /\ rev.of = c /\ Frozen(rev)
    /\ asked[c].version <= rev.version
    /\ SoundRoot => c \in sound /\ ~IsDraft(rev)
    /\ ~disturbed => (IsDraft(rev) <=> IsDraft(db[c]))

AllRead(f) == DOMAIN f \subseteq Components /\ \A c \in DOMAIN f : IsRead(f[c], c)

\* The root, read when the execution was requested.
RootIsRead ==
    /\ root \in Revisions /\ root.of \in Ids /\ Frozen(root)
    /\ asked[root.of].version <= root.version
    /\ ReleasedRoot <=> ~IsDraft(root)

Registered(c) == HashOf(provided[c]) \in DOMAIN modules

\* The revisions at hand are those of the phase.
PhasesAgree ==
    /\ phase \in {"idle", "nestings", "nested", "imports", "runtime", "done"}
    /\ phase = "idle" => root = None /\ asked = Nothing
    /\ phase \in {"idle", "nestings"} => nested = Nothing
    /\ phase \in {"idle", "nestings", "runtime"} => rows = {}
    /\ phase \in {"idle", "nestings", "nested", "runtime"} => imported = Nothing
    /\ phase = "nested" => DOMAIN nested \subseteq rows
    /\ phase = "runtime" => nested = Nothing
    /\ phase \in {"nestings", "nested"} => root.of \in Workflows
    /\ phase = "nested" /\ ReleasedRoot => rows = Uses(root)
    /\ phase = "imports" => Nodes \subseteq DOMAIN nested
    /\ phase \notin {"runtime", "done"} => provided = Nothing
    /\ phase # "runtime" => toLoad = {} /\ importing = <<>>
    /\ rows \subseteq Components
    /\ outcome \in {"none", "ok", "integrity", "cycle"}
    /\ (phase = "done") <=> (outcome # "none")
    /\ phase = "done" /\ SoundRoot => outcome = "ok"

ExecutionIsRead ==
    phase # "idle" =>
        RequestIsPast /\ RootIsRead /\ AllRead(nested) /\ AllRead(imported) /\ AllRead(provided)

\* The runtime is given all it may come to import, and the code of every node that is
\* loaded is registered.
InputIsComplete ==
    phase = "runtime" \/ outcome = "ok" =>
        /\ Nodes \subseteq DOMAIN provided
        /\ \A c \in DOMAIN provided : Uses(provided[c]) \subseteq DOMAIN provided
        /\ toLoad \subseteq Nodes
        /\ \A c \in Nodes \ toLoad : Registered(c)

Bindings == UNION {[S -> Codes] : S \in SUBSET Components}
Frames == [of : Components, bound : Bindings]

\* Each component being imported is one that the code of the component below comes to
\* import, or that is to be loaded for a node; it holds the modules registered for what
\* it imported.
StackIsAChain ==
    /\ importing \in Seq(Frames)
    /\ importing # <<>> => importing[1].of \in toLoad
    /\ \A i \in 1 .. Len(importing) : importing[i].of \in DOMAIN provided
    /\ \A i \in 1 .. Len(importing) - 1 :
          importing[i + 1].of \in Uses(provided[importing[i].of])
    /\ \A i \in 1 .. Len(importing) : \A c \in DOMAIN importing[i].bound :
          /\ c \in Uses(provided[importing[i].of])
          /\ importing[i].bound[c] = HashOf(provided[c]) /\ Registered(c)

\* A module holds modules of what its code imports; as long as no preparation was
\* disturbed, what is sound and was not a draft when its module was made holds modules of
\* no drafts.
ModulesAreTrue ==
    \A code \in DOMAIN modules :
        /\ code \in Codes /\ Frozen(code)
        /\ DOMAIN modules[code] = Uses(code)
        /\ \A c \in Uses(code) :
              /\ modules[code][c] \in DOMAIN modules /\ modules[code][c].of = c
              /\ ~disturbed /\ ~IsDraft(code) /\ code.of \in sound => ~IsDraft(modules[code][c])

ExecutionInv ==
    /\ StoreIsTyped /\ SoundUseSound /\ SoundAreFounded
    /\ CachesAreTrue
    /\ PhasesAgree /\ ExecutionIsRead /\ InputIsComplete
    /\ StackIsAChain /\ ModulesAreTrue
    /\ disturbed \in BOOLEAN

-----------------------------------------------------------------------------
(* Revisions, functions and caches.                                        *)

LEMMA RevisionFields ==
    ASSUME NEW r \in Revisions
    PROVE  /\ r.of \in Ids /\ r.state \in States
           /\ r.version \in Nat /\ r.version \in 1 .. Len(Contents[r.of])
           /\ Uses(r) \subseteq Components
           /\ r = [of |-> r.of, version |-> r.version, state |-> r.state]
<1>1. PICK id \in Ids : r \in [of : {id}, version : 1 .. Len(Contents[id]), state : States]
  BY DEF Revisions
<1>2. r.of = id /\ r.version \in 1 .. Len(Contents[id]) /\ r.state \in States
  BY <1>1
<1>3. Contents[id] \in Seq(SUBSET Components) /\ Len(Contents[id]) \in Nat
  BY ContentsAssumption
<1>4. Contents[id][r.version] \in SUBSET Components
  BY <1>2, <1>3
<1>5. r = [of |-> r.of, version |-> r.version, state |-> r.state]
  BY <1>1
<1> QED
  BY <1>2, <1>3, <1>4, <1>5 DEF Uses

LEMMA RevisionFromFields ==
    ASSUME NEW id \in Ids, NEW v \in 1 .. Len(Contents[id]), NEW s \in States
    PROVE  [of |-> id, version |-> v, state |-> s] \in Revisions
BY DEF Revisions

LEMMA RevisionMoved ==
    ASSUME NEW r \in Revisions, NEW x
    PROVE  [r EXCEPT !.version = x] = [of |-> r.of, version |-> x, state |-> r.state]
<1>1. PICK id \in Ids : r \in [of : {id}, version : 1 .. Len(Contents[id]), state : States]
  BY DEF Revisions
<1> QED
  BY <1>1

LEMMA RevisionReleased ==
    ASSUME NEW r \in Revisions, NEW x
    PROVE  [r EXCEPT !.state = x] = [of |-> r.of, version |-> r.version, state |-> x]
<1>1. PICK id \in Ids : r \in [of : {id}, version : 1 .. Len(Contents[id]), state : States]
  BY DEF Revisions
<1> QED
  BY <1>1

LEMMA SameUses ==
    ASSUME NEW r, NEW q, r.of = q.of, r.version = q.version
    PROVE  Uses(r) = Uses(q)
BY DEF Uses

LEMMA CodesAreRevisions ==
    /\ Components \subseteq Ids
    /\ \A r \in Codes : r \in Revisions /\ r.of \in Components
    /\ \A r \in Revisions : r.of \in Components => r \in Codes
BY DEF Codes, Ids

LEMMA ExtendedIsCached ==
    ASSUME NEW cache, Cached(cache), NEW id \in Ids,
           NEW rev \in Revisions, rev.of = id, ~IsDraft(rev), Frozen(rev)
    PROVE  Cached(Extended(cache, id, rev))
<1> DEFINE kept == Extended(cache, id, rev)
<1>1. kept = [z \in DOMAIN cache \cup {id} |-> IF z = id THEN rev ELSE cache[z]]
  BY DEF Extended
<1> HIDE DEF kept
<1>2. DOMAIN kept = DOMAIN cache \cup {id}
  BY <1>1
<1>3. kept[id] = rev
  BY <1>1
<1>4. ASSUME NEW z \in DOMAIN cache, z # id PROVE kept[z] = cache[z]
  BY <1>1, <1>4
<1>5. DOMAIN kept \subseteq Ids
  BY <1>2 DEF Cached
<1>6. ASSUME NEW z \in DOMAIN kept
      PROVE  kept[z] \in Revisions /\ kept[z].of = z /\ ~IsDraft(kept[z]) /\ Frozen(kept[z])
  <2>1. CASE z = id
    BY <2>1, <1>3
  <2>2. CASE z # id
    <3>1. z \in DOMAIN cache
      BY <2>2, <1>2
    <3>2. kept[z] = cache[z]
      BY <3>1, <2>2, <1>4
    <3> QED
      BY <3>1, <3>2 DEF Cached
  <2> QED
    BY <2>1, <2>2
<1>7. Cached(kept)
  BY <1>5, <1>6 DEF Cached
<1> QED
  BY <1>7 DEF kept

LEMMA NothingFacts == DOMAIN Nothing = {}
BY DEF Nothing

\* Through a true cache one reads what is stored, but for the kind of a released state.
LEMMA GetFacts ==
    ASSUME NEW cache, Cached(cache), StoreIsTyped, NEW id \in Ids
    PROVE  /\ Get(cache, id) \in Revisions /\ Get(cache, id).of = id
           /\ Frozen(Get(cache, id))
           /\ Get(cache, id).version = db[id].version
           /\ IsDraft(Get(cache, id)) <=> IsDraft(db[id])
<1>1. CASE id \in DOMAIN cache
  BY <1>1 DEF Cached, Get, Frozen
<1>2. CASE id \notin DOMAIN cache
  BY <1>2 DEF StoreIsTyped, Get, Frozen
<1> QED
  BY <1>1, <1>2

LEMMA KeepIsTrue ==
    ASSUME NEW cache, Cached(cache), StoreIsTyped, NEW id \in Ids
    PROVE  Cached(Keep(cache, id))
<1>1. CASE id \in DOMAIN cache \/ ~Caching \/ db[id].state = "DRAFT"
  BY <1>1 DEF Keep
<1>2. CASE ~(id \in DOMAIN cache \/ ~Caching \/ db[id].state = "DRAFT")
  <2>1. Keep(cache, id) = Extended(cache, id, db[id])
    BY <1>2 DEF Keep
  <2>2. db[id] \in Revisions /\ db[id].of = id /\ ~IsDraft(db[id]) /\ Frozen(db[id])
    BY <1>2 DEF StoreIsTyped, IsDraft, Frozen
  <2>3. Cached(Extended(cache, id, db[id]))
    BY <2>2, ExtendedIsCached
  <2> QED
    BY <2>1, <2>3
<1> QED
  BY <1>1, <1>2

-----------------------------------------------------------------------------
(* What is written in between.                                             *)

\* No write takes a version back or changes what is no draft but for its state; what
\* becomes sound was a draft.
Advance ==
    /\ \A id \in Ids :
          /\ db[id].version <= db'[id].version
          /\ ~IsDraft(db[id]) => ~IsDraft(db'[id]) /\ db'[id].version = db[id].version
    /\ sound \subseteq sound' /\ \A id \in sound' \ sound : IsDraft(db[id])

StoreInv == StoreIsTyped /\ SoundUseSound /\ SoundAreFounded

\* One revision is overwritten with one of the same id.
Overwrites(id, new) ==
    new \in Revisions /\ new.of = id /\ db' = [db EXCEPT ![id] = new]

LEMMA Overwritten ==
    ASSUME StoreIsTyped, NEW id \in Ids, NEW new, Overwrites(id, new)
    PROVE  /\ StoreIsTyped'
           /\ db'[id] = new
           /\ \A other \in Ids : other # id => db'[other] = db[other]
BY DEF StoreIsTyped, Overwrites

LEMMA SaveAdvances ==
    ASSUME StoreInv, NEW id \in Ids, Save(id)
    PROVE  StoreInv' /\ Advance
<1> DEFINE new == [of |-> id, version |-> db[id].version + 1, state |-> db[id].state]
<1>1. db[id] \in Revisions /\ db[id].of = id /\ IsDraft(db[id])
  BY DEF StoreInv, StoreIsTyped, Save, IsDraft
<1>2. /\ db[id].version \in Nat /\ db[id].state \in States
      /\ \A other \in Ids : db[other].version \in Nat
  BY <1>1, RevisionFields DEF StoreInv, StoreIsTyped
<1>3. db[id].version + 1 \in 1 .. Len(Contents[id])
  <2>1. Len(Contents[id]) \in Nat
    BY ContentsAssumption
  <2> QED
    BY <1>2, <2>1 DEF Save
<1>4. new \in Revisions
  BY <1>2, <1>3, RevisionFromFields
<1>5. db' = [db EXCEPT ![id] = new]
  <2>1. db' = [db EXCEPT ![id] = [db[id] EXCEPT !.version = db[id].version + 1]]
    BY DEF Save
  <2>2. ASSUME NEW v
        PROVE  [db[id] EXCEPT !.version = v] = [of |-> id, version |-> v, state |-> db[id].state]
    <3>1. db[id] \in Revisions /\ db[id].of = id
      BY <1>1
    <3>2. [db[id] EXCEPT !.version = v]
            = [of |-> db[id].of, version |-> v, state |-> db[id].state]
      BY <3>1, RevisionMoved
    <3> QED
      BY <3>1, <3>2
  <2>3. [db[id] EXCEPT !.version = db[id].version + 1] = new
    BY <2>2
  <2> QED
    BY <2>1, <2>3
<1>6. new.of = id /\ new.version = db[id].version + 1 /\ IsDraft(new)
  BY <1>1 DEF IsDraft
<1> HIDE DEF new
<1>7. /\ StoreIsTyped' /\ db'[id] = new
      /\ \A other \in Ids : other # id => db'[other] = db[other]
  <2>1. StoreIsTyped /\ Overwrites(id, new)
    BY <1>4, <1>5, <1>6 DEF StoreInv, Overwrites
  <2> QED
    BY <2>1, Overwritten
<1>8. sound' = sound
  BY DEF Save
<1>9. Advance
  BY <1>1, <1>2, <1>6, <1>7, <1>8 DEF Advance
<1>10. \A other \in sound : other \in Ids /\ db'[other] = db[other]
  BY <1>1, <1>7 DEF StoreInv, SoundUseSound
<1>11. SoundUseSound' /\ SoundAreFounded'
  BY <1>8, <1>10 DEF StoreInv, SoundUseSound, SoundAreFounded
<1> QED
  BY <1>7, <1>9, <1>11 DEF StoreInv

LEMMA StateIsSet ==
    ASSUME StoreIsTyped, NEW id \in Ids, NEW s \in States \ {"DRAFT"},
           db' = [db EXCEPT ![id].state = s]
    PROVE  /\ StoreIsTyped'
           /\ \A other \in Ids :
                 /\ db[other].version <= db'[other].version
                 /\ ~IsDraft(db[other]) => ~IsDraft(db'[other]) /\ db'[other].version = db[other].version
           /\ ~IsDraft(db'[id]) /\ Uses(db'[id]) = Uses(db[id])
           /\ \A other \in Ids : other # id => db'[other] = db[other]
<1> DEFINE new == [of |-> id, version |-> db[id].version, state |-> s]
<1>1. db[id] \in Revisions /\ db[id].of = id
  BY DEF StoreIsTyped
<1>2. \A other \in Ids : db[other].version \in Nat
  BY RevisionFields DEF StoreIsTyped
<1>3. db[id].version \in 1 .. Len(Contents[id])
  BY <1>1, RevisionFields
<1>4. new \in Revisions
  BY <1>3, RevisionFromFields
<1>5. db' = [db EXCEPT ![id] = new]
  <2>1. db' = [db EXCEPT ![id] = [db[id] EXCEPT !.state = s]]
    OBVIOUS
  <2>2. [db[id] EXCEPT !.state = s]
          = [of |-> db[id].of, version |-> db[id].version, state |-> s]
    BY <1>1, RevisionReleased
  <2> QED
    BY <2>1, <2>2, <1>1
<1>6. new.of = id /\ new.version = db[id].version /\ ~IsDraft(new)
  BY DEF IsDraft
<1> HIDE DEF new
<1>7. /\ StoreIsTyped' /\ db'[id] = new
      /\ \A other \in Ids : other # id => db'[other] = db[other]
  <2>1. Overwrites(id, new)
    BY <1>4, <1>5, <1>6 DEF Overwrites
  <2> QED
    BY <2>1, Overwritten
<1>8. \A other \in Ids :
         /\ db[other].version <= db'[other].version
         /\ ~IsDraft(db[other]) => ~IsDraft(db'[other]) /\ db'[other].version = db[other].version
  BY <1>2, <1>6, <1>7
<1>9. Uses(db'[id]) = Uses(db[id])
  BY <1>1, <1>6, <1>7 DEF Uses
<1> QED
  BY <1>6, <1>7, <1>8, <1>9

LEMMA ReleaseAdvances ==
    ASSUME StoreInv, NEW id \in Ids, NEW v, Release(id, v)
    PROVE  StoreInv' /\ Advance
<1> USE DEF StoreInv
<1>1. /\ StoreIsTyped'
      /\ \A other \in Ids :
            /\ db[other].version <= db'[other].version
            /\ ~IsDraft(db[other]) => ~IsDraft(db'[other]) /\ db'[other].version = db[other].version
      /\ ~IsDraft(db'[id]) /\ Uses(db'[id]) = Uses(db[id])
      /\ \A other \in Ids : other # id => db'[other] = db[other]
  BY StateIsSet DEF Release, States
<1>2. IsDraft(db[id]) /\ id \notin sound
  BY DEF Release, IsDraft, SoundUseSound
<1>3. \/ sound' = sound
      \/ sound' = sound \cup {id} /\ Uses(db[id]) \subseteq sound
  BY DEF Release
<1>4. Advance
  BY <1>1, <1>2, <1>3 DEF Advance
<1>5. \A other \in sound' : other \in Ids /\ ~IsDraft(db'[other]) /\ Uses(db'[other]) = Uses(db[other])
  BY <1>1, <1>3 DEF SoundUseSound
<1>6. \A other \in sound' : Uses(db[other]) \subseteq sound
  BY <1>3 DEF SoundUseSound
<1>7. SoundUseSound'
  BY <1>3, <1>5, <1>6 DEF SoundUseSound
<1>8. SoundAreFounded'
  <2> SUFFICES ASSUME NEW S \in (SUBSET sound') \ {{}},
                      \A c \in S : \E d \in S : d \in Uses(db'[c])
               PROVE  FALSE
    BY DEF SoundAreFounded
  <2>1. \A c \in S : Uses(db'[c]) = Uses(db[c]) /\ Uses(db[c]) \subseteq sound
    BY <1>5, <1>6
  <2>2. \A c \in S : id \notin Uses(db[c])
    BY <2>1, <1>2
  <2>3. \A c \in S \ {id} : \E d \in S \ {id} : d \in Uses(db[c])
    BY <2>1, <2>2
  <2>4. S \ {id} # {}
    <3>1. PICK c \in S : TRUE
      OBVIOUS
    <3>2. PICK d \in S : d \in Uses(db[c])
      BY <2>1
    <3> QED
      BY <3>2, <2>2
  <2>5. S \ {id} \in SUBSET sound
    BY <1>3
  <2> QED
    BY <2>3, <2>4, <2>5 DEF SoundAreFounded
<1> QED
  BY <1>1, <1>4, <1>7, <1>8

LEMMA DeprecateAdvances ==
    ASSUME StoreInv, NEW id \in Ids, NEW v, Deprecate(id, v)
    PROVE  StoreInv' /\ Advance
<1> USE DEF StoreInv
<1>1. /\ StoreIsTyped'
      /\ \A other \in Ids :
            /\ db[other].version <= db'[other].version
            /\ ~IsDraft(db[other]) => ~IsDraft(db'[other]) /\ db'[other].version = db[other].version
      /\ ~IsDraft(db'[id]) /\ Uses(db'[id]) = Uses(db[id])
      /\ \A other \in Ids : other # id => db'[other] = db[other]
  BY StateIsSet DEF Deprecate, States
<1>2. sound' = sound
  BY DEF Deprecate
<1>3. \A other \in sound : other \in Ids /\ ~IsDraft(db'[other]) /\ Uses(db'[other]) = Uses(db[other])
  BY <1>1 DEF SoundUseSound
<1>4. SoundUseSound' /\ SoundAreFounded'
  BY <1>2, <1>3 DEF SoundUseSound, SoundAreFounded
<1> QED
  BY <1>1, <1>2, <1>4 DEF Advance

-----------------------------------------------------------------------------
(* What is read.                                                           *)

LEMMA CacheIsRead ==
    ASSUME NEW cache, Cached(cache), StoreIsTyped, RequestIsPast,
           NEW c \in Components, SoundUseSound, SoundRoot => c \in sound
    PROVE  IsRead(Get(cache, c), c)
<1>1. c \in Ids
  BY CodesAreRevisions
<1>2. /\ Get(cache, c) \in Codes /\ Get(cache, c).of = c /\ Frozen(Get(cache, c))
      /\ Get(cache, c).version = db[c].version
      /\ IsDraft(Get(cache, c)) <=> IsDraft(db[c])
  BY <1>1, GetFacts, CodesAreRevisions
<1> QED
  BY <1>1, <1>2 DEF IsRead, RequestIsPast, SoundUseSound

LEMMA ExtendedIsRead ==
    ASSUME NEW f, AllRead(f), NEW c \in Components, NEW rev, IsRead(rev, c)
    PROVE  AllRead(Extended(f, c, rev))
<1> DEFINE g == Extended(f, c, rev)
<1>1. /\ DOMAIN g = DOMAIN f \cup {c} /\ g[c] = rev
      /\ \A z \in DOMAIN f : z # c => g[z] = f[z]
  BY DEF Extended
<1> HIDE DEF g
<1>2. AllRead(g)
  BY <1>1 DEF AllRead
<1> QED
  BY <1>2 DEF g

\* Where nothing is a draft that the root depends on, what was read uses what is stored.
LEMMA FrozenUses ==
    ASSUME StoreIsTyped, NEW rev \in Revisions, Frozen(rev), ~IsDraft(rev)
    PROVE  rev.of \in Ids /\ ~IsDraft(db[rev.of]) /\ Uses(rev) = Uses(db[rev.of])
<1>1. rev.of \in Ids
  BY RevisionFields
<1>2. ~IsDraft(db[rev.of]) /\ db[rev.of].version = rev.version /\ db[rev.of].of = rev.of
  BY <1>1 DEF Frozen, StoreIsTyped
<1> QED
  BY <1>1, <1>2, SameUses

LEMMA UsesOfSound ==
    ASSUME StoreIsTyped, SoundUseSound, NEW rev \in Revisions, Frozen(rev), ~IsDraft(rev),
           rev.of \in sound, NEW c \in Uses(rev)
    PROVE  c \in sound /\ ~IsDraft(db[c])
BY FrozenUses DEF SoundUseSound

-----------------------------------------------------------------------------
(* Steps that leave parts of the invariant alone.                          *)

LEMMA StoreStays ==
    ASSUME StoreInv, db' = db, sound' = sound
    PROVE  StoreInv'
BY DEF StoreInv, StoreIsTyped, SoundUseSound, SoundAreFounded

LEMMA CachesStay ==
    ASSUME CachesAreTrue, db' = db, UNCHANGED caches
    PROVE  CachesAreTrue'
BY DEF CachesAreTrue, Cached, Frozen, caches

LEMMA ModulesStay ==
    ASSUME ModulesAreTrue, db' = db, modules' = modules, disturbed' = disturbed,
           sound' = sound
    PROVE  ModulesAreTrue'
BY DEF ModulesAreTrue, Frozen

LEMMA StackStays ==
    ASSUME StackIsAChain, UNCHANGED loadVars
    PROVE  StackIsAChain'
BY DEF StackIsAChain, Registered, loadVars

LEMMA EmptyStackIsAChain ==
    ASSUME importing' = <<>>
    PROVE  StackIsAChain'
<1>1. Len(importing') = 0 /\ importing' \in Seq(Frames)
  BY DEF Frames
<1> QED
  BY <1>1 DEF StackIsAChain

LEMMA RequestStays ==
    ASSUME RequestIsPast, RootIsRead, UNCHANGED <<db, asked, root, sound>>
    PROVE  /\ RequestIsPast' /\ RootIsRead' /\ Nodes' = Nodes
           /\ ReleasedRoot' <=> ReleasedRoot
           /\ SoundRoot' <=> SoundRoot
BY DEF RequestIsPast, RootIsRead, Frozen, ReleasedRoot, SoundRoot, Nodes

LEMMA ReadStays ==
    ASSUME UNCHANGED <<db, asked, root, disturbed, sound>>
    PROVE  /\ AllRead(nested) /\ nested' = nested => AllRead(nested)'
           /\ AllRead(imported) /\ imported' = imported => AllRead(imported)'
           /\ AllRead(provided) /\ provided' = provided => AllRead(provided)'
BY DEF AllRead, IsRead, Frozen, ReleasedRoot, SoundRoot

LEMMA NothingIsRead ==
    /\ nested' = Nothing => AllRead(nested)'
    /\ imported' = Nothing => AllRead(imported)'
    /\ provided' = Nothing => AllRead(provided)'
BY NothingFacts DEF AllRead

-----------------------------------------------------------------------------
(* The steps of the execution in the backend.                              *)

LEMMA WriteKeepsInv ==
    ASSUME ExecutionInv, Advance, StoreInv', Write
    PROVE  ExecutionInv'
<1> USE DEF ExecutionInv, Write, caches, execution, loadVars
<1>1. phase \in {"idle", "nestings", "nested", "imports"} /\ outcome = "none"
  BY DEF Preparing, PhasesAgree
<1>2. CachesAreTrue'
  BY DEF CachesAreTrue, Cached, Frozen, Advance
<1>3. PhasesAgree'
  BY <1>1 DEF PhasesAgree, ReleasedRoot, Nodes
<1>4. ExecutionIsRead'
  <2> SUFFICES ASSUME phase # "idle"
               PROVE  ExecutionIsRead'
    BY DEF ExecutionIsRead
  <2>1. disturbed' = TRUE
    BY <1>1 DEF Preparing
  <2>2. RequestIsPast'
    <3>1. \A id \in Ids : asked[id].version \in Nat /\ db[id].version \in Nat /\ db'[id].version \in Nat
      BY RevisionFields DEF ExecutionIsRead, RequestIsPast, StoreInv, StoreIsTyped
    <3> QED
      BY <3>1 DEF ExecutionIsRead, RequestIsPast, Frozen, Advance
  <2> /\ SoundRoot' => SoundRoot
      /\ sound \subseteq sound'
    <3>1. root.of \in Ids /\ asked[root.of].of = root.of /\ Frozen(asked[root.of])
      BY DEF ExecutionIsRead, RootIsRead, RequestIsPast
    <3> QED
      BY <3>1 DEF SoundRoot, ReleasedRoot, Advance, Frozen
  <2>3. RootIsRead'
    BY DEF ExecutionIsRead, RootIsRead, Frozen, Advance, ReleasedRoot
  <2>4. AllRead(nested)' /\ AllRead(imported)' /\ AllRead(provided)'
    BY <2>1, CodesAreRevisions
    DEF ExecutionIsRead, AllRead, IsRead, Frozen, Advance, ReleasedRoot
  <2> QED
    BY <2>2, <2>3, <2>4 DEF ExecutionIsRead
<1>5. InputIsComplete'
  BY <1>1 DEF InputIsComplete
<1>6. StackIsAChain'
  BY StackStays
<1>7. ModulesAreTrue'
  BY CodesAreRevisions, RevisionFields DEF ModulesAreTrue, Frozen, Advance
<1>8. disturbed' \in BOOLEAN
  BY DEF Preparing
<1> QED
  BY <1>2, <1>3, <1>4, <1>5, <1>6, <1>7, <1>8 DEF StoreInv

LEMMA BeginKeepsInv ==
    ASSUME ExecutionInv, NEW id \in Ids, Begin(id)
    PROVE  ExecutionInv'
<1> USE DEF ExecutionInv, loadVars
<1> DEFINE got == Get(rootCache, id)
<1>1. /\ db' = db /\ root' = got /\ asked' = db /\ rootCache' = Keep(rootCache, id)
      /\ nestedCache' = nestedCache /\ importCache' = importCache
      /\ rows' = rows /\ imported' = imported /\ outcome' = outcome
      /\ disturbed' = disturbed /\ sound' = sound
      /\ provided' = provided /\ toLoad' = toLoad /\ importing' = importing /\ modules' = modules
  BY DEF Begin
<1>2. /\ phase = "idle" /\ rows = {} /\ imported = Nothing /\ provided = Nothing
      /\ toLoad = {} /\ importing = <<>> /\ outcome = "none"
  BY DEF Begin, PhasesAgree
<1>3. \/ id \in Workflows /\ phase' = "nestings" /\ nested' = Nothing
      \/ id \notin Workflows /\ phase' = "imports" /\ nested' = [c \in {id} |-> got]
  BY DEF Begin, Wrapped
<1>4. /\ got \in Revisions /\ got.of = id /\ Frozen(got)
      /\ got.version = db[id].version
      /\ IsDraft(got) <=> IsDraft(db[id])
  BY GetFacts DEF CachesAreTrue
<1>5. \A other \in Ids : db[other].version \in Nat
  BY RevisionFields DEF StoreIsTyped
<1> HIDE DEF got
<1>6. StoreInv'
  BY <1>1, StoreStays DEF StoreInv
<1>7. CachesAreTrue'
  <2>1. Cached(Keep(rootCache, id))
    BY KeepIsTrue DEF CachesAreTrue
  <2> QED
    BY <2>1, <1>1 DEF CachesAreTrue, Cached, Frozen
<1>8. PhasesAgree'
  <2>1. CASE id \in Workflows
    BY <2>1, <1>1, <1>2, <1>3, <1>4 DEF PhasesAgree
  <2>2. CASE id \notin Workflows
    <3>1. Nodes' = {id} /\ DOMAIN nested' = {id}
      BY <2>2, <1>1, <1>3, <1>4 DEF Nodes, Wrapped
    <3> QED
      BY <3>1, <2>2, <1>1, <1>2, <1>3 DEF PhasesAgree
  <2> QED
    BY <2>1, <2>2
<1>9. ExecutionIsRead'
  <2>1. RequestIsPast'
    BY <1>1, <1>5 DEF RequestIsPast, Frozen, StoreIsTyped
  <2>2. RootIsRead'
    BY <1>1, <1>4, <1>5 DEF RootIsRead, Frozen, ReleasedRoot
  <2>3. AllRead(imported)' /\ AllRead(provided)'
    BY <1>1, <1>2, NothingIsRead
  <2>4. AllRead(nested)'
    <3>1. CASE id \in Workflows
      BY <3>1, <1>3, NothingIsRead
    <3>2. CASE id \notin Workflows
      <4>1. id \in Components /\ got \in Codes
        BY <3>2, <1>4, CodesAreRevisions DEF Ids
      <4>2. nested' = [c \in {id} |-> got]
        BY <3>2, <1>3
      <4>3. DOMAIN nested' = {id} /\ nested'[id] = got
        BY <4>2
      <4> QED
        BY <4>1, <4>3, <1>1, <1>4, <1>5 DEF AllRead, IsRead, Frozen, ReleasedRoot, SoundRoot
    <3> QED
      BY <3>1, <3>2
  <2> QED
    BY <2>1, <2>2, <2>3, <2>4 DEF ExecutionIsRead
<1>10. InputIsComplete'
  BY <1>1, <1>2, <1>3 DEF InputIsComplete
<1>11. StackIsAChain' /\ ModulesAreTrue'
  BY <1>1, StackStays, ModulesStay
<1> QED
  BY <1>1, <1>6, <1>7, <1>8, <1>9, <1>10, <1>11 DEF StoreInv

LEMMA ReadNestingsKeepsInv ==
    ASSUME ExecutionInv, ReadNestings
    PROVE  ExecutionInv'
<1> USE DEF ExecutionInv, loadVars, caches
<1>1. /\ UNCHANGED <<db, caches, root, nested, imported, asked, outcome, disturbed, sound, loadVars>>
      /\ phase = "nestings" /\ phase' = "nested" /\ rows' = Uses(db[root.of])
  BY DEF ReadNestings
<1>2. RequestIsPast /\ RootIsRead /\ AllRead(nested) /\ AllRead(imported) /\ AllRead(provided)
  BY <1>1 DEF ExecutionIsRead
<1>3. StoreInv' /\ CachesAreTrue' /\ StackIsAChain' /\ ModulesAreTrue'
  BY <1>1, StoreStays, CachesStay, StackStays, ModulesStay DEF StoreInv
<1>4. ExecutionIsRead' /\ (ReleasedRoot' <=> ReleasedRoot) /\ (SoundRoot' <=> SoundRoot)
  BY <1>1, <1>2, RequestStays, ReadStays DEF ExecutionIsRead
<1>5. rows' \subseteq Components
  BY <1>1, <1>2, RevisionFields DEF RootIsRead, StoreIsTyped
<1>6. ReleasedRoot => rows' = Uses(root)
  BY <1>1, <1>2, FrozenUses DEF RootIsRead
<1>7. PhasesAgree'
  BY <1>1, <1>4, <1>5, <1>6, NothingFacts DEF PhasesAgree
<1>8. InputIsComplete'
  BY <1>1 DEF InputIsComplete, PhasesAgree
<1> QED
  BY <1>1, <1>3, <1>4, <1>7, <1>8 DEF StoreInv

LEMMA ReadNestedKeepsInv ==
    ASSUME ExecutionInv, NEW c \in Components, ReadNested(c)
    PROVE  ExecutionInv'
<1> USE DEF ExecutionInv, loadVars
<1>1. /\ UNCHANGED <<db, rootCache, importCache, phase, root, rows, imported, asked, outcome,
                     disturbed, sound, loadVars>>
      /\ phase = "nested" /\ c \in rows
      /\ nested' = Extended(nested, c, Get(nestedCache, c)) /\ nestedCache' = Keep(nestedCache, c)
  BY DEF ReadNested
<1>2. RequestIsPast /\ RootIsRead /\ AllRead(nested) /\ AllRead(imported) /\ AllRead(provided)
  BY <1>1 DEF ExecutionIsRead
<1>3. StoreInv' /\ StackIsAChain' /\ ModulesAreTrue'
  BY <1>1, StoreStays, StackStays, ModulesStay DEF StoreInv
<1>4. CachesAreTrue'
  <2>1. Cached(Keep(nestedCache, c))
    BY KeepIsTrue, CodesAreRevisions DEF CachesAreTrue
  <2> QED
    BY <2>1, <1>1 DEF CachesAreTrue, Cached, Frozen
<1>5. SoundRoot => c \in sound
  BY <1>1, <1>2, UsesOfSound DEF PhasesAgree, RootIsRead, SoundRoot
<1>6. AllRead(Extended(nested, c, Get(nestedCache, c)))
  BY <1>2, <1>5, CacheIsRead, ExtendedIsRead DEF CachesAreTrue
<1>7. AllRead(nested)'
  <2> DEFINE now == Extended(nested, c, Get(nestedCache, c))
  <2>1. nested' = now /\ AllRead(now)
    BY <1>1, <1>6
  <2> HIDE DEF now
  <2> QED
    BY <2>1, <1>1 DEF AllRead, IsRead, Frozen, ReleasedRoot, SoundRoot
<1>8. ExecutionIsRead' /\ (ReleasedRoot' <=> ReleasedRoot) /\ (SoundRoot' <=> SoundRoot)
  BY <1>1, <1>2, <1>7, RequestStays, ReadStays DEF ExecutionIsRead
<1>9. PhasesAgree'
  <2>1. DOMAIN nested' = DOMAIN nested \cup {c}
    BY <1>1 DEF Extended
  <2> QED
    BY <2>1, <1>1, <1>8 DEF PhasesAgree
<1>10. InputIsComplete'
  BY <1>1 DEF InputIsComplete, PhasesAgree
<1> QED
  BY <1>1, <1>3, <1>4, <1>8, <1>9, <1>10 DEF StoreInv

LEMMA BuildNodesKeepsInv ==
    ASSUME ExecutionInv, BuildNodes
    PROVE  ExecutionInv'
<1> USE DEF ExecutionInv, loadVars, caches
<1>1. /\ UNCHANGED <<db, caches, root, rows, nested, imported, asked, disturbed, sound, loadVars>>
      /\ phase = "nested" /\ rows = DOMAIN nested
      /\ \/ Uses(root) \subseteq rows /\ phase' = "imports" /\ outcome' = outcome
         \/ ~(Uses(root) \subseteq rows) /\ phase' = "done" /\ outcome' = "integrity"
  BY DEF BuildNodes
<1>2. RequestIsPast /\ RootIsRead /\ AllRead(nested) /\ AllRead(imported) /\ AllRead(provided)
  BY <1>1 DEF ExecutionIsRead
<1>3. StoreInv' /\ CachesAreTrue' /\ StackIsAChain' /\ ModulesAreTrue'
  BY <1>1, StoreStays, CachesStay, StackStays, ModulesStay DEF StoreInv
<1>4. ExecutionIsRead' /\ (ReleasedRoot' <=> ReleasedRoot) /\ (SoundRoot' <=> SoundRoot) /\ Nodes' = Nodes
  BY <1>1, <1>2, RequestStays, ReadStays DEF ExecutionIsRead
<1>5. Nodes = Uses(root)
  BY <1>1 DEF Nodes, PhasesAgree
<1>6. PhasesAgree'
  BY <1>1, <1>4, <1>5 DEF PhasesAgree, SoundRoot
<1>7. InputIsComplete'
  BY <1>1 DEF InputIsComplete, PhasesAgree
<1> QED
  BY <1>1, <1>3, <1>4, <1>6, <1>7 DEF StoreInv

LEMMA ReadImportKeepsInv ==
    ASSUME ExecutionInv, NEW c \in Components, ReadImport(c)
    PROVE  ExecutionInv'
<1> USE DEF ExecutionInv, loadVars
<1>1. /\ UNCHANGED <<db, rootCache, nestedCache, phase, root, rows, nested, asked, outcome,
                     disturbed, sound, loadVars>>
      /\ phase = "imports" /\ c \in Wanted
      /\ imported' = Extended(imported, c, Get(importCache, c)) /\ importCache' = Keep(importCache, c)
  BY DEF ReadImport
<1>2. RequestIsPast /\ RootIsRead /\ AllRead(nested) /\ AllRead(imported) /\ AllRead(provided)
  BY <1>1 DEF ExecutionIsRead
<1>3. StoreInv' /\ StackIsAChain' /\ ModulesAreTrue'
  BY <1>1, StoreStays, StackStays, ModulesStay DEF StoreInv
<1>4. CachesAreTrue'
  <2>1. Cached(Keep(importCache, c))
    BY KeepIsTrue, CodesAreRevisions DEF CachesAreTrue
  <2> QED
    BY <2>1, <1>1 DEF CachesAreTrue, Cached, Frozen
<1>5. SoundRoot => c \in sound
  <2>1. \/ \E d \in DOMAIN nested : c \in Uses(nested[d])
        \/ \E d \in DOMAIN imported : c \in Uses(imported[d])
    BY <1>1 DEF Wanted
  <2>2. PICK rev : c \in Uses(rev) /\ \E d : IsRead(rev, d)
    BY <2>1, <1>2 DEF AllRead
  <2>3. rev \in Revisions /\ Frozen(rev) /\ (SoundRoot => rev.of \in sound /\ ~IsDraft(rev))
    BY <2>2, CodesAreRevisions DEF IsRead
  <2> QED
    BY <2>2, <2>3, UsesOfSound
<1>6. AllRead(Extended(imported, c, Get(importCache, c)))
  BY <1>2, <1>5, CacheIsRead, ExtendedIsRead DEF CachesAreTrue
<1>7. AllRead(imported)'
  <2> DEFINE now == Extended(imported, c, Get(importCache, c))
  <2>1. imported' = now /\ AllRead(now)
    BY <1>1, <1>6
  <2> HIDE DEF now
  <2> QED
    BY <2>1, <1>1 DEF AllRead, IsRead, Frozen, ReleasedRoot, SoundRoot
<1>8. ExecutionIsRead' /\ (ReleasedRoot' <=> ReleasedRoot) /\ (SoundRoot' <=> SoundRoot) /\ Nodes' = Nodes
  BY <1>1, <1>2, <1>7, RequestStays, ReadStays DEF ExecutionIsRead
<1>9. PhasesAgree'
  BY <1>1, <1>8 DEF PhasesAgree
<1>10. InputIsComplete'
  BY <1>1 DEF InputIsComplete, PhasesAgree
<1> QED
  BY <1>1, <1>3, <1>4, <1>8, <1>9, <1>10 DEF StoreInv

LEMMA CallRuntimeKeepsInv ==
    ASSUME ExecutionInv, CallRuntime
    PROVE  ExecutionInv'
<1> USE DEF ExecutionInv, caches
<1> DEFINE input == [c \in DOMAIN nested \cup DOMAIN imported |->
                        IF c \in DOMAIN imported THEN imported[c] ELSE nested[c]]
<1>1. /\ UNCHANGED <<db, caches, root, asked, outcome, disturbed, sound, importing, modules>>
      /\ phase = "imports" /\ Wanted = {} /\ phase' = "runtime"
      /\ provided' = input /\ toLoad' = Nodes
      /\ rows' = {} /\ nested' = Nothing /\ imported' = Nothing
  BY DEF CallRuntime
<1>2. RequestIsPast /\ RootIsRead /\ AllRead(nested) /\ AllRead(imported)
  BY <1>1 DEF ExecutionIsRead
<1>3. /\ DOMAIN input = DOMAIN nested \cup DOMAIN imported
      /\ \A c \in DOMAIN input :
            \/ c \in DOMAIN imported /\ input[c] = imported[c]
            \/ c \in DOMAIN nested /\ input[c] = nested[c]
  OBVIOUS
<1> HIDE DEF input
<1>4. importing' = <<>> /\ outcome = "none"
  BY <1>1 DEF PhasesAgree
<1>5. StoreInv' /\ CachesAreTrue' /\ StackIsAChain' /\ ModulesAreTrue'
  BY <1>1, <1>4, StoreStays, CachesStay, EmptyStackIsAChain, ModulesStay DEF StoreInv
<1>6. AllRead(input)
  BY <1>2, <1>3 DEF AllRead
<1>7. AllRead(provided)'
  BY <1>1, <1>6 DEF AllRead, IsRead, Frozen, ReleasedRoot, SoundRoot
<1>8. ExecutionIsRead' /\ (ReleasedRoot' <=> ReleasedRoot) /\ (SoundRoot' <=> SoundRoot) /\ Nodes' = Nodes
  BY <1>1, <1>2, <1>7, RequestStays, NothingIsRead DEF ExecutionIsRead
<1>9. PhasesAgree'
  BY <1>1, <1>4 DEF PhasesAgree
<1>10. InputIsComplete'
  <2>1. Nodes' \subseteq DOMAIN input
    BY <1>1, <1>3, <1>8 DEF PhasesAgree
  <2>2. \A c \in DOMAIN input : Uses(input[c]) \subseteq DOMAIN input
    BY <1>1, <1>3 DEF Wanted
  <2> QED
    BY <1>1, <1>8, <2>1, <2>2 DEF InputIsComplete
<1> QED
  BY <1>1, <1>5, <1>8, <1>9, <1>10 DEF StoreInv

-----------------------------------------------------------------------------
(* The steps of the runtime.                                               *)

LEMMA EmptyBinding == Nothing \in Bindings
<1>1. Nothing \in [{} -> Codes]
  BY DEF Nothing
<1> QED
  BY <1>1 DEF Bindings

LEMMA FrameFields ==
    ASSUME NEW c \in Components, NEW f \in Bindings
    PROVE  /\ [of |-> c, bound |-> f] \in Frames
           /\ [of |-> c, bound |-> f].of = c /\ [of |-> c, bound |-> f].bound = f
BY DEF Frames

LEMMA FieldsOfFrame ==
    ASSUME NEW e \in Frames
    PROVE  /\ e.of \in Components /\ e.bound \in Bindings
           /\ DOMAIN e.bound \subseteq Components
           /\ \A c \in DOMAIN e.bound : e.bound[c] \in Codes
<1>1. e.of \in Components /\ e.bound \in Bindings
  BY DEF Frames
<1>2. PICK S \in SUBSET Components : e.bound \in [S -> Codes]
  BY <1>1 DEF Bindings
<1> QED
  BY <1>1, <1>2

LEMMA ExtendedBinding ==
    ASSUME NEW f \in Bindings, NEW c \in Components, NEW code \in Codes
    PROVE  Extended(f, c, code) \in Bindings
<1>1. PICK S \in SUBSET Components : f \in [S -> Codes]
  BY DEF Bindings
<1>2. Extended(f, c, code) \in [S \cup {c} -> Codes]
  BY <1>1 DEF Extended
<1> QED
  BY <1>1, <1>2 DEF Bindings

\* The last of the components being imported gets hold of a module.
BindTop(s, c, code) == [s EXCEPT ![Len(s)].bound = Extended(@, c, code)]

LEMMA TopIsBound ==
    ASSUME NEW s \in Seq(Frames), s # <<>>, NEW c \in Components, NEW code \in Codes,
           NEW t, t = BindTop(s, c, code)
    PROVE  /\ t \in Seq(Frames) /\ Len(t) = Len(s)
           /\ \A i \in 1 .. Len(s) : t[i].of = s[i].of
           /\ \A i \in 1 .. Len(s) : i # Len(s) => t[i] = s[i]
           /\ t[Len(s)].bound = Extended(s[Len(s)].bound, c, code)
<1> DEFINE n == Len(s)
           e == [of |-> s[n].of, bound |-> Extended(s[n].bound, c, code)]
<1>1. n \in Nat /\ n # 0 /\ n \in 1 .. Len(s) /\ s[n] \in Frames /\ DOMAIN s = 1 .. Len(s)
  OBVIOUS
<1>2. e \in Frames /\ e.of = s[n].of /\ e.bound = Extended(s[n].bound, c, code)
  BY <1>1, FieldsOfFrame, ExtendedBinding DEF Frames
<1>3. [s[n] EXCEPT !.bound = Extended(s[n].bound, c, code)] = e
  BY <1>1 DEF Frames
<1>4. t = [s EXCEPT ![n] = e]
  <2>1. t = [s EXCEPT ![n] = [s[n] EXCEPT !.bound = Extended(s[n].bound, c, code)]]
    BY DEF BindTop
  <2> QED
    BY <2>1, <1>3
<1> HIDE DEF e
<1>5. t \in Seq(Frames) /\ Len(t) = Len(s)
  BY <1>1, <1>2, <1>4
<1>6. t[n] = e /\ \A i \in 1 .. Len(s) : i # n => t[i] = s[i]
  BY <1>1, <1>4
<1> QED
  BY <1>1, <1>2, <1>5, <1>6

LEMMA FrontFacts ==
    ASSUME NEW s \in Seq(Frames), s # <<>>
    PROVE  /\ Front(s) \in Seq(Frames) /\ Len(Front(s)) = Len(s) - 1
           /\ \A i \in 1 .. Len(s) - 1 : Front(s)[i] = s[i]
<1>1. Len(s) \in Nat /\ Len(s) # 0 /\ \A i \in 1 .. Len(s) : s[i] \in Frames
  OBVIOUS
<1>2. SubSeq(s, 1, Len(s) - 1) = [i \in 1 .. Len(s) - 1 |-> s[i]]
  BY <1>1
<1> DEFINE k == Len(s) - 1
           f == [i \in 1 .. k |-> s[i]]
<1>3. k \in Nat /\ f \in [1 .. k -> Frames] /\ DOMAIN f = 1 .. k
      /\ \A i \in 1 .. k : f[i] = s[i]
  BY <1>1
<1>4. Front(s) = f
  BY <1>2 DEF Front
<1> HIDE DEF f
<1>5. f \in Seq(Frames) /\ Len(f) = k
  BY <1>3
<1> QED
  BY <1>3, <1>4, <1>5

\* The component on top is handed to the one below.
\* t is what remains of the stack s, x bound to code in its new top.
IsPopped(t, s, x, code) ==
    /\ t \in Seq(Frames) /\ Len(t) = Len(s) - 1 /\ Len(t) \in Nat /\ Len(t) \in 1 .. Len(t)
    /\ \A i \in 1 .. Len(t) : t[i].of = s[i].of
    /\ \A i \in 1 .. Len(t) : i # Len(t) => t[i] = s[i]
    /\ t[Len(t)].bound = Extended(s[Len(t)].bound, x, code)

LEMMA StackIsPopped ==
    ASSUME NEW s \in Seq(Frames), s # <<>>, Front(s) # <<>>,
           NEW x \in Components, NEW code \in Codes, NEW t, t = BindTop(Front(s), x, code)
    PROVE  IsPopped(t, s, x, code)
<1> PICK rest : rest = Front(s)
  OBVIOUS
<1>1. /\ rest \in Seq(Frames) /\ Len(rest) = Len(s) - 1
      /\ \A i \in 1 .. Len(s) - 1 : rest[i] = s[i]
  BY FrontFacts
<1>2. rest \in Seq(Frames) /\ rest # <<>> /\ t = BindTop(rest, x, code)
  BY <1>1
<1>3. t \in Seq(Frames) /\ Len(t) = Len(rest)
  BY <1>2, TopIsBound
<1>4. \A i \in 1 .. Len(rest) : t[i].of = rest[i].of
  BY <1>2, TopIsBound
<1>5. \A i \in 1 .. Len(rest) : i # Len(rest) => t[i] = rest[i]
  BY <1>2, TopIsBound
<1>6. t[Len(rest)].bound = Extended(rest[Len(rest)].bound, x, code)
  BY <1>2, TopIsBound
<1>7. Len(rest) \in Nat /\ Len(rest) # 0
  BY <1>2
<1>8. Len(t) = Len(s) - 1 /\ Len(t) \in Nat /\ Len(t) \in 1 .. Len(t)
  BY <1>1, <1>3, <1>7
<1>9. \A i \in 1 .. Len(t) : t[i].of = s[i].of
  BY <1>1, <1>3, <1>4
<1>10. \A i \in 1 .. Len(t) : i # Len(t) => t[i] = s[i]
  BY <1>1, <1>3, <1>5
<1>11. t[Len(t)].bound = Extended(s[Len(t)].bound, x, code)
  BY <1>1, <1>3, <1>6, <1>8
<1> QED
  BY <1>3, <1>8, <1>9, <1>10, <1>11 DEF IsPopped

\* What no step of the runtime changes.
LEMMA RuntimeFrame ==
    ASSUME ExecutionInv, phase = "runtime", UNCHANGED <<db, caches, execution, disturbed, sound, provided>>
    PROVE  /\ StoreInv' /\ CachesAreTrue' /\ PhasesAgree' /\ ExecutionIsRead'
           /\ Nodes' = Nodes /\ disturbed' \in BOOLEAN
<1> USE DEF ExecutionInv, execution
<1>1. RequestIsPast /\ RootIsRead /\ AllRead(nested) /\ AllRead(imported) /\ AllRead(provided)
  BY DEF ExecutionIsRead
<1>2. StoreInv' /\ CachesAreTrue'
  BY StoreStays, CachesStay DEF StoreInv
<1>3. ExecutionIsRead' /\ (ReleasedRoot' <=> ReleasedRoot) /\ (SoundRoot' <=> SoundRoot) /\ Nodes' = Nodes
  BY <1>1, RequestStays, ReadStays DEF ExecutionIsRead
<1>4. PhasesAgree'
  BY <1>3 DEF PhasesAgree
<1> QED
  BY <1>2, <1>3, <1>4

LEMMA RuntimeInput ==
    ASSUME ExecutionInv, phase = "runtime"
    PROVE  /\ RequestIsPast /\ RootIsRead /\ AllRead(provided)
           /\ Nodes \subseteq DOMAIN provided /\ toLoad \subseteq Nodes
           /\ \A c \in DOMAIN provided :
                 /\ c \in Components /\ provided[c] \in Codes /\ provided[c].of = c
                 /\ Uses(provided[c]) \subseteq DOMAIN provided
           /\ \A c \in Nodes \ toLoad : Registered(c)
BY DEF ExecutionInv, ExecutionIsRead, InputIsComplete, AllRead, IsRead

LEMMA LoadKnownKeepsInv ==
    ASSUME ExecutionInv, phase = "runtime", UNCHANGED <<db, caches, execution, disturbed, sound>>,
           NEW c \in Components, LoadKnown(c)
    PROVE  ExecutionInv'
<1> USE DEF ExecutionInv
<1>1. /\ importing = <<>> /\ Registered(c) /\ toLoad' = toLoad \ {c}
      /\ UNCHANGED <<provided, importing, modules>>
  BY DEF LoadKnown, Registered
<1>2. /\ StoreInv' /\ CachesAreTrue' /\ PhasesAgree' /\ ExecutionIsRead'
      /\ Nodes' = Nodes /\ disturbed' \in BOOLEAN
  BY <1>1, RuntimeFrame
<1>3. StackIsAChain' /\ ModulesAreTrue'
  BY <1>1, EmptyStackIsAChain, ModulesStay
<1>4. InputIsComplete'
  BY <1>1, <1>2 DEF InputIsComplete, Registered
<1> QED
  BY <1>2, <1>3, <1>4 DEF StoreInv

LEMMA LoadNewKeepsInv ==
    ASSUME ExecutionInv, phase = "runtime", UNCHANGED <<db, caches, execution, disturbed, sound>>,
           NEW c \in Components, LoadNew(c)
    PROVE  ExecutionInv'
<1> USE DEF ExecutionInv
<1> DEFINE e == [of |-> c, bound |-> Nothing]
<1>1. /\ c \in toLoad /\ importing' = <<e>> /\ UNCHANGED <<provided, toLoad, modules>>
  BY DEF LoadNew
<1>2. /\ StoreInv' /\ CachesAreTrue' /\ PhasesAgree' /\ ExecutionIsRead'
      /\ Nodes' = Nodes /\ disturbed' \in BOOLEAN
  BY <1>1, RuntimeFrame
<1>3. e \in Frames /\ e.of = c /\ DOMAIN e.bound = {}
  BY FrameFields, EmptyBinding, NothingFacts
<1>4. c \in DOMAIN provided
  BY <1>1, RuntimeInput
<1> HIDE DEF e
<1>5. StackIsAChain'
  <2>1. importing' \in Seq(Frames) /\ Len(importing') = 1 /\ importing'[1] = e
    BY <1>1, <1>3
  <2>2. importing'[1].of \in toLoad'
    BY <2>1, <1>1, <1>3
  <2> QED
    BY <2>1, <2>2, <1>1, <1>3, <1>4 DEF StackIsAChain
<1>6. ModulesAreTrue' /\ InputIsComplete'
  BY <1>1, <1>2, ModulesStay DEF InputIsComplete, Registered, execution
<1> QED
  BY <1>2, <1>5, <1>6 DEF StoreInv

LEMMA ImportKnownKeepsInv ==
    ASSUME ExecutionInv, phase = "runtime", UNCHANGED <<db, caches, execution, disturbed, sound>>,
           NEW c \in Components, ImportKnown(c)
    PROVE  ExecutionInv'
<1> USE DEF ExecutionInv
<1> DEFINE n == Len(importing)
<1>1. /\ importing # <<>> /\ c \in Uses(provided[importing[n].of]) /\ Registered(c)
      /\ importing' = BindTop(importing, c, HashOf(provided[c]))
      /\ UNCHANGED <<provided, toLoad, modules>>
  BY DEF ImportKnown, Reaches, Top, Registered, Bound, BindTop
<1>2. /\ StoreInv' /\ CachesAreTrue' /\ PhasesAgree' /\ ExecutionIsRead'
      /\ Nodes' = Nodes /\ disturbed' \in BOOLEAN
  BY <1>1, RuntimeFrame
<1>3. /\ importing \in Seq(Frames) /\ n \in Nat /\ n \in 1 .. Len(importing)
      /\ importing[n].of \in DOMAIN provided
  BY <1>1 DEF StackIsAChain
<1>4. c \in DOMAIN provided /\ HashOf(provided[c]) \in Codes
  BY <1>1, <1>3, RuntimeInput DEF HashOf
<1>5. /\ importing' \in Seq(Frames) /\ Len(importing') = n
      /\ \A i \in 1 .. n : importing'[i].of = importing[i].of
      /\ \A i \in 1 .. n : i # n => importing'[i] = importing[i]
      /\ importing'[n].bound = Extended(importing[n].bound, c, HashOf(provided[c]))
  BY <1>1, <1>3, <1>4, TopIsBound
<1>6. StackIsAChain'
  <2>1. \A i \in 1 .. Len(importing') : importing'[i].of \in DOMAIN provided'
    BY <1>1, <1>5 DEF StackIsAChain
  <2>2. \A i \in 1 .. Len(importing') - 1 :
           importing'[i + 1].of \in Uses(provided'[importing'[i].of])
    BY <1>1, <1>3, <1>5 DEF StackIsAChain
  <2>3. ASSUME NEW i \in 1 .. Len(importing'), NEW d \in DOMAIN importing'[i].bound
        PROVE  /\ d \in Uses(provided'[importing'[i].of])
               /\ importing'[i].bound[d] = HashOf(provided'[d]) /\ Registered(d)'
    <3>1. CASE i # n
      BY <3>1, <1>1, <1>5 DEF StackIsAChain, Registered
    <3>2. CASE i = n
      <4>1. /\ DOMAIN importing'[n].bound = DOMAIN importing[n].bound \cup {c}
            /\ importing'[n].bound[c] = HashOf(provided[c])
            /\ \A z \in DOMAIN importing[n].bound :
                  z # c => importing'[n].bound[z] = importing[n].bound[z]
        BY <1>5 DEF Extended
      <4> QED
        BY <4>1, <3>2, <1>1, <1>3, <1>5 DEF StackIsAChain, Registered
    <3> QED
      BY <3>1, <3>2
  <2>4. importing'[1].of \in toLoad'
    BY <1>1, <1>3, <1>5 DEF StackIsAChain
  <2> QED
    BY <2>1, <2>2, <2>3, <2>4, <1>5 DEF StackIsAChain
<1>7. ModulesAreTrue' /\ InputIsComplete'
  BY <1>1, <1>2, ModulesStay DEF InputIsComplete, Registered, execution
<1> QED
  BY <1>2, <1>6, <1>7 DEF StoreInv

LEMMA ImportNewKeepsInv ==
    ASSUME ExecutionInv, phase = "runtime", UNCHANGED <<db, caches, execution, disturbed, sound>>,
           NEW c \in Components, ImportNew(c)
    PROVE  ExecutionInv'
<1> USE DEF ExecutionInv
<1> DEFINE n == Len(importing)
           e == [of |-> c, bound |-> Nothing]
<1>1. /\ importing # <<>> /\ c \in Uses(provided[importing[n].of])
      /\ importing' = Append(importing, e)
      /\ UNCHANGED <<provided, toLoad, modules>>
  BY DEF ImportNew, Reaches, Top
<1>2. /\ StoreInv' /\ CachesAreTrue' /\ PhasesAgree' /\ ExecutionIsRead'
      /\ Nodes' = Nodes /\ disturbed' \in BOOLEAN
  BY <1>1, RuntimeFrame
<1>3. /\ importing \in Seq(Frames) /\ n \in Nat /\ n \in 1 .. Len(importing)
      /\ importing[n].of \in DOMAIN provided
  BY <1>1 DEF StackIsAChain
<1>4. c \in DOMAIN provided
  BY <1>1, <1>3, RuntimeInput
<1>5. e \in Frames /\ e.of = c /\ DOMAIN e.bound = {}
  BY FrameFields, EmptyBinding, NothingFacts
<1> HIDE DEF e
<1>6. /\ importing' \in Seq(Frames) /\ Len(importing') = n + 1
      /\ \A i \in 1 .. n : importing'[i] = importing[i]
      /\ importing'[n + 1] = e
  BY <1>1, <1>3, <1>5
<1>7. StackIsAChain'
  <2>1. \A i \in 1 .. Len(importing') : i \in 1 .. n \/ i = n + 1
    BY <1>3, <1>6
  <2>2. \A i \in 1 .. Len(importing') : importing'[i].of \in DOMAIN provided'
    BY <2>1, <1>1, <1>4, <1>5, <1>6 DEF StackIsAChain
  <2>3. \A i \in 1 .. Len(importing') - 1 :
           importing'[i + 1].of \in Uses(provided'[importing'[i].of])
    <3> SUFFICES ASSUME NEW i \in 1 .. Len(importing') - 1
                 PROVE  importing'[i + 1].of \in Uses(provided'[importing'[i].of])
      OBVIOUS
    <3>1. CASE i = n
      BY <3>1, <1>1, <1>3, <1>5, <1>6
    <3>2. CASE i # n
      <4>1. i \in 1 .. n - 1 /\ i \in 1 .. n /\ i + 1 \in 1 .. n
        BY <3>2, <1>3, <1>6
      <4> QED
        BY <4>1, <1>1, <1>6 DEF StackIsAChain
    <3> QED
      BY <3>1, <3>2
  <2>4. \A i \in 1 .. Len(importing') : \A d \in DOMAIN importing'[i].bound :
           /\ d \in Uses(provided'[importing'[i].of])
           /\ importing'[i].bound[d] = HashOf(provided'[d]) /\ Registered(d)'
    BY <2>1, <1>1, <1>5, <1>6 DEF StackIsAChain, Registered
  <2>5. importing'[1].of \in toLoad'
    BY <1>1, <1>3, <1>6 DEF StackIsAChain
  <2> QED
    BY <2>2, <2>3, <2>4, <2>5, <1>6 DEF StackIsAChain
<1>8. ModulesAreTrue' /\ InputIsComplete'
  BY <1>1, <1>2, ModulesStay DEF InputIsComplete, Registered, execution
<1> QED
  BY <1>2, <1>7, <1>8 DEF StoreInv

LEMMA RegisterKeepsInv ==
    ASSUME ExecutionInv, phase = "runtime", UNCHANGED <<db, caches, execution, disturbed, sound>>, Register
    PROVE  ExecutionInv'
<1> USE DEF ExecutionInv
<1> DEFINE n == Len(importing)
           x == importing[n].of
           held == importing[n].bound
           code == provided[x]
           rest == Front(importing)
<1>1. /\ importing # <<>> /\ DOMAIN held = Uses(code) /\ provided' = provided
      /\ modules' = Extended(modules, code, held)
      /\ \/ rest = <<>> /\ importing' = <<>> /\ toLoad' = toLoad \ {x}
         \/ rest # <<>> /\ importing' = BindTop(rest, x, code) /\ toLoad' = toLoad
  BY DEF Register, Top, BindTop, HashOf
<1>2. /\ StoreInv' /\ CachesAreTrue' /\ PhasesAgree' /\ ExecutionIsRead'
      /\ Nodes' = Nodes /\ disturbed' \in BOOLEAN
  BY <1>1, RuntimeFrame
<1>3. /\ importing \in Seq(Frames) /\ n \in Nat /\ n \in 1 .. Len(importing)
      /\ x \in DOMAIN provided
      /\ \A c \in DOMAIN held : /\ c \in Uses(code) /\ held[c] = provided[c] /\ Registered(c)
  BY <1>1 DEF StackIsAChain, HashOf
<1>4. /\ x \in Components /\ code \in Codes /\ code.of = x
      /\ Uses(code) \subseteq DOMAIN provided
  BY <1>3, RuntimeInput
<1>5. /\ DOMAIN modules' = DOMAIN modules \cup {code} /\ modules'[code] = held
      /\ \A other \in DOMAIN modules : other # code => modules'[other] = modules[other]
  BY <1>1 DEF Extended
<1>6. \A c : c = x \/ Registered(c) => Registered(c)'
  BY <1>1, <1>5 DEF Registered, HashOf
<1>7. ModulesAreTrue'
  <2> SUFFICES ASSUME NEW other \in DOMAIN modules'
               PROVE  /\ other \in Codes /\ Frozen(other)'
                      /\ DOMAIN modules'[other] = Uses(other)
                      /\ \A c \in Uses(other) :
                            /\ modules'[other][c] \in DOMAIN modules' /\ modules'[other][c].of = c
                            /\ ~disturbed' /\ ~IsDraft(other) /\ other.of \in sound' =>
                                  ~IsDraft(modules'[other][c])
    BY DEF ModulesAreTrue
  <2>1. CASE other # code
    BY <2>1, <1>5 DEF ModulesAreTrue, Frozen
  <2>2. CASE other = code
    <3>1. IsRead(code, x) /\ Frozen(code)
      BY <1>3, RuntimeInput DEF AllRead, IsRead
    <3>2. ASSUME NEW c \in Uses(code)
          PROVE  /\ held[c] \in DOMAIN modules' /\ held[c].of = c
                 /\ ~disturbed /\ ~IsDraft(code) /\ code.of \in sound => ~IsDraft(held[c])
      <4>1. c \in DOMAIN provided /\ IsRead(provided[c], c) /\ held[c] = provided[c] /\ Registered(c)
        BY <1>1, <1>3, <1>4, RuntimeInput DEF AllRead
      <4>2. ~IsDraft(code) /\ code.of \in sound => ~IsDraft(db[c])
        BY <3>1, <1>4, UsesOfSound, CodesAreRevisions
      <4> QED
        BY <4>1, <4>2, <1>5 DEF IsRead, Registered, HashOf
    <3>3. Frozen(other)'
      <4>1. Frozen(other)
        BY <3>1, <2>2
      <4> QED
        BY <4>1, <1>1 DEF Frozen
    <3>4. modules'[other] = held /\ Uses(other) = Uses(code)
      BY <2>2, <1>5
    <3>5. \A c \in Uses(other) :
             /\ modules'[other][c] \in DOMAIN modules' /\ modules'[other][c].of = c
             /\ ~disturbed' /\ ~IsDraft(other) /\ other.of \in sound' =>
                   ~IsDraft(modules'[other][c])
      BY <3>2, <3>4, <2>2
    <3> QED
      BY <2>2, <3>3, <3>4, <3>5, <1>1, <1>4
  <2> QED
    BY <2>1, <2>2
<1>10. CASE rest = <<>>
  <2>1. importing' = <<>> /\ toLoad' = toLoad \ {x}
    BY <1>10, <1>1
  <2>2. StackIsAChain'
    BY <2>1, EmptyStackIsAChain
  <2>3. InputIsComplete'
    BY <2>1, <1>1, <1>2, <1>6, RuntimeInput DEF InputIsComplete
  <2> QED
    BY <2>2, <2>3, <1>2, <1>7 DEF StoreInv
<1>11. CASE rest # <<>>
  <2> DEFINE m == Len(importing')
  <2>1. importing' = BindTop(rest, x, code) /\ toLoad' = toLoad
    BY <1>11, <1>1
  <2>2. /\ importing' \in Seq(Frames) /\ m = n - 1 /\ m \in Nat /\ m \in 1 .. m
        /\ \A i \in 1 .. m : importing'[i].of = importing[i].of
        /\ \A i \in 1 .. m : i # m => importing'[i] = importing[i]
        /\ importing'[m].bound = Extended(importing[m].bound, x, code)
    <3>1. importing \in Seq(Frames) /\ importing # <<>> /\ Front(importing) # <<>>
      BY <1>1, <1>3, <1>11 DEF StackIsAChain
    <3>2. x \in Components /\ code \in Codes /\ importing' = BindTop(Front(importing), x, code)
      BY <2>1, <1>1, <1>3, <1>4
    <3> HIDE DEF x, code, n, rest
    <3>3. IsPopped(importing', importing, x, code)
      BY <3>1, <3>2, StackIsPopped
    <3> QED
      BY <3>3 DEF IsPopped, n
  <2> HIDE DEF m, n, x, code, held, rest
  <2>3. /\ n = Len(importing) /\ x = importing[n].of /\ code = provided[x] /\ m = Len(importing')
        /\ m \in 1 .. n /\ \A i \in 1 .. m : i \in 1 .. n
        /\ \A i \in 1 .. m - 1 : i \in 1 .. m /\ i + 1 \in 1 .. m /\ i \in 1 .. n - 1
    BY <2>2, <1>3 DEF m, n, x, code
  <2>4. x \in Uses(provided[importing[m].of])
    <3>1. m \in 1 .. n - 1 /\ m + 1 = n
      BY <1>3, <2>2
    <3> QED
      BY <3>1, <2>3 DEF StackIsAChain
  <2>5. StackIsAChain'
    <3>1. \A i \in 1 .. Len(importing') : importing'[i].of \in DOMAIN provided'
      BY <2>2, <2>3, <1>1 DEF StackIsAChain
    <3>2. \A i \in 1 .. Len(importing') - 1 :
             importing'[i + 1].of \in Uses(provided'[importing'[i].of])
      BY <2>2, <2>3, <1>1, <1>3 DEF StackIsAChain
    <3>3. ASSUME NEW i \in 1 .. Len(importing'), NEW d \in DOMAIN importing'[i].bound
          PROVE  /\ d \in Uses(provided'[importing'[i].of])
                 /\ importing'[i].bound[d] = HashOf(provided'[d]) /\ Registered(d)'
      <4>1. CASE i # m
        BY <4>1, <2>2, <2>3, <1>1, <1>6 DEF StackIsAChain
      <4>2. CASE i = m
        <5>1. /\ DOMAIN importing'[m].bound = DOMAIN importing[m].bound \cup {x}
              /\ importing'[m].bound[x] = code
              /\ \A z \in DOMAIN importing[m].bound :
                    z # x => importing'[m].bound[z] = importing[m].bound[z]
          BY <2>2 DEF Extended
        <5>2. /\ d \in Uses(provided[importing[m].of])
              /\ importing'[m].bound[d] = HashOf(provided[d]) /\ Registered(d)'
          <6>1. CASE d = x
            BY <6>1, <5>1, <2>3, <2>4, <1>6 DEF HashOf
          <6>2. CASE d # x
            <7>1. m \in 1 .. Len(importing) /\ d \in DOMAIN importing[m].bound
              BY <6>2, <5>1, <4>2, <2>3
            <7> QED
              BY <7>1, <6>2, <5>1, <1>6 DEF StackIsAChain
          <6> QED
            BY <6>1, <6>2
        <5>3. importing'[m].of = importing[m].of /\ provided' = provided
          BY <2>2, <2>3, <1>1
        <5>4. /\ d \in Uses(provided'[importing'[m].of])
              /\ importing'[m].bound[d] = HashOf(provided'[d]) /\ Registered(d)'
          BY <5>2, <5>3
        <5> QED
          BY <5>4, <4>2
      <4> QED
        BY <4>1, <4>2
    <3>4. importing'[1].of \in toLoad'
      <4>1. 1 \in 1 .. m /\ importing # <<>>
        BY <2>2, <2>3
      <4>2. importing'[1].of = importing[1].of
        BY <4>1, <2>2
      <4>3. importing[1].of \in toLoad
        BY <4>1, <1>1 DEF StackIsAChain
      <4> QED
        BY <4>2, <4>3, <2>1
    <3> QED
      BY <3>1, <3>2, <3>3, <3>4, <2>2 DEF StackIsAChain
  <2>6. InputIsComplete'
    BY <2>1, <1>1, <1>2, <1>6, RuntimeInput DEF InputIsComplete
  <2> QED
    BY <2>5, <2>6, <1>2, <1>7 DEF StoreInv
<1> QED
  BY <1>10, <1>11

\* Components that were released when all they import was import each other in no circle.
LEMMA CyclesAreNotSound ==
    ASSUME ExecutionInv, phase = "runtime", CycleFound
    PROVE  ~SoundRoot
<1> USE DEF ExecutionInv
<1> SUFFICES ASSUME SoundRoot
             PROVE  FALSE
  OBVIOUS
<1> DEFINE n == Len(importing)
<1>1. PICK i \in DOMAIN importing : importing # <<>> /\ importing[i].of \in Uses(provided[importing[n].of])
  BY DEF CycleFound, Marked, Reaches, Top
<1>2. /\ n \in Nat /\ DOMAIN importing = 1 .. n /\ i \in 1 .. n
      /\ \A j \in 1 .. n : importing[j].of \in DOMAIN provided
  BY <1>1 DEF StackIsAChain
<1> DEFINE S == {importing[j].of : j \in i .. n}
<1>3. ASSUME NEW j \in i .. n
      PROVE  /\ importing[j].of \in sound
             /\ \E k \in i .. n : importing[k].of \in Uses(db[importing[j].of])
  <2> DEFINE c == importing[j].of
  <2>1. c \in DOMAIN provided
    BY <1>2
  <2>2. c \in sound /\ provided[c] \in Revisions /\ provided[c].of = c
        /\ Frozen(provided[c]) /\ ~IsDraft(provided[c])
    BY <2>1, RuntimeInput, CodesAreRevisions DEF AllRead, IsRead
  <2>3. Uses(provided[c]) = Uses(db[c])
    BY <2>2, FrozenUses
  <2>4. \E k \in i .. n : importing[k].of \in Uses(provided[c])
    <3>1. CASE j = n
      BY <3>1, <1>1, <1>2
    <3>2. CASE j # n
      <4>1. j \in 1 .. n - 1 /\ j + 1 \in i .. n
        BY <3>2, <1>2
      <4>2. importing[j + 1].of \in Uses(provided[c])
        BY <4>1 DEF StackIsAChain
      <4> QED
        BY <4>1, <4>2
    <3> QED
      BY <3>1, <3>2
  <2> QED
    BY <2>2, <2>3, <2>4
<1>4. S \in (SUBSET sound) \ {{}}
  <2>1. i \in i .. n
    BY <1>2
  <2>2. importing[i].of \in S
    BY <2>1
  <2>3. S \subseteq sound
    BY <1>3
  <2> QED
    BY <2>2, <2>3
<1>5. \A c \in S : \E d \in S : d \in Uses(db[c])
  BY <1>3
<1> HIDE DEF S
<1> QED
  BY <1>4, <1>5 DEF SoundAreFounded

LEMMA LoadFailsKeepsInv ==
    ASSUME ExecutionInv, LoadFails
    PROVE  ExecutionInv'
<1> USE DEF ExecutionInv
<1>1. /\ phase = "runtime" /\ CycleFound /\ phase' = "done" /\ outcome' = "cycle"
      /\ importing' = <<>> /\ toLoad' = {}
      /\ UNCHANGED <<db, caches, root, rows, nested, imported, asked, disturbed, sound, provided,
                   modules>>
  BY DEF LoadFails
<1>2. RequestIsPast /\ RootIsRead /\ AllRead(nested) /\ AllRead(imported) /\ AllRead(provided)
  BY <1>1 DEF ExecutionIsRead
<1>3. StoreInv' /\ CachesAreTrue' /\ StackIsAChain' /\ ModulesAreTrue'
  BY <1>1, StoreStays, CachesStay, EmptyStackIsAChain, ModulesStay DEF StoreInv
<1>4. ExecutionIsRead' /\ (ReleasedRoot' <=> ReleasedRoot) /\ (SoundRoot' <=> SoundRoot)
  BY <1>1, <1>2, RequestStays, ReadStays DEF ExecutionIsRead
<1>5. ~SoundRoot
  BY <1>1, CyclesAreNotSound
<1>6. PhasesAgree'
  BY <1>1, <1>4, <1>5 DEF PhasesAgree
<1>7. InputIsComplete'
  BY <1>1 DEF InputIsComplete
<1> QED
  BY <1>1, <1>3, <1>4, <1>6, <1>7 DEF StoreInv

LEMMA RunKeepsInv ==
    ASSUME ExecutionInv, Run
    PROVE  ExecutionInv'
<1> USE DEF ExecutionInv, loadVars
<1>1. /\ phase = "runtime" /\ toLoad = {} /\ phase' = "done" /\ outcome' = "ok"
      /\ UNCHANGED <<db, caches, root, rows, nested, imported, asked, disturbed, sound, loadVars>>
  BY DEF Run
<1>2. RequestIsPast /\ RootIsRead /\ AllRead(nested) /\ AllRead(imported) /\ AllRead(provided)
  BY <1>1 DEF ExecutionIsRead
<1>3. importing = <<>>
  BY <1>1 DEF StackIsAChain
<1>4. StoreInv' /\ CachesAreTrue' /\ StackIsAChain' /\ ModulesAreTrue'
  BY <1>1, StoreStays, CachesStay, StackStays, ModulesStay DEF StoreInv
<1>5. ExecutionIsRead' /\ Nodes' = Nodes
  BY <1>1, <1>2, RequestStays, ReadStays DEF ExecutionIsRead
<1>6. PhasesAgree'
  BY <1>1, <1>3 DEF PhasesAgree
<1>7. InputIsComplete'
  BY <1>1, <1>5 DEF InputIsComplete, Registered
<1> QED
  BY <1>1, <1>4, <1>5, <1>6, <1>7 DEF StoreInv

LEMMA ForgottenIsIdle ==
    ASSUME StoreInv, Forget, db' = db, sound' = sound
    PROVE  /\ StoreInv' /\ PhasesAgree' /\ ExecutionIsRead' /\ InputIsComplete'
           /\ StackIsAChain'
<1> USE DEF Forget
<1>1. StoreInv' /\ StackIsAChain'
  BY StoreStays, EmptyStackIsAChain
<1>2. PhasesAgree'
  BY DEF PhasesAgree
<1> QED
  BY <1>1, <1>2 DEF ExecutionIsRead, InputIsComplete

LEMMA AnswerKeepsInv ==
    ASSUME ExecutionInv, Answer
    PROVE  ExecutionInv'
<1> USE DEF ExecutionInv
<1>1. Forget /\ UNCHANGED <<db, caches, disturbed, sound, modules>>
  BY DEF Answer
<1>2. CachesAreTrue' /\ ModulesAreTrue'
  BY <1>1, CachesStay, ModulesStay
<1> QED
  BY <1>1, <1>2, ForgottenIsIdle DEF StoreInv

LEMMA RestartKeepsInv ==
    ASSUME ExecutionInv, Restart
    PROVE  ExecutionInv'
<1> USE DEF ExecutionInv
<1>1. /\ Forget /\ db' = db /\ sound' = sound /\ modules' = Nothing /\ disturbed' = FALSE
      /\ rootCache' = Nothing /\ nestedCache' = Nothing /\ importCache' = Nothing
  BY DEF Restart
<1>2. CachesAreTrue' /\ ModulesAreTrue'
  BY <1>1, NothingFacts DEF CachesAreTrue, Cached, ModulesAreTrue
<1> QED
  BY <1>1, <1>2, ForgottenIsIdle DEF StoreInv

-----------------------------------------------------------------------------
(* The invariant, and what follows from it.                                *)

LEMMA InitEstablishesInv == Init => ExecutionInv
<1> SUFFICES ASSUME Init
             PROVE  ExecutionInv
  OBVIOUS
<1> USE DEF Init, NoExecution, LoadingInit
<1>1. ASSUME NEW id \in Ids
      PROVE  db[id] \in Revisions /\ db[id].of = id /\ IsDraft(db[id])
  <2>1. db[id] = [of |-> id, version |-> 1, state |-> "DRAFT"]
    BY DEF Initial
  <2>2. 1 \in 1 .. Len(Contents[id])
    BY ContentsAssumption
  <2>3. [of |-> id, version |-> 1, state |-> "DRAFT"] \in Revisions
    BY <2>2, RevisionFromFields DEF States
  <2> QED
    BY <2>1, <2>3 DEF IsDraft
<1>2. StoreIsTyped
  <2>1. DOMAIN db = Ids /\ db = [id \in Ids |-> db[id]]
    BY DEF Initial
  <2> QED
    BY <2>1, <1>1 DEF StoreIsTyped
<1>3. SoundUseSound /\ SoundAreFounded
  BY DEF SoundUseSound, SoundAreFounded
<1>4. CachesAreTrue /\ ModulesAreTrue
  BY NothingFacts DEF CachesAreTrue, Cached, ModulesAreTrue
<1>5. PhasesAgree
  BY DEF PhasesAgree
<1>6. StackIsAChain
  <2>1. Len(importing) = 0 /\ importing \in Seq(Frames)
    BY DEF Frames
  <2> QED
    BY <2>1 DEF StackIsAChain
<1> QED
  BY <1>2, <1>3, <1>4, <1>5, <1>6 DEF ExecutionInv, ExecutionIsRead, InputIsComplete

LEMMA StepKeepsInv == ExecutionInv /\ [Next]_vars => ExecutionInv'
<1> SUFFICES ASSUME ExecutionInv, [Next]_vars
             PROVE  ExecutionInv'
  OBVIOUS
<1>1. ASSUME NEW id \in Ids, Save(id) \/ \E v : Release(id, v) \/ Deprecate(id, v)
      PROVE  ExecutionInv'
  <2>1. StoreInv
    BY DEF StoreInv, ExecutionInv
  <2>2. StoreInv' /\ Advance
    BY <2>1, <1>1, SaveAdvances, ReleaseAdvances, DeprecateAdvances
  <2>3. Write
    BY <1>1 DEF Save, Release, Deprecate
  <2> QED
    BY <2>2, <2>3, WriteKeepsInv
<1>2. ASSUME NEW id \in Ids, Begin(id)
      PROVE  ExecutionInv'
  BY <1>2, BeginKeepsInv
<1>3. CASE Prepare
  BY <1>3, ReadNestingsKeepsInv, BuildNodesKeepsInv, CallRuntimeKeepsInv, ReadNestedKeepsInv,
     ReadImportKeepsInv
  DEF Prepare
<1>4. CASE Load
  <2>1. phase = "runtime" /\ UNCHANGED <<db, caches, execution, disturbed, sound>> /\ LoadStep
    BY <1>4 DEF Load
  <2>2. CASE Register
    BY <2>1, <2>2, RegisterKeepsInv
  <2>3. ASSUME NEW c \in Components, LoadKnown(c) \/ LoadNew(c) \/ ImportKnown(c) \/ ImportNew(c)
        PROVE  ExecutionInv'
    BY <2>1, <2>3, LoadKnownKeepsInv, LoadNewKeepsInv, ImportKnownKeepsInv, ImportNewKeepsInv
  <2> QED
    BY <2>1, <2>2, <2>3 DEF LoadStep
<1>5. CASE LoadFails \/ Run \/ Answer \/ Restart
  BY <1>5, LoadFailsKeepsInv, RunKeepsInv, AnswerKeepsInv, RestartKeepsInv
<1>6. CASE UNCHANGED vars
  <2>1. UNCHANGED <<db, caches, execution, disturbed, sound, loadVars>>
    BY <1>6 DEF vars
  <2>2. StoreInv' /\ CachesAreTrue' /\ StackIsAChain' /\ ModulesAreTrue'
    BY <2>1, StoreStays, CachesStay, StackStays, ModulesStay
    DEF StoreInv, ExecutionInv, loadVars, caches
  <2>3. PhasesAgree' /\ InputIsComplete'
    BY <2>1 DEF ExecutionInv, execution, loadVars, PhasesAgree, InputIsComplete, ReleasedRoot, SoundRoot, Nodes,
                Registered
  <2>4. ExecutionIsRead'
    BY <2>1, RequestStays, ReadStays DEF ExecutionInv, execution, loadVars, ExecutionIsRead
  <2> QED
    BY <2>1, <2>2, <2>3, <2>4 DEF ExecutionInv, StoreInv
<1> QED
  BY <1>1, <1>2, <1>3, <1>4, <1>5, <1>6 DEF Next

\* Every state of an execution in the backend satisfies the invariant above.
THEOREM ExecutionInvariant == Spec => []ExecutionInv
<1> QED
  BY InitEstablishesInv, StepKeepsInv, PTL DEF Spec

\* What the variables of the execution are.
THEOREM ExecutionIsTyped == Spec => []TypeOK
<1>1. ExecutionInv => TypeOK
  <2> SUFFICES ASSUME ExecutionInv
               PROVE  TypeOK
    OBVIOUS
  <2> USE DEF ExecutionInv
  <2>1. ASSUME NEW f, AllRead(f)
        PROVE  \A c \in DOMAIN f : c \in Components /\ f[c] \in Codes
    BY <2>1 DEF AllRead, IsRead
  <2>2. /\ \A c \in DOMAIN nested : nested[c] \in Codes
        /\ \A c \in DOMAIN imported : imported[c] \in Codes
        /\ \A c \in DOMAIN provided : c \in Components /\ provided[c] \in Codes
    <3>1. CASE phase = "idle"
      BY <3>1, NothingFacts DEF PhasesAgree
    <3>2. CASE phase # "idle"
      BY <3>2, <2>1 DEF ExecutionIsRead
    <3> QED
      BY <3>1, <3>2
  <2>3. LoadingTypeOK
    <3>1. toLoad \in SUBSET Components
      <4>1. CASE phase = "runtime"
        BY <4>1, RuntimeInput
      <4>2. CASE phase # "runtime"
        BY <4>2 DEF PhasesAgree
      <4> QED
        BY <4>1, <4>2
    <3>2. ASSUME NEW i \in DOMAIN importing
          PROVE  importing[i].of \in Components /\ DOMAIN importing[i].bound \subseteq Components
      <4>1. importing[i] \in Frames
        BY DEF StackIsAChain
      <4> QED
        BY <4>1, FieldsOfFrame
    <3> QED
      BY <2>2, <3>1, <3>2 DEF LoadingTypeOK, ModulesAreTrue
  <2>4. /\ root \in Revisions \cup {None}
        /\ asked = Nothing \/ DOMAIN asked = Ids
        /\ \A id \in DOMAIN asked : asked[id] \in Revisions /\ asked[id].of = id
    <3>1. CASE phase = "idle"
      BY <3>1, NothingFacts DEF PhasesAgree
    <3>2. CASE phase # "idle"
      BY <3>2 DEF ExecutionIsRead, RootIsRead, RequestIsPast
    <3> QED
      BY <3>1, <3>2
  <2>5. \A id \in Ids : db[id] \in Revisions /\ db[id].of = id
    BY DEF StoreIsTyped
  <2>6. \A cache \in {rootCache, nestedCache, importCache} :
           \A id \in DOMAIN cache : cache[id] \in Revisions /\ cache[id].of = id
    BY DEF CachesAreTrue, Cached
  <2> QED
    BY <2>2, <2>3, <2>4, <2>5, <2>6 DEF TypeOK, PhasesAgree, SoundUseSound
<1> QED
  BY <1>1, ExecutionInvariant, PTL

\* Every node runs code of its component that is at least as new as what was stored when
\* the execution was requested, through three caches and whatever is written meanwhile.
THEOREM NodesRunWhatWasAsked == Spec => []NodesRunFreshCode
<1>1. ExecutionInv => NodesRunFreshCode
  <2> SUFFICES ASSUME ExecutionInv, outcome = "ok", NEW c \in Nodes
               PROVE  provided[c].version >= asked[c].version
    BY DEF NodesRunFreshCode
  <2>1. phase # "idle"
    BY DEF ExecutionInv, PhasesAgree
  <2>2. AllRead(provided) /\ c \in DOMAIN provided /\ RequestIsPast
    BY <2>1 DEF ExecutionInv, ExecutionIsRead, InputIsComplete
  <2>3. asked[c].version <= provided[c].version
    BY <2>2 DEF AllRead, IsRead
  <2>4. asked[c] \in Revisions /\ provided[c] \in Revisions
    BY <2>2, CodesAreRevisions DEF AllRead, IsRead, RequestIsPast
  <2> QED
    BY <2>3, <2>4, RevisionFields
<1> QED
  BY <1>1, ExecutionInvariant, PTL

\* An execution of what was released when all it uses was, down to the last import,
\* neither misses a nested revision nor runs into an import cycle, whatever is written
\* between the reads and whatever else was released from outdated views.
THEOREM ReleasedAreExecutable == Spec => []ReleasedExecutionsSucceed
<1>1. ExecutionInv => ReleasedExecutionsSucceed
  BY DEF ExecutionInv, PhasesAgree, ReleasedExecutionsSucceed, ReleasedRoot, SoundRoot, IsDraft
<1> QED
  BY <1>1, ExecutionInvariant, PTL

\* An execution of such a revision that no write disturbed runs, down to the last import,
\* what is stored of released components.
THEOREM ReleasedRunsWhatIsReleased == Spec => []ReleasedRunsReleased
<1>1. ExecutionInv => ReleasedRunsReleased
  <2> SUFFICES ASSUME ExecutionInv, outcome = "ok", SoundRoot, ~disturbed,
                      NEW code \in Running(Nodes)
               PROVE  code.state # "DRAFT" /\ code.version = db[code.of].version
    BY DEF ReleasedRunsReleased, SoundRoot, ReleasedRoot, IsDraft
  <2> DEFINE S == {other \in DOMAIN modules : ~IsDraft(other) /\ other.of \in sound}
  <2>1. phase = "done"
    BY DEF ExecutionInv, PhasesAgree
  <2>2. AllRead(provided) /\ Nodes \subseteq DOMAIN provided /\ \A c \in Nodes : Registered(c)
    BY <2>1 DEF ExecutionInv, ExecutionIsRead, InputIsComplete, PhasesAgree
  <2>3. \A c \in Nodes : HashOf(provided[c]) \in S
    BY <2>2 DEF AllRead, IsRead, Registered, HashOf
  <2>4. ASSUME NEW other \in S, NEW c \in Uses(other)
        PROVE  modules[other][c] \in S
    <3>1. other \in Revisions /\ Frozen(other)
      BY CodesAreRevisions DEF ExecutionInv, ModulesAreTrue
    <3>2. c \in sound
      BY <3>1, UsesOfSound DEF ExecutionInv
    <3> QED
      BY <3>2 DEF ExecutionInv, ModulesAreTrue
  <2>5. S \in SUBSET DOMAIN modules
    OBVIOUS
  <2> HIDE DEF S
  <2>6. code \in S
    BY <2>3, <2>4, <2>5 DEF Running
  <2> QED
    BY <2>6 DEF S, ExecutionInv, ModulesAreTrue, Frozen, IsDraft
<1> QED
  BY <1>1, ExecutionInvariant, PTL

=============================================================================
