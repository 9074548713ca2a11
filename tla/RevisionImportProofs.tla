-------------------------- MODULE RevisionImportProofs --------------------------
(***************************************************************************)
(* Proofs about importing, deleting and exporting: the order by levels of  *)
(* nesting stores what is contained first and deletes it last, and what is *)
(* exported can be restored, for all packages, filters and sequences of    *)
(* operations, crashes included.                                           *)
(***************************************************************************)
EXTENDS RevisionExport, FiniteSetTheorems, WellFoundedInduction, TLAPS

-----------------------------------------------------------------------------
(* The order in which packages are enumerated.                             *)

LEMMA SequenceOfSet ==
    ASSUME NEW S, IsFiniteSet(S)
    PROVE  /\ Cardinality(S) \in Nat
           /\ SetToSeq(S) \in [1 .. Cardinality(S) -> S]
           /\ \A i, j \in 1 .. Cardinality(S) : SetToSeq(S)[i] = SetToSeq(S)[j] => i = j
           /\ \A x \in S : \E i \in 1 .. Cardinality(S) : SetToSeq(S)[i] = x
<1>1. Cardinality(S) \in Nat /\ ExistsBijection(1 .. Cardinality(S), S)
  BY FS_CardinalityType
<1>2. \E f \in [1 .. Cardinality(S) -> S] : IsInjective(f)
  BY <1>1 DEF ExistsBijection, Bijection, Injection, IsInjective
<1>3. SetToSeq(S) \in [1 .. Cardinality(S) -> S] /\ IsInjective(SetToSeq(S))
  BY <1>2 DEF SetToSeq
<1>4. SetToSeq(S) \in Injection(1 .. Cardinality(S), S)
  BY <1>3 DEF Injection, IsInjective
<1>5. SetToSeq(S) \in Surjection(1 .. Cardinality(S), S)
  <2>1. Cardinality(1 .. Cardinality(S)) = Cardinality(S)
    BY <1>1, FS_Interval
  <2> QED
    BY <1>4, <2>1, FS_Injection
<1> QED
  BY <1>1, <1>3, <1>4, <1>5 DEF Injection, Surjection, IsInjective

LEMMA Enumerated ==
    /\ Enumeration \in Seq(Revisions)
    /\ \A i, j \in 1 .. Len(Enumeration) : Enumeration[i] = Enumeration[j] => i = j
    /\ \A r \in Revisions : \E i \in 1 .. Len(Enumeration) : Enumeration[i] = r
    /\ Cardinality(Components) \in Nat
    /\ \A i \in 1 .. Len(Enumeration) : Enumeration[i] \in Components <=> i <= Cardinality(Components)
<1>1. IsFiniteSet(Components) /\ IsFiniteSet(Workflows)
  BY KindsAssumption, FS_Subset DEF Revisions
<1> DEFINE c == SetToSeq(Components)
           w == SetToSeq(Workflows)
           m == Cardinality(Components)
           n == Cardinality(Workflows)
<1>2. /\ m \in Nat /\ c \in [1 .. m -> Components]
      /\ \A i, j \in 1 .. m : c[i] = c[j] => i = j
      /\ \A x \in Components : \E i \in 1 .. m : c[i] = x
  BY <1>1, SequenceOfSet
<1>3. /\ n \in Nat /\ w \in [1 .. n -> Workflows]
      /\ \A i, j \in 1 .. n : w[i] = w[j] => i = j
      /\ \A x \in Workflows : \E i \in 1 .. n : w[i] = x
  BY <1>1, SequenceOfSet
<1> HIDE DEF c, w, m, n
<1>4. c \in Seq(Components) /\ Len(c) = m /\ w \in Seq(Workflows) /\ Len(w) = n
  BY <1>2, <1>3
<1>5. /\ Enumeration \in Seq(Revisions) /\ Len(Enumeration) = m + n
      /\ \A i \in 1 .. m : Enumeration[i] = c[i]
      /\ \A i \in m + 1 .. m + n : Enumeration[i] = w[i - m]
  <2>1. Enumeration = c \o w
    BY DEF Enumeration, c, w
  <2>2. c \in Seq(Revisions) /\ w \in Seq(Revisions)
    BY <1>4 DEF Revisions
  <2>3. c \o w \in Seq(Revisions) /\ Len(c \o w) = m + n
    BY <2>2, <1>4
  <2>4. ASSUME NEW i \in 1 .. m + n
        PROVE  (c \o w)[i] = IF i <= m THEN c[i] ELSE w[i - m]
    BY <2>2, <1>2, <1>3, <1>4
  <2>5. \A i \in 1 .. m : i \in 1 .. m + n /\ i <= m
    BY <1>2, <1>3
  <2>6. \A i \in m + 1 .. m + n : i \in 1 .. m + n /\ ~ (i <= m)
    BY <1>2, <1>3
  <2> QED
    BY <2>1, <2>3, <2>4, <2>5, <2>6
<1>6. \A k \in 1 .. m + n : \/ k \in 1 .. m /\ Enumeration[k] \in Components
                            \/ k \in m + 1 .. m + n /\ Enumeration[k] \in Workflows
  <2>1. \A k \in 1 .. m : Enumeration[k] \in Components
    BY <1>2, <1>5
  <2>2. ASSUME NEW k \in m + 1 .. m + n PROVE Enumeration[k] \in Workflows
    <3>1. k - m \in 1 .. n
      BY <1>2, <1>3
    <3> QED
      BY <3>1, <1>3, <1>5
  <2> QED
    BY <2>1, <2>2, <1>2, <1>3
<1>7. ASSUME NEW i \in 1 .. Len(Enumeration), NEW j \in 1 .. Len(Enumeration),
             Enumeration[i] = Enumeration[j]
      PROVE  i = j
  <2>1. CASE i \in 1 .. m /\ j \in 1 .. m
    BY <2>1, <1>2, <1>5, <1>7
  <2>2. CASE i \in m + 1 .. m + n /\ j \in m + 1 .. m + n
    <3>1. i - m \in 1 .. n /\ j - m \in 1 .. n
      BY <2>2, <1>2, <1>3
    <3>2. w[i - m] = w[j - m]
      BY <2>2, <1>5, <1>7
    <3>3. i - m = j - m
      BY <3>1, <3>2, <1>3
    <3> QED
      BY <3>3, <1>2, <1>3, <2>2
  <2> QED
    BY <2>1, <2>2, <1>5, <1>6, <1>7, KindsAssumption
<1>8. ASSUME NEW r \in Revisions PROVE \E i \in 1 .. Len(Enumeration) : Enumeration[i] = r
  <2>1. CASE r \in Components
    BY <2>1, <1>2, <1>3, <1>5
  <2>2. CASE r \in Workflows
    <3>1. PICK i \in 1 .. n : w[i] = r
      BY <2>2, <1>3
    <3>2. m + i \in m + 1 .. m + n /\ (m + i) - m = i /\ m + i \in 1 .. m + n
      BY <1>2, <1>3
    <3> QED
      BY <3>1, <3>2, <1>5
  <2> QED
    BY <2>1, <2>2 DEF Revisions
<1>9. \A i \in 1 .. Len(Enumeration) : Enumeration[i] \in Components <=> i <= m
  BY <1>2, <1>3, <1>5, <1>6, KindsAssumption
<1> QED
  BY <1>2, <1>5, <1>7, <1>8, <1>9 DEF m

RankOf(r) == CHOOSE i \in 1 .. Len(Enumeration) : Enumeration[i] = r

\* What a revision depends on comes earlier in the enumeration.
LEMMA DependenciesRank ==
    ASSUME package \in Packages, NEW r \in Revisions
    PROVE  /\ RankOf(r) \in 1 .. Len(Enumeration)
           /\ \A d \in package.deps[r] : d \in Revisions /\ RankOf(d) < RankOf(r)
<1>1. \A q \in Revisions : RankOf(q) \in 1 .. Len(Enumeration) /\ Enumeration[RankOf(q)] = q
  BY Enumerated DEF RankOf
<1>2. package.deps[r] \subseteq Before(r) /\ package.deps[r] \subseteq Revisions
  BY DEF Packages, MayDependOn
<1>3. ASSUME NEW d \in Before(r), d \in Revisions PROVE RankOf(d) < RankOf(r)
  <2>1. PICK i \in 1 .. Len(Enumeration) :
           /\ Enumeration[i] = d
           /\ \E j \in i + 1 .. Len(Enumeration) : Enumeration[j] = r
    BY <1>3 DEF Before
  <2>2. PICK j \in i + 1 .. Len(Enumeration) : Enumeration[j] = r
    BY <2>1
  <2>3. j \in 1 .. Len(Enumeration) /\ i < j
    BY <2>2, Enumerated
  <2>4. i = RankOf(d) /\ j = RankOf(r)
    BY <1>1, <1>3, <2>1, <2>2, <2>3, Enumerated
  <2> QED
    BY <2>3, <2>4
<1> QED
  BY <1>1, <1>2, <1>3


-----------------------------------------------------------------------------
(* What is below a revision, and its level.                                *)

LEMMA LeastNumber ==
    ASSUME NEW T, T \subseteq Nat, T # {}
    PROVE  \E n \in T : \A m \in T : n <= m
<1>1. PICK R : IsWellFoundedOn(R, Nat) /\ \A y, x \in Nat : y < x => <<y, x>> \in R
  <2>1. \A y, x \in Nat : y < x => <<y, x>> \in OpToRel(<, Nat)
    BY DEF OpToRel
  <2> QED
    BY <2>1, NatLessThanWellFounded, Zenon
<1>2. PICK x \in T : \A y \in T : ~ (<<y, x>> \in R)
  <2>1. IsWellFoundedOn(R, Nat) /\ T \subseteq Nat /\ T # {}
    BY <1>1
  <2>2. \E x \in T : \A y \in T : ~ (<<y, x>> \in R)
    BY <2>1, WFMin, Zenon
  <2> QED
    BY <2>2
<1>3. ASSUME NEW y \in T PROVE x <= y
  <2>1. x \in Nat /\ y \in Nat
    OBVIOUS
  <2>2. ~ (y < x)
    BY <2>1, <1>1, <1>2
  <2> QED
    BY <2>1, <2>2
<1> QED
  BY <1>3

BelowFrom(f, r) ==
    IF r \in Components THEN {} ELSE package.deps[r] \cup UNION {f[d] : d \in package.deps[r]}
LevelFrom(f, r) ==
    IF r \in Components THEN 0 ELSE 1 + Max({0} \cup {f[d] : d \in package.deps[r]})
ImportedFrom(f, r) == {r} \cup UNION {IF d \in Stored THEN f[d] ELSE {d} : d \in package.deps[r]}
From(kind, f, r) == IF kind = "below" THEN BelowFrom(f, r)
                    ELSE IF kind = "level" THEN LevelFrom(f, r) ELSE ImportedFrom(f, r)

\* All of them look only at what the revision depends on.
LEMMA SameFrom ==
    ASSUME NEW kind, NEW f, NEW g, NEW r, \A d \in package.deps[r] : f[d] = g[d]
    PROVE  From(kind, f, r) = From(kind, g, r)
<1>1. {f[d] : d \in package.deps[r]} = {g[d] : d \in package.deps[r]}
  OBVIOUS
<1>2. BelowFrom(f, r) = BelowFrom(g, r)
  BY <1>1 DEF BelowFrom
<1>3. LevelFrom(f, r) = LevelFrom(g, r)
  BY <1>1 DEF LevelFrom
<1>4. ImportedFrom(f, r) = ImportedFrom(g, r)
  <2>1. {IF d \in Stored THEN f[d] ELSE {d} : d \in package.deps[r]}
          = {IF d \in Stored THEN g[d] ELSE {d} : d \in package.deps[r]}
    OBVIOUS
  <2> QED
    BY <2>1 DEF ImportedFrom
<1> QED
  BY <1>2, <1>3, <1>4 DEF From

DefinedTo(kind, n, f) == \A r \in Revisions : RankOf(r) <= n => f[r] = From(kind, f, r)

LEMMA RecursionExists ==
    ASSUME package \in Packages, NEW kind, NEW N \in Nat
    PROVE  \E f : DefinedTo(kind, N, f)
<1> DEFINE T == {n \in Nat : ~ \E f : DefinedTo(kind, n, f)}
<1>1. T = {}
  <2> SUFFICES ASSUME T # {} PROVE FALSE
    OBVIOUS
  <2>1. PICK n \in T : \A m \in T : n <= m
    <3>1. T \subseteq Nat
      OBVIOUS
    <3> HIDE DEF T
    <3> QED
      BY <3>1, LeastNumber
  <2>2. \A r \in Revisions : RankOf(r) \in Nat /\ RankOf(r) > 0
    <3>1. \A r \in Revisions : RankOf(r) \in 1 .. Len(Enumeration)
      BY DependenciesRank
    <3> QED
      BY <3>1
  <2>3. n # 0
    <3>1. DefinedTo(kind, 0, [r \in Revisions |-> 0])
      BY <2>2 DEF DefinedTo
    <3> QED
      BY <3>1, <2>1
  <2>4. n - 1 \in Nat /\ ~ (n - 1 \in T)
    BY <2>1, <2>3
  <2>5. PICK g : DefinedTo(kind, n - 1, g)
    BY <2>4
  <2> DEFINE h == [r \in Revisions |-> From(kind, g, r)]
  <2>6. ASSUME NEW r \in Revisions, RankOf(r) <= n PROVE h[r] = From(kind, h, r)
    <3>1. ASSUME NEW d \in package.deps[r] PROVE h[d] = g[d]
      <4>1. d \in Revisions /\ RankOf(d) < RankOf(r)
        BY DependenciesRank
      <4>2. RankOf(d) <= n - 1
        BY <4>1, <2>1, <2>2, <2>6
      <4>3. g[d] = From(kind, g, d)
        BY <4>1, <4>2, <2>5 DEF DefinedTo
      <4> QED
        BY <4>1, <4>3
    <3>2. h[r] = From(kind, g, r)
      OBVIOUS
    <3> HIDE DEF h
    <3> QED
      BY <3>1, <3>2, SameFrom
  <2>7. DefinedTo(kind, n, h)
    <3> HIDE DEF h
    <3> QED
      BY <2>6 DEF DefinedTo
  <2> QED
    BY <2>7, <2>1
<1> QED
  BY <1>1

LEMMA RecursionIsFunction ==
    ASSUME package \in Packages, NEW kind
    PROVE  \E f : f = [r \in Revisions |-> From(kind, f, r)]
<1>1. PICK g : DefinedTo(kind, Len(Enumeration), g)
  <2>1. Len(Enumeration) \in Nat
    BY Enumerated
  <2> QED
    BY <2>1, RecursionExists
<1>2. \A r \in Revisions : g[r] = From(kind, g, r)
  BY <1>1, DependenciesRank, Enumerated DEF DefinedTo
<1> DEFINE f == [r \in Revisions |-> g[r]]
<1>3. ASSUME NEW r \in Revisions PROVE g[r] = From(kind, f, r)
  <2>1. \A d \in package.deps[r] : g[d] = f[d]
    BY DependenciesRank
  <2> HIDE DEF f
  <2> QED
    BY <2>1, <1>2, SameFrom
<1>4. f = [r \in Revisions |-> From(kind, f, r)]
  <2>1. f = [r \in Revisions |-> g[r]]
    OBVIOUS
  <2> HIDE DEF f
  <2> QED
    BY <2>1, <1>3
<1> QED
  BY <1>4

LEMMA BelowIs ==
    ASSUME package \in Packages, NEW r \in Revisions
    PROVE  Below(r, package.deps) =
             IF r \in Components THEN {}
             ELSE package.deps[r] \cup UNION {Below(d, package.deps) : d \in package.deps[r]}
<1> DEFINE Of(f) == [s \in Revisions |->
                       IF s \in Components THEN {}
                       ELSE package.deps[s] \cup UNION {f[d] : d \in package.deps[s]}]
           b == CHOOSE f : f = Of(f)
<1>1. \E f : f = Of(f)
  <2>1. PICK f : f = [s \in Revisions |-> From("below", f, s)]
    BY RecursionIsFunction
  <2>2. \A s : From("below", f, s) = IF s \in Components THEN {}
                    ELSE package.deps[s] \cup UNION {f[d] : d \in package.deps[s]}
    BY DEF From, BelowFrom
  <2>3. [s \in Revisions |-> From("below", f, s)] = Of(f)
    BY <2>2
  <2> HIDE DEF Of
  <2> QED
    BY <2>1, <2>3
<1>2. \A s : Below(s, package.deps) = b[s]
  BY DEF Below
<1>3. b = Of(b)
  <2> HIDE DEF Of
  <2> QED
    BY <1>1
<1> HIDE DEF b
<1>4. b[r] = IF r \in Components THEN {}
             ELSE package.deps[r] \cup UNION {b[d] : d \in package.deps[r]}
  BY <1>3
<1> QED
  BY <1>2, <1>4

LEMMA LevelsAre ==
    ASSUME package \in Packages, NEW r \in Revisions
    PROVE  Levels[r] = IF r \in Components THEN 0
                       ELSE 1 + Max({0} \cup {Levels[d] : d \in package.deps[r]})
<1> DEFINE Of(f) == [s \in Revisions |->
                       IF s \in Components THEN 0
                       ELSE 1 + Max({0} \cup {f[d] : d \in package.deps[s]})]
<1>1. \E f : f = Of(f)
  <2>1. PICK f : f = [s \in Revisions |-> From("level", f, s)]
    BY RecursionIsFunction
  <2>2. \A s : From("level", f, s) = IF s \in Components THEN 0
                    ELSE 1 + Max({0} \cup {f[d] : d \in package.deps[s]})
    BY DEF From, LevelFrom
  <2>3. [s \in Revisions |-> From("level", f, s)] = Of(f)
    BY <2>2
  <2> HIDE DEF Of
  <2> QED
    BY <2>1, <2>3
<1>2. Levels = CHOOSE f : f = Of(f)
  BY DEF Levels
<1>3. Levels = Of(Levels)
  <2> HIDE DEF Of
  <2> QED
    BY <1>1, <1>2
<1> QED
  BY <1>3

LEMMA ImportedIs ==
    ASSUME package \in Packages, NEW r \in Revisions
    PROVE  Imported(r) = {r} \cup UNION {IF d \in Stored THEN Imported(d) ELSE {d} : d \in package.deps[r]}
<1> DEFINE Of(f) == [s \in Revisions |->
                       {s} \cup UNION {IF d \in Stored THEN f[d] ELSE {d} : d \in package.deps[s]}]
           b == CHOOSE f : f = Of(f)
<1>1. \E f : f = Of(f)
  <2>1. PICK f : f = [s \in Revisions |-> From("imported", f, s)]
    BY RecursionIsFunction
  <2>2. \A s : From("imported", f, s)
             = {s} \cup UNION {IF d \in Stored THEN f[d] ELSE {d} : d \in package.deps[s]}
    BY DEF From, ImportedFrom
  <2>3. [s \in Revisions |-> From("imported", f, s)] = Of(f)
    BY <2>2
  <2> HIDE DEF Of
  <2> QED
    BY <2>1, <2>3
<1>2. \A s : Imported(s) = b[s]
  BY DEF Imported
<1>3. b = Of(b)
  <2> HIDE DEF Of
  <2> QED
    BY <1>1
<1> HIDE DEF b
<1>4. b[r] = {r} \cup UNION {IF d \in Stored THEN b[d] ELSE {d} : d \in package.deps[r]}
  BY <1>3
<1>5. {IF d \in Stored THEN b[d] ELSE {d} : d \in package.deps[r]}
        = {IF d \in Stored THEN Imported(d) ELSE {d} : d \in package.deps[r]}
  BY <1>2
<1> QED
  BY <1>2, <1>4, <1>5

\* Induction over dependencies: of some revisions there is one that depends on none of them.
LEMMA LowestRevision ==
    ASSUME package \in Packages, NEW S \in SUBSET Revisions, S # {}
    PROVE  \E r \in S : \A d \in package.deps[r] : d \notin S
<1> DEFINE T == {RankOf(r) : r \in S}
<1>1. \A r \in Revisions : RankOf(r) \in Nat
  <2>1. \A r \in Revisions : RankOf(r) \in 1 .. Len(Enumeration)
    BY DependenciesRank
  <2> QED
    BY <2>1
<1>2. T \subseteq Nat /\ T # {}
  BY <1>1
<1>3. PICK n \in T : \A m \in T : n <= m
  <2> HIDE DEF T
  <2> QED
    BY <1>2, LeastNumber
<1>4. PICK r \in S : RankOf(r) = n
  BY <1>3
<1>5. ASSUME NEW d \in package.deps[r], d \in S PROVE FALSE
  <2>1. RankOf(d) < RankOf(r) /\ RankOf(d) \in Nat /\ RankOf(r) \in Nat
    BY DependenciesRank, <1>1, <1>5
  <2>2. RankOf(r) <= RankOf(d)
    BY <1>3, <1>4, <1>5
  <2> QED
    BY <2>1, <2>2
<1> QED
  BY <1>5

LEMMA FiniteIsBounded ==
    ASSUME NEW S \in SUBSET Nat, IsFiniteSet(S)
    PROVE  \E b \in Nat : \A x \in S : x <= b
<1> DEFINE Bounded(X) == \E b \in Nat : \A x \in X : x <= b
           T == {k \in Nat : \E X \in SUBSET Nat :
                    IsFiniteSet(X) /\ Cardinality(X) = k /\ ~Bounded(X)}
<1>1. T = {}
  <2> SUFFICES ASSUME T # {} PROVE FALSE
    OBVIOUS
  <2>1. PICK k \in T : \A m \in T : k <= m
    <3>1. T \subseteq Nat
      OBVIOUS
    <3> HIDE DEF T
    <3> QED
      BY <3>1, LeastNumber
  <2>2. PICK X \in SUBSET Nat : IsFiniteSet(X) /\ Cardinality(X) = k /\ ~Bounded(X)
    BY <2>1
  <2>3. PICK x \in X : TRUE
    <3>1. 0 \in Nat
      OBVIOUS
    <3> QED
      BY <2>2, <3>1
  <2>4. /\ IsFiniteSet(X \ {x}) /\ Cardinality(X \ {x}) = k - 1
        /\ k - 1 \in Nat /\ X \ {x} \in SUBSET Nat
    <3>1. IsFiniteSet(X \ {x}) /\ Cardinality(X \ {x}) = k - 1
      BY <2>2, <2>3, FS_RemoveElement
    <3> QED
      BY <3>1, FS_CardinalityType
  <2>5. Bounded(X \ {x})
    <3>1. k - 1 \notin T
      BY <2>1, <2>4
    <3> QED
      BY <3>1, <2>4
  <2>6. PICK b \in Nat : \A y \in X \ {x} : y <= b
    BY <2>5
  <2>7. CASE x <= b
    BY <2>2, <2>6, <2>7
  <2>8. CASE ~ (x <= b)
    <3>1. x \in Nat /\ \A y \in X : y <= x
      BY <2>3, <2>6, <2>8
    <3> QED
      BY <2>2, <3>1
  <2> QED
    BY <2>7, <2>8
<1>2. Cardinality(S) \in Nat /\ Cardinality(S) \notin T
  BY <1>1, FS_CardinalityType
<1> QED
  BY <1>2

LEMMA GreatestNumber ==
    ASSUME NEW S \in SUBSET Nat, IsFiniteSet(S), S # {}
    PROVE  Max(S) \in S /\ \A y \in S : y <= Max(S)
<1>1. PICK b \in Nat : \A x \in S : x <= b
  BY FiniteIsBounded
<1> DEFINE D == {n \in Nat : \E x \in S : b = x + n}
<1>2. D \subseteq Nat /\ D # {}
  <2>1. PICK x \in S : TRUE
    OBVIOUS
  <2>2. b - x \in D
    BY <2>1, <1>1
  <2> QED
    BY <2>2
<1>3. PICK n \in D : \A m \in D : n <= m
  <2> HIDE DEF D
  <2> QED
    BY <1>2, LeastNumber
<1>4. PICK x \in S : b = x + n
  BY <1>3
<1>5. ASSUME NEW y \in S PROVE x >= y
  <2>1. b - y \in Nat /\ b = y + (b - y)
    BY <1>1
  <2>2. n <= b - y
    BY <2>1, <1>3
  <2> QED
    BY <2>2, <1>4
<1>6. \E z \in S : \A y \in S : z >= y
  BY <1>5
<1>7. Max(S) \in S /\ \A y \in S : Max(S) >= y
  BY <1>6 DEF Max
<1> QED
  BY <1>7

\* nesting_level gives what a workflow contains a lower level.
LEMMA LevelsRise ==
    ASSUME package \in Packages
    PROVE  /\ \A r \in Revisions : Levels[r] \in Nat
           /\ \A w \in Workflows : \A d \in package.deps[w] :
                 d \in Revisions /\ Levels[d] < Levels[w]
<1>1. \A r \in Revisions : package.deps[r] \subseteq Revisions /\ IsFiniteSet(package.deps[r])
  <2>1. \A r \in Revisions : package.deps[r] \subseteq Revisions
    BY DependenciesRank
  <2> QED
    BY <2>1, KindsAssumption, FS_Subset
<1>2. ASSUME NEW r \in Revisions, \A d \in package.deps[r] : Levels[d] \in Nat
      PROVE  /\ Levels[r] \in Nat
             /\ r \in Workflows => \A d \in package.deps[r] : Levels[d] < Levels[r]
  <2> DEFINE S == {0} \cup {Levels[d] : d \in package.deps[r]}
  <2>1. S \in SUBSET Nat /\ S # {}
    BY <1>2
  <2>2. IsFiniteSet(S)
    <3>1. IsFiniteSet({Levels[d] : d \in package.deps[r]})
      <4>1. [d \in package.deps[r] |-> Levels[d]]
               \in Surjection(package.deps[r], {Levels[d] : d \in package.deps[r]})
        BY DEF Surjection
      <4> QED
        BY <4>1, <1>1, FS_Surjection
    <3> QED
      BY <3>1, FS_AddElement
  <2>3. Levels[r] = IF r \in Components THEN 0 ELSE 1 + Max(S)
    BY LevelsAre
  <2>4. \A d \in package.deps[r] : Levels[d] \in S
    OBVIOUS
  <2> HIDE DEF S
  <2>5. Max(S) \in Nat /\ \A y \in S : y <= Max(S) /\ y \in Nat
    BY <2>1, <2>2, GreatestNumber
  <2> QED
    BY <2>3, <2>4, <2>5, KindsAssumption
<1>3. {r \in Revisions : Levels[r] \notin Nat} = {}
  <2> DEFINE S == {r \in Revisions : Levels[r] \notin Nat}
  <2> SUFFICES ASSUME S # {} PROVE FALSE
    OBVIOUS
  <2>1. PICK r \in S : \A d \in package.deps[r] : d \notin S
    <3>1. S \in SUBSET Revisions
      OBVIOUS
    <3> HIDE DEF S
    <3> QED
      BY <3>1, LowestRevision
  <2>2. \A d \in package.deps[r] : Levels[d] \in Nat
    BY <2>1, <1>1
  <2> QED
    BY <2>1, <2>2, <1>2
<1> QED
  BY <1>1, <1>2, <1>3 DEF Revisions

LEMMA BelowIsLower ==
    ASSUME package \in Packages, NEW r \in Revisions, NEW d \in Below(r, package.deps)
    PROVE  d \in Revisions /\ Levels[d] < Levels[r] /\ r \in Workflows
<1> DEFINE Lower(s) == \A e \in Below(s, package.deps) : e \in Revisions /\ Levels[e] < Levels[s]
           S == {s \in Revisions : ~Lower(s)}
<1>1. S = {}
  <2> SUFFICES ASSUME S # {} PROVE FALSE
    OBVIOUS
  <2>1. PICK s \in S : \A e \in package.deps[s] : e \notin S
    <3>1. S \in SUBSET Revisions
      OBVIOUS
    <3> HIDE DEF S
    <3> QED
      BY <3>1, LowestRevision
  <2>2. s \in Workflows /\ s \in Revisions
    BY <2>1, BelowIs DEF Revisions
  <2>3. \A e \in package.deps[s] : e \in Revisions /\ Levels[e] < Levels[s] /\ Lower(e)
    BY <2>1, <2>2, LevelsRise
  <2>4. Below(s, package.deps)
          = package.deps[s] \cup UNION {Below(e, package.deps) : e \in package.deps[s]}
    BY <2>2, BelowIs, KindsAssumption
  <2>5. ASSUME NEW e \in Below(s, package.deps) PROVE e \in Revisions /\ Levels[e] < Levels[s]
    <3>1. CASE e \in package.deps[s]
      BY <3>1, <2>3
    <3>2. CASE \E m \in package.deps[s] : e \in Below(m, package.deps)
      <4>1. PICK m \in package.deps[s] : e \in Below(m, package.deps)
        BY <3>2
      <4>2. e \in Revisions /\ Levels[e] < Levels[m] /\ Levels[m] < Levels[s] /\ m \in Revisions
        BY <4>1, <2>3
      <4> QED
        BY <4>2, <2>2, LevelsRise
    <3> QED
      BY <3>1, <3>2, <2>4
  <2> QED
    BY <2>1, <2>5
<1> QED
  BY <1>1, BelowIs DEF Revisions

LEMMA BelowIsTransitive ==
    ASSUME package \in Packages, NEW r \in Revisions, NEW d \in Below(r, package.deps)
    PROVE  Below(d, package.deps) \subseteq Below(r, package.deps)
<1> DEFINE Through(s) == \A e \in Below(s, package.deps) :
                            Below(e, package.deps) \subseteq Below(s, package.deps)
           S == {s \in Revisions : ~Through(s)}
<1>1. S = {}
  <2> SUFFICES ASSUME S # {} PROVE FALSE
    OBVIOUS
  <2>1. PICK s \in S : \A e \in package.deps[s] : e \notin S
    <3>1. S \in SUBSET Revisions
      OBVIOUS
    <3> HIDE DEF S
    <3> QED
      BY <3>1, LowestRevision
  <2>2. s \in Workflows /\ s \in Revisions
    BY <2>1, BelowIs DEF Revisions
  <2>3. \A e \in package.deps[s] : Through(e)
    BY <2>1, <2>2, LevelsRise
  <2>4. Below(s, package.deps)
          = package.deps[s] \cup UNION {Below(e, package.deps) : e \in package.deps[s]}
    BY <2>2, BelowIs, KindsAssumption
  <2>5. ASSUME NEW e \in Below(s, package.deps)
        PROVE  Below(e, package.deps) \subseteq Below(s, package.deps)
    <3>1. CASE e \in package.deps[s]
      BY <3>1, <2>4
    <3>2. CASE \E m \in package.deps[s] : e \in Below(m, package.deps)
      <4>1. PICK m \in package.deps[s] : e \in Below(m, package.deps)
        BY <3>2
      <4>2. Below(e, package.deps) \subseteq Below(m, package.deps)
        BY <4>1, <2>3
      <4> QED
        BY <4>1, <4>2, <2>4
    <3> QED
      BY <3>1, <3>2, <2>4
  <2> QED
    BY <2>1, <2>5
<1> QED
  BY <1>1

\* What a released workflow of a package contains is released.
LEMMA ReleasedBelow ==
    ASSUME package \in Packages, NEW r \in Revisions, package.state[r] = "RELEASED",
           NEW d \in Below(r, package.deps)
    PROVE  package.state[d] = "RELEASED"
<1> DEFINE Released(s) == \A e \in Below(s, package.deps) : package.state[e] = "RELEASED"
           S == {s \in Revisions : package.state[s] = "RELEASED" /\ ~Released(s)}
<1>1. S = {}
  <2> SUFFICES ASSUME S # {} PROVE FALSE
    OBVIOUS
  <2>1. PICK s \in S : \A e \in package.deps[s] : e \notin S
    <3>1. S \in SUBSET Revisions
      OBVIOUS
    <3> HIDE DEF S
    <3> QED
      BY <3>1, LowestRevision
  <2>2. s \in Workflows /\ s \in Revisions
    BY <2>1, BelowIs DEF Revisions
  <2>3. \A e \in package.deps[s] : package.state[e] = "RELEASED"
    BY <2>1 DEF Packages
  <2>4. \A e \in package.deps[s] : Released(e)
    BY <2>1, <2>2, <2>3, LevelsRise
  <2>5. Below(s, package.deps)
          = package.deps[s] \cup UNION {Below(e, package.deps) : e \in package.deps[s]}
    BY <2>2, BelowIs, KindsAssumption
  <2> QED
    BY <2>1, <2>3, <2>4, <2>5
<1> QED
  BY <1>1


-----------------------------------------------------------------------------
(* The order by increasing level.                                          *)

\* A package's list puts any two revisions one way or the other.
LEMMA ListsAreOrders ==
    ASSUME package \in Packages
    PROVE  \A q, r, s \in Revisions :
              /\ ~ListedBefore(q, q)
              /\ ListedBefore(q, r) /\ ListedBefore(r, s) => ListedBefore(q, s)
              /\ q # r => ListedBefore(q, r) \/ ListedBefore(r, q)
<1> DEFINE o == package.order
           n == Cardinality(Revisions)
<1>1. n \in Nat
  BY KindsAssumption, FS_CardinalityType
<1>2. o \in SetToSeqs(Revisions)
  BY OrdersAssumption DEF Packages
<1>3. o \in [1 .. n -> Revisions] /\ \A i, j \in 1 .. n : o[i] = o[j] => i = j
  BY <1>2 DEF SetToSeqs
<1> HIDE DEF n
<1>4. \A r \in Revisions : \E i \in 1 .. n : o[i] = r
  <2>1. o \in Injection(1 .. n, Revisions)
    BY <1>3 DEF Injection, IsInjective
  <2>2. Cardinality(1 .. n) = n
    BY <1>1, FS_Interval
  <2>3. o \in Surjection(1 .. n, Revisions)
    BY <2>1, <2>2, KindsAssumption, FS_Injection DEF n
  <2> QED
    BY <2>3 DEF Surjection
<1>5. \A q, r : ListedBefore(q, r) <=> \E i, j \in 1 .. n : i < j /\ o[i] = q /\ o[j] = r
  BY <1>3 DEF ListedBefore
<1> HIDE DEF o
<1> SUFFICES ASSUME NEW q \in Revisions, NEW r \in Revisions, NEW s \in Revisions
             PROVE  /\ ~ListedBefore(q, q)
                    /\ ListedBefore(q, r) /\ ListedBefore(r, s) => ListedBefore(q, s)
                    /\ q # r => ListedBefore(q, r) \/ ListedBefore(r, q)
  OBVIOUS
<1>6. ~ListedBefore(q, q)
  BY <1>1, <1>3, <1>5
<1>7. ASSUME ListedBefore(q, r), ListedBefore(r, s) PROVE ListedBefore(q, s)
  <2>1. PICK i, j \in 1 .. n : i < j /\ o[i] = q /\ o[j] = r
    BY <1>5, <1>7
  <2>2. PICK k, l \in 1 .. n : k < l /\ o[k] = r /\ o[l] = s
    BY <1>5, <1>7
  <2>3. j = k
    BY <2>1, <2>2, <1>3
  <2>4. i < l
    BY <2>1, <2>2, <2>3, <1>1
  <2> QED
    BY <2>1, <2>2, <2>4, <1>5
<1>8. ASSUME q # r PROVE ListedBefore(q, r) \/ ListedBefore(r, q)
  <2>1. PICK i \in 1 .. n : o[i] = q
    BY <1>4
  <2>2. PICK j \in 1 .. n : o[j] = r
    BY <1>4
  <2>3. i < j \/ j < i
    BY <2>1, <2>2, <1>1, <1>8
  <2> QED
    BY <2>1, <2>2, <2>3, <1>5
<1> QED
  BY <1>6, <1>7, <1>8

LEMMA EarlierIsOrder ==
    ASSUME package \in Packages
    PROVE  \A q, r, s \in Revisions :
              /\ ~Earlier(q, q)
              /\ Earlier(q, r) /\ Earlier(r, s) => Earlier(q, s)
              /\ q # r => Earlier(q, r) \/ Earlier(r, q)
<1> SUFFICES ASSUME NEW q \in Revisions, NEW r \in Revisions, NEW s \in Revisions
             PROVE  /\ ~Earlier(q, q)
                    /\ Earlier(q, r) /\ Earlier(r, s) => Earlier(q, s)
                    /\ q # r => Earlier(q, r) \/ Earlier(r, q)
  OBVIOUS
<1>1. Levels[q] \in Nat /\ Levels[r] \in Nat /\ Levels[s] \in Nat
  BY LevelsRise
<1>2. /\ ~ListedBefore(q, q)
      /\ ListedBefore(q, r) /\ ListedBefore(r, s) => ListedBefore(q, s)
      /\ q # r => ListedBefore(q, r) \/ ListedBefore(r, q)
  BY ListsAreOrders
<1> QED
  BY <1>1, <1>2 DEF Earlier

\* What comes earlier has fewer revisions before it.
PlaceIn(P, r) == Cardinality({q \in P : Earlier(q, r)})

LEMMA PlacesRise ==
    ASSUME package \in Packages, NEW P \in SUBSET Revisions
    PROVE  /\ IsFiniteSet(P) /\ Cardinality(P) \in Nat
           /\ \A r \in P : PlaceIn(P, r) \in Nat /\ PlaceIn(P, r) < Cardinality(P)
           /\ \A q, r \in P : Earlier(q, r) => PlaceIn(P, q) < PlaceIn(P, r)
<1>1. IsFiniteSet(P) /\ Cardinality(P) \in Nat
  BY KindsAssumption, FS_Subset, FS_CardinalityType
<1>2. ASSUME NEW X \in SUBSET P, NEW Y \in SUBSET X, Y # X
      PROVE  Cardinality(Y) \in Nat /\ Cardinality(X) \in Nat /\ Cardinality(Y) < Cardinality(X)
  <2>1. IsFiniteSet(X)
    BY <1>1, FS_Subset
  <2>2. /\ IsFiniteSet(Y) /\ Cardinality(Y) <= Cardinality(X)
        /\ Cardinality(X) = Cardinality(Y) => X = Y
    BY <2>1, FS_Subset
  <2>3. Cardinality(Y) \in Nat /\ Cardinality(X) \in Nat
    BY <2>1, <2>2, FS_CardinalityType
  <2> QED
    BY <2>2, <2>3, <1>2
<1>3. ASSUME NEW r \in P
      PROVE  PlaceIn(P, r) \in Nat /\ PlaceIn(P, r) < Cardinality(P)
  <2> DEFINE E == {q \in P : Earlier(q, r)}
  <2>1. E \in SUBSET P /\ E # P
    BY EarlierIsOrder
  <2> HIDE DEF E
  <2>2. Cardinality(E) \in Nat /\ Cardinality(E) < Cardinality(P)
    BY <2>1, <1>2
  <2> QED
    BY <2>2 DEF PlaceIn, E
<1>4. ASSUME NEW q \in P, NEW r \in P, Earlier(q, r)
      PROVE  PlaceIn(P, q) < PlaceIn(P, r)
  <2> DEFINE E == {p \in P : Earlier(p, q)}
             F == {p \in P : Earlier(p, r)}
  <2>1. E \in SUBSET F /\ q \in F /\ q \notin E /\ F \in SUBSET P
    BY <1>4, EarlierIsOrder
  <2> HIDE DEF E, F
  <2>2. Cardinality(E) < Cardinality(F)
    BY <2>1, <1>2
  <2> QED
    BY <2>2 DEF PlaceIn, E, F
<1> QED
  BY <1>1, <1>3, <1>4

\* filter_and_order_trafos lists what passes, once each, from lower to higher levels.
LEMMA OrderedIs ==
    ASSUME package \in Packages, NEW P \in SUBSET Revisions
    PROVE  /\ Ordered(P) \in Seq(Revisions) /\ Len(Ordered(P)) \in Nat
           /\ \A i, j \in 1 .. Len(Ordered(P)) : Ordered(P)[i] = Ordered(P)[j] => i = j
           /\ \A r : r \in P <=> \E i \in 1 .. Len(Ordered(P)) : Ordered(P)[i] = r
           /\ \A i, j \in 1 .. Len(Ordered(P)) :
                 i <= j => Levels[Ordered(P)[i]] <= Levels[Ordered(P)[j]]
<1> DEFINE n == Cardinality(P)
           o == Ordered(P)
           place == [r \in P |-> PlaceIn(P, r) + 1]
<1>1. n \in Nat /\ IsFiniteSet(P)
  BY PlacesRise
<1>2. /\ \A r \in P : PlaceIn(P, r) \in Nat /\ PlaceIn(P, r) < n
      /\ \A q, r \in P : Earlier(q, r) => PlaceIn(P, q) < PlaceIn(P, r)
  BY PlacesRise
<1>3. o = [k \in 1 .. n |-> CHOOSE r \in P : PlaceIn(P, r) = k - 1]
  BY DEF Ordered, PlaceIn
<1> HIDE DEF n, o
<1>4. \A q, r \in P : PlaceIn(P, q) = PlaceIn(P, r) => q = r
  <2> SUFFICES ASSUME NEW q \in P, NEW r \in P, PlaceIn(P, q) = PlaceIn(P, r), q # r
               PROVE  FALSE
    OBVIOUS
  <2>1. Earlier(q, r) \/ Earlier(r, q)
    BY EarlierIsOrder
  <2> QED
    BY <2>1, <1>2
<1>5. place \in Injection(P, 1 .. n)
  <2>1. \A r \in P : place[r] \in 1 .. n
    BY <1>1, <1>2
  <2>2. \A q, r \in P : place[q] = place[r] => q = r
    BY <1>2, <1>4
  <2> QED
    BY <2>1, <2>2 DEF Injection, IsInjective
<1>6. place \in Surjection(P, 1 .. n)
  <2>1. IsFiniteSet(1 .. n) /\ Cardinality(1 .. n) = n
    BY <1>1, FS_Interval
  <2> HIDE DEF place
  <2> QED
    BY <2>1, <1>5, FS_Injection DEF n
<1>7. ASSUME NEW k \in 1 .. n PROVE o[k] \in P /\ PlaceIn(P, o[k]) = k - 1
  <2>1. \E r \in P : PlaceIn(P, r) = k - 1
    <3>1. PICK r \in P : place[r] = k
      BY <1>6 DEF Surjection
    <3>2. PlaceIn(P, r) \in Nat /\ PlaceIn(P, r) + 1 = k
      BY <3>1, <1>2
    <3> QED
      BY <3>2
  <2>2. o[k] = CHOOSE r \in P : PlaceIn(P, r) = k - 1
    BY <1>3
  <2> QED
    BY <2>1, <2>2
<1>8. o \in Seq(Revisions) /\ Len(o) = n /\ DOMAIN o = 1 .. n
  <2>1. \A k \in 1 .. n : o[k] \in Revisions
    BY <1>7
  <2>2. DOMAIN o = 1 .. n /\ o = [k \in 1 .. n |-> o[k]]
    BY <1>3
  <2>3. o \in [1 .. n -> Revisions]
    BY <2>1, <2>2
  <2> QED
    BY <2>3, <1>1
<1>9. \A i, j \in 1 .. n : o[i] = o[j] => i = j
  <2> SUFFICES ASSUME NEW i \in 1 .. n, NEW j \in 1 .. n, o[i] = o[j] PROVE i = j
    OBVIOUS
  <2>1. i - 1 = j - 1
    BY <1>7
  <2> QED
    BY <2>1, <1>1
<1>10. ASSUME NEW r \in P PROVE \E i \in 1 .. n : o[i] = r
  <2>1. PlaceIn(P, r) + 1 \in 1 .. n /\ (PlaceIn(P, r) + 1) - 1 = PlaceIn(P, r)
    BY <1>1, <1>2
  <2>2. o[PlaceIn(P, r) + 1] \in P /\ PlaceIn(P, o[PlaceIn(P, r) + 1]) = PlaceIn(P, r)
    BY <2>1, <1>7
  <2> QED
    BY <2>1, <2>2, <1>4
<1>11. ASSUME NEW i \in 1 .. n, NEW j \in 1 .. n, i <= j
       PROVE  Levels[o[i]] <= Levels[o[j]]
  <2>1. Levels[o[i]] \in Nat /\ Levels[o[j]] \in Nat /\ o[i] \in P /\ o[j] \in P
    BY <1>7, LevelsRise
  <2> SUFFICES ASSUME Levels[o[j]] < Levels[o[i]] PROVE FALSE
    BY <2>1
  <2>2. PlaceIn(P, o[j]) < PlaceIn(P, o[i])
    BY <2>1, <1>2 DEF Earlier
  <2>3. PlaceIn(P, o[j]) = j - 1 /\ PlaceIn(P, o[i]) = i - 1
    BY <1>7
  <2> QED
    BY <2>2, <2>3, <1>1, <1>11
<1>12. \A r : r \in P <=> \E i \in 1 .. n : o[i] = r
  BY <1>7, <1>10
<1> QED
  BY <1>1, <1>8, <1>9, <1>11, <1>12 DEF o


-----------------------------------------------------------------------------
(* The filter.                                                             *)

LEMMA TopIs ==
    ASSUME package \in Packages
    PROVE  Top \in Nat /\ \A r \in Revisions : Levels[r] <= Top
<1> DEFINE S == {0} \cup {Levels[r] : r \in Revisions}
<1>1. S \in SUBSET Nat /\ S # {}
  BY LevelsRise
<1>2. IsFiniteSet(S)
  <2>1. [r \in Revisions |-> Levels[r]] \in Surjection(Revisions, {Levels[r] : r \in Revisions})
    BY DEF Surjection
  <2>2. IsFiniteSet({Levels[r] : r \in Revisions})
    BY <2>1, KindsAssumption, FS_Surjection
  <2> QED
    BY <2>2, FS_AddElement
<1>3. Top = Max(S) /\ \A r \in Revisions : Levels[r] \in S
  BY DEF Top
<1> HIDE DEF S
<1>4. Max(S) \in S /\ \A y \in S : y <= Max(S)
  BY <1>1, <1>2, GreatestNumber
<1> QED
  BY <1>1, <1>3, <1>4

PassingFrom(asked, f, n) ==
    IF n = 0 THEN asked
    ELSE f[n - 1] \cup UNION {DirectDependencies(r) : r \in {s \in f[n - 1] : Levels[s] = Top + 1 - n}}

LEMMA PassingExists ==
    ASSUME NEW asked, NEW N \in Nat
    PROVE  \E f : f = [n \in 0 .. N |-> PassingFrom(asked, f, n)]
<1> DEFINE Exists(k) == \E f : f = [n \in 0 .. k |-> PassingFrom(asked, f, n)]
           T == {k \in Nat : ~Exists(k)}
<1>1. T = {}
  <2> SUFFICES ASSUME T # {} PROVE FALSE
    OBVIOUS
  <2>1. PICK k \in T : \A m \in T : k <= m
    <3>1. T \subseteq Nat
      OBVIOUS
    <3> HIDE DEF T
    <3> QED
      BY <3>1, LeastNumber
  <2>2. k # 0
    <3> DEFINE f == [n \in 0 .. 0 |-> asked]
    <3>1. \A n \in 0 .. 0 : asked = PassingFrom(asked, f, n)
      BY DEF PassingFrom
    <3>2. f = [n \in 0 .. 0 |-> asked]
      OBVIOUS
    <3> HIDE DEF f
    <3>3. f = [n \in 0 .. 0 |-> PassingFrom(asked, f, n)]
      BY <3>1, <3>2
    <3>4. Exists(0)
      BY <3>3
    <3> QED
      BY <3>4, <2>1
  <2>3. k \in Nat /\ k - 1 \in Nat /\ ~ (k - 1 \in T)
    BY <2>1, <2>2
  <2>4. PICK g : g = [n \in 0 .. k - 1 |-> PassingFrom(asked, g, n)]
    BY <2>3
  <2> DEFINE h == [n \in 0 .. k |-> PassingFrom(asked, g, n)]
  <2>5. ASSUME NEW n \in 0 .. k PROVE h[n] = PassingFrom(asked, h, n)
    <3>1. n # 0 => n - 1 \in 0 .. k - 1 /\ n - 1 \in 0 .. k
      BY <2>3
    <3>2. n # 0 => h[n - 1] = g[n - 1]
      <4>1. \A m \in 0 .. k - 1 : g[m] = PassingFrom(asked, g, m)
        BY <2>4
      <4>2. \A m \in 0 .. k : h[m] = PassingFrom(asked, g, m)
        OBVIOUS
      <4> HIDE DEF h
      <4> QED
        BY <3>1, <4>1, <4>2
    <3>3. h[n] = PassingFrom(asked, g, n)
      OBVIOUS
    <3> HIDE DEF h
    <3> QED
      BY <3>2, <3>3 DEF PassingFrom
  <2>6. h = [n \in 0 .. k |-> PassingFrom(asked, h, n)]
    <3>1. h = [n \in 0 .. k |-> PassingFrom(asked, g, n)]
      OBVIOUS
    <3>2. \A n \in 0 .. k : h[n] = PassingFrom(asked, g, n)
      OBVIOUS
    <3> HIDE DEF h
    <3> QED
      BY <3>1, <3>2, <2>5
  <2>7. Exists(k)
    <3> HIDE DEF h
    <3> QED
      BY <2>6
  <2> QED
    BY <2>1, <2>7
<1> QED
  BY <1>1

\* The pass over the levels ends with what passes.
LEMMA PassingIs ==
    ASSUME package \in Packages, NEW asked
    PROVE  \E f : Passing(asked) = f[Top + 1] /\ \A n \in 0 .. Top + 1 : f[n] = PassingFrom(asked, f, n)
<1> DEFINE Of(f) == [n \in 0 .. Top + 1 |->
                       IF n = 0 THEN asked
                       ELSE LET upper == f[n - 1]
                            IN  upper \cup UNION {DirectDependencies(r) :
                                                    r \in {s \in upper : Levels[s] = Top + 1 - n}}]
           p == CHOOSE f : f = Of(f)
<1>1. Top + 1 \in Nat
  BY TopIs
<1>2. \A f : Of(f) = [n \in 0 .. Top + 1 |-> PassingFrom(asked, f, n)]
  BY DEF PassingFrom
<1>3. Passing(asked) = p[Top + 1]
  BY DEF Passing
<1>4. p = Of(p)
  <2>1. \E f : f = [n \in 0 .. Top + 1 |-> PassingFrom(asked, f, n)]
    BY <1>1, PassingExists
  <2>2. \E f : f = Of(f)
    <3> HIDE DEF Of
    <3> QED
      BY <2>1, <1>2
  <2> HIDE DEF Of
  <2> QED
    BY <2>2
<1> HIDE DEF p
<1>5. \A n \in 0 .. Top + 1 : p[n] = PassingFrom(asked, p, n)
  <2>1. p = [n \in 0 .. Top + 1 |-> PassingFrom(asked, p, n)]
    <3> HIDE DEF Of
    <3> QED
      BY <1>2, <1>4
  <2> QED
    BY <2>1
<1> QED
  BY <1>3, <1>5

Closed(P) == \A r \in P : DirectDependencies(r) \subseteq P

LEMMA ClosedHasBelow ==
    ASSUME package \in Packages, NEW P \in SUBSET Revisions, Closed(P), NEW r \in P
    PROVE  Below(r, package.deps) \subseteq P
<1> DEFINE S == {s \in P : ~ (Below(s, package.deps) \subseteq P)}
<1>1. S = {}
  <2> SUFFICES ASSUME S # {} PROVE FALSE
    OBVIOUS
  <2>1. PICK s \in S : \A e \in package.deps[s] : e \notin S
    <3>1. S \in SUBSET Revisions
      OBVIOUS
    <3> HIDE DEF S
    <3> QED
      BY <3>1, LowestRevision
  <2>2. s \in P /\ s \in Revisions /\ s \notin Components
    BY <2>1, BelowIs
  <2>3. \A e \in package.deps[s] : e \in P /\ Below(e, package.deps) \subseteq P
    BY <2>1, <2>2 DEF Closed, DirectDependencies
  <2>4. Below(s, package.deps)
          = package.deps[s] \cup UNION {Below(e, package.deps) : e \in package.deps[s]}
    BY <2>2, BelowIs
  <2> QED
    BY <2>1, <2>3, <2>4
<1> QED
  BY <1>1

Closure(asked) == asked \cup UNION {Below(r, package.deps) : r \in asked}

LEMMA ClosureIsClosed ==
    ASSUME package \in Packages, NEW asked \in SUBSET Revisions
    PROVE  Closed(Closure(asked)) /\ Closure(asked) \subseteq Revisions
<1>1. Closure(asked) \subseteq Revisions
  BY BelowIsLower DEF Closure
<1>2. ASSUME NEW s \in Closure(asked), NEW d \in DirectDependencies(s) PROVE d \in Closure(asked)
  <2>1. s \in Revisions /\ d \in Below(s, package.deps)
    BY <1>1, <1>2, BelowIs DEF DirectDependencies
  <2>2. CASE s \in asked
    BY <2>1, <2>2 DEF Closure
  <2>3. CASE \E r \in asked : s \in Below(r, package.deps)
    <3>1. PICK r \in asked : s \in Below(r, package.deps)
      BY <2>3
    <3>2. Below(s, package.deps) \subseteq Below(r, package.deps)
      BY <3>1, BelowIsTransitive
    <3> QED
      BY <2>1, <3>1, <3>2 DEF Closure
  <2> QED
    BY <2>2, <2>3 DEF Closure
<1> QED
  BY <1>1, <1>2 DEF Closed

\* After n levels, from the top, what is reached lies in the closure and has its
\* dependencies reached where its level has been seen.
ReachedBy(asked, n, P) ==
    /\ asked \subseteq P /\ P \subseteq Closure(asked)
    /\ \A r \in P : Levels[r] >= Top + 1 - n => DirectDependencies(r) \subseteq P

\* A level adds lower levels only, so what was seen stays complete.
LEMMA LevelIsPassed ==
    ASSUME package \in Packages, NEW asked \in SUBSET Revisions, NEW n \in Nat, n # 0,
           NEW f, ReachedBy(asked, n - 1, f[n - 1])
    PROVE  ReachedBy(asked, n, PassingFrom(asked, f, n))
<1> DEFINE P == f[n - 1]
           L == {s \in P : Levels[s] = Top + 1 - n}
           Q == P \cup UNION {DirectDependencies(r) : r \in L}
<1>1. PassingFrom(asked, f, n) = Q
  BY DEF PassingFrom
<1>2. asked \subseteq P /\ P \subseteq Closure(asked) /\ P \subseteq Revisions
  BY ClosureIsClosed DEF ReachedBy
<1>3. \A r \in P : Levels[r] >= Top + 1 - (n - 1) => DirectDependencies(r) \subseteq P
  BY DEF ReachedBy
<1> HIDE DEF P
<1>4. Q \subseteq Closure(asked)
  BY <1>2, ClosureIsClosed DEF Closed
<1>5. Top \in Nat /\ \A r \in Closure(asked) : Levels[r] \in Nat
  BY TopIs, LevelsRise, ClosureIsClosed
<1>6. ASSUME NEW r \in Q, Levels[r] >= Top + 1 - n PROVE r \in P
  <2> SUFFICES ASSUME NEW s \in L, r \in DirectDependencies(s) PROVE r \in P
    OBVIOUS
  <2>1. s \in Workflows /\ s \in Revisions /\ Levels[s] = Top + 1 - n /\ r \in package.deps[s]
    BY <1>2 DEF DirectDependencies, Revisions
  <2>2. Levels[r] < Levels[s] /\ r \in Closure(asked) /\ s \in Closure(asked)
    BY <2>1, LevelsRise, <1>2, <1>4
  <2> QED
    BY <2>1, <2>2, <1>5, <1>6
<1>7. ASSUME NEW r \in Q, Levels[r] >= Top + 1 - n PROVE DirectDependencies(r) \subseteq Q
  <2>1. r \in P /\ Levels[r] \in Nat
    BY <1>2, <1>5, <1>6, <1>7
  <2>2. CASE Levels[r] = Top + 1 - n
    BY <2>1, <2>2
  <2>3. CASE Levels[r] >= Top + 1 - (n - 1)
    BY <2>1, <2>3, <1>3
  <2> QED
    BY <2>1, <2>2, <2>3, <1>5, <1>7
<1> QED
  BY <1>1, <1>2, <1>4, <1>7 DEF ReachedBy

\* update_filter_for_dependencies: one pass from the highest level to the lowest lets
\* pass all that is below what was asked for, on every level, and nothing else.
THEOREM FilterIsTheClosure ==
    ASSUME package \in Packages, NEW asked \in SUBSET Revisions
    PROVE  Passing(asked) = asked \cup UNION {Below(r, package.deps) : r \in asked}
<1>1. PICK f : Passing(asked) = f[Top + 1] /\ \A n \in 0 .. Top + 1 : f[n] = PassingFrom(asked, f, n)
  BY PassingIs
<1>2. Top + 1 \in Nat /\ \A r \in Revisions : Levels[r] >= 0
  BY TopIs, LevelsRise
<1> DEFINE T == {n \in 0 .. Top + 1 : ~ReachedBy(asked, n, f[n])}
<1>3. T = {}
  <2> SUFFICES ASSUME T # {} PROVE FALSE
    OBVIOUS
  <2>1. PICK n \in T : \A m \in T : n <= m
    <3>1. T \subseteq Nat
      OBVIOUS
    <3> HIDE DEF T
    <3> QED
      BY <3>1, LeastNumber
  <2>2. n \in Nat /\ n \in 0 .. Top + 1 /\ f[n] = PassingFrom(asked, f, n)
    BY <2>1, <1>1
  <2>3. n # 0
    <3> SUFFICES ASSUME n = 0 PROVE FALSE
      OBVIOUS
    <3>1. f[n] = asked
      BY <2>2 DEF PassingFrom
    <3>2. \A r \in asked : ~ (Levels[r] >= Top + 1 - 0)
      BY TopIs, LevelsRise
    <3>3. ReachedBy(asked, 0, asked)
      BY <3>2 DEF ReachedBy, Closure
    <3> QED
      BY <3>1, <3>3, <2>1
  <2>4. n - 1 \in 0 .. Top + 1 /\ ~ (n - 1 \in T)
    <3>1. n - 1 \in 0 .. Top + 1 /\ ~ (n <= n - 1)
      BY <1>2, <2>2, <2>3
    <3> HIDE DEF T
    <3> QED
      BY <2>1, <3>1
  <2>5. ReachedBy(asked, n - 1, f[n - 1])
    BY <2>4
  <2>6. ReachedBy(asked, n, PassingFrom(asked, f, n))
    BY <2>2, <2>3, <2>5, LevelIsPassed
  <2> QED
    BY <2>1, <2>2, <2>6
<1>4. ReachedBy(asked, Top + 1, Passing(asked))
  BY <1>1, <1>2, <1>3
<1>5. Passing(asked) \subseteq Closure(asked) /\ asked \subseteq Passing(asked)
  BY <1>4 DEF ReachedBy
<1>6. Passing(asked) \subseteq Revisions
  BY <1>5, ClosureIsClosed
<1>7. Closed(Passing(asked))
  <2>1. \A r \in Passing(asked) : Levels[r] >= Top + 1 - (Top + 1)
    BY <1>6, TopIs, LevelsRise
  <2> QED
    BY <2>1, <1>4 DEF ReachedBy, Closed
<1>8. \A r \in asked : Below(r, package.deps) \subseteq Passing(asked)
  BY <1>5, <1>6, <1>7, ClosedHasBelow
<1> QED
  BY <1>5, <1>8 DEF Closure

-----------------------------------------------------------------------------
(* The invariant.                                                          *)

\* What is stored has the state it has in the package, or was deprecated.
StatesArePackaged ==
    \A r \in Revisions :
        \/ db[r] \in {"ABSENT", package.state[r]}
        \/ db[r] = "DISABLED" /\ package.state[r] = "RELEASED"

\* The code of a component says the state it is stored with.
CodeNamesStates == \A c \in Components : code[c] = db[c]

InQueue(r) == \E i \in 1 .. Len(queue) : queue[i] = r

\* What is to be deleted is stored, with it all that contains it is to be deleted, and
\* what contains something comes before it.
DeletionIsOrdered ==
    pc \in {"deleting", "purging"} =>
        /\ \A r \in Revisions : InQueue(r) => r \in Stored /\ \A w \in Containing(r) : InQueue(w)
        /\ \A i, j \in 1 .. Len(queue) : i <= j => Levels[queue[j]] <= Levels[queue[i]]

ImportInv ==
    /\ TypeOK
    /\ package \in Packages
    /\ StatesArePackaged
    /\ CodeNamesStates
    /\ StoreIsClosed
    /\ DeletionIsOrdered

\* Sequences without repetitions.
LEMMA TailOf ==
    ASSUME NEW q \in Seq(Revisions), IsInjective(q), q # <<>>
    PROVE  /\ Head(q) = q[1] /\ Head(q) \in Revisions
           /\ Len(q) \in Nat /\ Len(q) > 0
           /\ Tail(q) \in Seq(Revisions) /\ Len(Tail(q)) = Len(q) - 1
           /\ \A i \in 1 .. Len(q) - 1 : Tail(q)[i] = q[i + 1]
           /\ \A i, j \in 1 .. Len(q) : q[i] = q[j] => i = j
           /\ IsInjective(Tail(q))
<1>1. Len(q) \in Nat /\ Len(q) > 0 /\ DOMAIN q = 1 .. Len(q)
  OBVIOUS
<1>2. Head(q) = q[1] /\ Head(q) \in Revisions
  OBVIOUS
<1>3. Tail(q) \in Seq(Revisions) /\ Len(Tail(q)) = Len(q) - 1
  OBVIOUS
<1>4. \A i \in 1 .. Len(q) - 1 : Tail(q)[i] = q[i + 1]
  OBVIOUS
<1>5. \A i, j \in 1 .. Len(q) : q[i] = q[j] => i = j
  BY <1>1 DEF IsInjective
<1>6. DOMAIN Tail(q) = 1 .. Len(q) - 1
  BY <1>3
<1>7. IsInjective(Tail(q))
  <2> SUFFICES ASSUME NEW i \in 1 .. Len(q) - 1, NEW j \in 1 .. Len(q) - 1, Tail(q)[i] = Tail(q)[j]
               PROVE  i = j
    BY <1>6 DEF IsInjective
  <2>1. q[i + 1] = q[j + 1] /\ i + 1 \in 1 .. Len(q) /\ j + 1 \in 1 .. Len(q)
    BY <1>1, <1>4
  <2>2. i + 1 = j + 1
    BY <2>1, <1>5
  <2> QED
    BY <2>2, <1>1
<1> QED
  BY <1>1, <1>2, <1>3, <1>4, <1>5, <1>7

LEMMA QueuesAreSequences ==
    ASSUME package \in Packages, NEW P \in SUBSET Revisions
    PROVE  /\ Ordered(P) \in Seq(Revisions) /\ IsInjective(Ordered(P))
           /\ DeletionOrder(P) \in Seq(Revisions) /\ IsInjective(DeletionOrder(P))
           /\ \A r : r \in P <=> \E i \in 1 .. Len(DeletionOrder(P)) : DeletionOrder(P)[i] = r
           /\ \A i, j \in 1 .. Len(DeletionOrder(P)) :
                 i <= j => Levels[DeletionOrder(P)[j]] <= Levels[DeletionOrder(P)[i]]
<1> DEFINE o == Ordered(P)
           n == Len(o)
           d == DeletionOrder(P)
<1>1. /\ o \in Seq(Revisions) /\ n \in Nat
      /\ \A i, j \in 1 .. n : o[i] = o[j] => i = j
      /\ \A r : r \in P <=> \E i \in 1 .. n : o[i] = r
      /\ \A i, j \in 1 .. n : i <= j => Levels[o[i]] <= Levels[o[j]]
  BY OrderedIs
<1>2. d = [i \in 1 .. n |-> o[(n - i) + 1]]
  BY DEF DeletionOrder, Reverse
<1> HIDE DEF d, n, o
<1>3. DOMAIN o = 1 .. n /\ \A i \in 1 .. n : o[i] \in Revisions
  BY <1>1 DEF n
<1>4. IsInjective(o)
  BY <1>1, <1>3 DEF IsInjective
<1>5. \A i \in 1 .. n : (n - i) + 1 \in 1 .. n /\ d[i] = o[(n - i) + 1]
  BY <1>1, <1>2
<1>6. d \in Seq(Revisions) /\ Len(d) = n /\ DOMAIN d = 1 .. n
  <2>1. d \in [1 .. n -> Revisions]
    BY <1>2, <1>3, <1>5
  <2> QED
    BY <2>1, <1>1
<1>7. IsInjective(d)
  <2> SUFFICES ASSUME NEW i \in 1 .. n, NEW j \in 1 .. n, d[i] = d[j] PROVE i = j
    BY <1>6 DEF IsInjective
  <2>1. (n - i) + 1 = (n - j) + 1
    BY <1>1, <1>5
  <2> QED
    BY <2>1, <1>1
<1>8. ASSUME NEW r \in P PROVE \E i \in 1 .. n : d[i] = r
  <2>1. PICK i \in 1 .. n : o[i] = r
    BY <1>1
  <2>2. (n - i) + 1 \in 1 .. n /\ (n - ((n - i) + 1)) + 1 = i
    BY <1>1
  <2>3. d[(n - i) + 1] = o[i]
    BY <2>2, <1>5
  <2> QED
    BY <2>1, <2>2, <2>3
<1>9. \A i \in 1 .. n : d[i] \in P
  BY <1>1, <1>5
<1>10. ASSUME NEW i \in 1 .. n, NEW j \in 1 .. n, i <= j PROVE Levels[d[j]] <= Levels[d[i]]
  <2> DEFINE k == (n - j) + 1
             l == (n - i) + 1
  <2>1. k <= l
    BY <1>1, <1>10
  <2>2. k \in 1 .. n /\ l \in 1 .. n /\ d[j] = o[k] /\ d[i] = o[l]
    BY <1>5
  <2> HIDE DEF k, l
  <2>3. Levels[o[k]] <= Levels[o[l]]
    BY <2>1, <2>2, <1>1
  <2> QED
    BY <2>2, <2>3
<1>11. \A r : r \in P <=> \E i \in 1 .. n : d[i] = r
  BY <1>8, <1>9
<1> QED
  BY <1>1, <1>4, <1>6, <1>7, <1>10, <1>11 DEF o, d

\* What an action that writes no revision keeps.
LEMMA StoreKept ==
    ASSUME ImportInv, package' = package, db' = db, code' = code
    PROVE  package' \in Packages /\ StatesArePackaged' /\ CodeNamesStates' /\ StoreIsClosed'
BY DEF ImportInv, StatesArePackaged, CodeNamesStates, StoreIsClosed

LEMMA OverKeeps ==
    ASSUME ImportInv, Over, UNCHANGED <<package, stored>>
    PROVE  ImportInv'
<1>1. package' = package /\ db' = db /\ code' = code /\ marked' = marked
  BY DEF stored
<1>2. TypeOK'
  BY <1>1 DEF ImportInv, TypeOK, Over, IsInjective
<1>3. DeletionIsOrdered'
  BY DEF DeletionIsOrdered, Over
<1> QED
  BY <1>1, <1>2, <1>3, StoreKept DEF ImportInv

LEMMA InitEstablishesInv ==
    ASSUME Init
    PROVE  ImportInv
<1>1. TypeOK
  BY DEF Init, TypeOK, IsInjective
<1>2. StatesArePackaged /\ CodeNamesStates /\ StoreIsClosed /\ DeletionIsOrdered
  BY DEF Init, StatesArePackaged, CodeNamesStates, StoreIsClosed, DeletionIsOrdered, Revisions
<1> QED
  BY <1>1, <1>2 DEF ImportInv, Init

LEMMA BeginKeeps ==
    ASSUME ImportInv, Begin
    PROVE  ImportInv'
<1>1. package' = package /\ db' = db /\ code' = code /\ marked' = marked /\ pc' = "importing"
  BY DEF Begin, stored
<1>2. PICK params \in Params, include_dependencies \in BOOLEAN :
        LET asked == Matching(params, package.state)
            passing == IF include_dependencies THEN Passing(asked) ELSE asked
        IN  /\ queue' = Ordered(passing)
            /\ report' = [r \in Revisions |-> IF r \in passing THEN "NOT_TRIED" ELSE "IGNORED"]
  BY DEF Begin
<1> DEFINE asked == Matching(params, package.state)
           passing == IF include_dependencies THEN Passing(asked) ELSE asked
<1>3. package \in Packages /\ asked \in SUBSET Revisions
  BY DEF ImportInv, Matching, Params
<1>4. passing \in SUBSET Revisions
  <2>1. Passing(asked) = Closure(asked)
    BY <1>3, FilterIsTheClosure DEF Closure
  <2> QED
    BY <1>3, <2>1, ClosureIsClosed
<1>5. queue' \in Seq(Revisions) /\ IsInjective(queue')
  <2> HIDE DEF passing
  <2> QED
    BY <1>2, <1>3, <1>4, QueuesAreSequences DEF passing
<1>6. report' \in [Revisions -> {"IGNORED", "NOT_TRIED", "FAILED", "SUCCESS"}]
  BY <1>2
<1>7. options' \in Options \cup {{}} /\ groups' = groups
  BY DEF Begin
<1>8. TypeOK'
  BY <1>1, <1>5, <1>6, <1>7 DEF ImportInv, TypeOK
<1>9. DeletionIsOrdered'
  BY <1>1 DEF DeletionIsOrdered
<1> QED
  BY <1>1, <1>8, <1>9, StoreKept DEF ImportInv

LEMMA DeprecationBegins ==
    ASSUME ImportInv, BeginDeprecation \/ DeprecateAllButLatest
    PROVE  ImportInv'
<1>1. package' = package /\ db' = db /\ code' = code /\ marked' = marked /\ pc' = "deprecating"
  BY DEF BeginDeprecation, DeprecateAllButLatest, stored
<1>2. queue' = queue /\ options' = options /\ report' = report
  BY DEF BeginDeprecation, DeprecateAllButLatest
<1>3. groups' \subseteq {GroupOf[r] : r \in Revisions}
  BY DEF BeginDeprecation, DeprecateAllButLatest
<1>4. TypeOK'
  BY <1>1, <1>2, <1>3 DEF ImportInv, TypeOK
<1>5. DeletionIsOrdered'
  BY <1>1 DEF DeletionIsOrdered
<1> QED
  BY <1>1, <1>4, <1>5, StoreKept DEF ImportInv

LEMMA RefillKeeps ==
    ASSUME ImportInv, Refill
    PROVE  ImportInv'
<1>1. package' = package /\ db' = db /\ code' = code /\ marked' = marked /\ pc' = "importing"
  BY DEF Refill, stored
<1>2. queue' \in Seq(Revisions) /\ IsInjective(queue')
  BY QueuesAreSequences DEF Refill, ImportInv
<1>3. TypeOK'
  BY <1>1, <1>2 DEF ImportInv, TypeOK, Refill
<1>4. DeletionIsOrdered'
  BY <1>1 DEF DeletionIsOrdered
<1> QED
  BY <1>1, <1>3, <1>4, StoreKept DEF ImportInv

\* A workflow is stored after all that it contains.
LEMMA ImportKeepsStore ==
    ASSUME ImportInv, NEW r \in Revisions, Import(r), package' = package
    PROVE  StatesArePackaged' /\ StoreIsClosed'
<1>1. /\ OperatorsFound(r, db)
      /\ db' = [db EXCEPT ![r] = package.state[r]]
  BY DEF Import, Importable
<1>2. /\ package \in Packages
      /\ \A s \in Revisions : package.state[s] \in {"DRAFT", "RELEASED"}
      /\ db \in [Revisions -> {"ABSENT", "DRAFT", "RELEASED", "DISABLED"}]
      /\ StatesArePackaged /\ StoreIsClosed
  BY DEF ImportInv, TypeOK, Packages
<1>3. StatesArePackaged'
  BY <1>1, <1>2 DEF StatesArePackaged
<1>4. \A s \in Revisions : db[s] # "ABSENT" \/ s = r => db'[s] # "ABSENT"
  BY <1>1, <1>2
<1>5. ASSUME NEW w \in Workflows, db'[w] # "ABSENT", NEW d \in Below(w, package.deps)
      PROVE  db'[d] # "ABSENT"
  <2>1. w \in Revisions /\ d \in Revisions /\ w \notin Components
    BY <1>2, BelowIsLower, KindsAssumption DEF Revisions
  <2>2. CASE db[w] # "ABSENT"
    BY <2>1, <2>2, <1>2, <1>4 DEF StoreIsClosed
  <2>3. CASE w = r
    <3>1. \A e \in package.deps[w] : e \in Revisions /\ db[e] # "ABSENT"
      BY <1>1, <1>2, <2>3, LevelsRise DEF OperatorsFound
    <3>2. Below(w, package.deps)
            = package.deps[w] \cup UNION {Below(e, package.deps) : e \in package.deps[w]}
      BY <2>1, <1>2, BelowIs
    <3>3. CASE d \in package.deps[w]
      BY <3>1, <3>3, <1>4
    <3>4. CASE \E e \in package.deps[w] : d \in Below(e, package.deps)
      <4>1. PICK e \in package.deps[w] : d \in Below(e, package.deps)
        BY <3>4
      <4>2. e \in Workflows /\ db[e] # "ABSENT"
        BY <3>1, <4>1, <1>2, BelowIsLower
      <4> QED
        BY <4>1, <4>2, <2>1, <1>2, <1>4 DEF StoreIsClosed
    <3> QED
      BY <3>2, <3>3, <3>4
  <2>4. db[w] # "ABSENT" \/ w = r
    BY <2>1, <1>1, <1>2, <1>5
  <2> QED
    BY <2>2, <2>3, <2>4
<1>6. StoreIsClosed'
  BY <1>5 DEF StoreIsClosed
<1> QED
  BY <1>3, <1>6

LEMMA ImportNextKeeps ==
    ASSUME ImportInv, ImportNext
    PROVE  ImportInv'
<1> DEFINE r == Head(queue)
<1>1. /\ pc = "importing" /\ queue # <<>> /\ queue' = Tail(queue)
      /\ package' = package /\ options' = options /\ groups' = groups /\ pc' = pc
  BY DEF ImportNext
<1>2. r \in Revisions /\ queue' \in Seq(Revisions) /\ IsInjective(queue')
  BY <1>1, TailOf DEF ImportInv, TypeOK
<1>3. DeletionIsOrdered'
  BY <1>1 DEF DeletionIsOrdered
<1>4. CASE Import(r)
  <2>1. \A s \in Revisions : package.state[s] \in {"DRAFT", "RELEASED"}
    BY DEF ImportInv, Packages
  <2>2. StatesArePackaged' /\ StoreIsClosed'
    <3> HIDE DEF r
    <3> QED
      BY <1>1, <1>2, <1>4, ImportKeepsStore
  <2>3. /\ db' = [db EXCEPT ![r] = package.state[r]]
        /\ code' = IF r \in Components THEN [code EXCEPT ![r] = package.state[r]] ELSE code
        /\ marked' = marked \ {r} /\ report' = [report EXCEPT ![r] = "SUCCESS"]
    BY <1>4 DEF Import, WithCode
  <2> HIDE DEF r
  <2>4. db' \in [Revisions -> {"ABSENT", "DRAFT", "RELEASED", "DISABLED"}]
    BY <1>2, <2>1, <2>3 DEF ImportInv, TypeOK
  <2>5. code' \in [Components -> {"ABSENT", "DRAFT", "RELEASED", "DISABLED"}]
    BY <1>2, <2>1, <2>3 DEF ImportInv, TypeOK
  <2>6. marked' \subseteq {w \in Workflows : db'[w] # "ABSENT"}
    BY <1>2, <2>1, <2>3 DEF ImportInv, TypeOK, Revisions
  <2>7. report' \in [Revisions -> {"IGNORED", "NOT_TRIED", "FAILED", "SUCCESS"}]
    BY <1>2, <2>3 DEF ImportInv, TypeOK
  <2>8. TypeOK'
    BY <1>1, <1>2, <2>4, <2>5, <2>6, <2>7 DEF ImportInv, TypeOK
  <2>9. CodeNamesStates'
    BY <1>2, <2>3 DEF ImportInv, TypeOK, CodeNamesStates, Revisions
  <2> QED
    BY <1>1, <1>3, <2>2, <2>8, <2>9 DEF ImportInv
<1>5. CASE ~Importable(r) /\ report' = [report EXCEPT ![r] = "FAILED"] /\ UNCHANGED stored
  <2> HIDE DEF r
  <2>1. package' = package /\ db' = db /\ code' = code /\ marked' = marked
    BY <1>1, <1>5 DEF stored
  <2>2. TypeOK'
    BY <1>1, <1>2, <1>5, <2>1 DEF ImportInv, TypeOK
  <2> QED
    BY <1>3, <2>1, <2>2, StoreKept DEF ImportInv
<1> QED
  BY <1>4, <1>5 DEF ImportNext

LEMMA DeprecateNextKeeps ==
    ASSUME ImportInv, DeprecateNext
    PROVE  ImportInv'
<1>1. PICK g \in groups : \E r \in Outdated(g) :
          IF ImportsFound(r, "DISABLED", db)
          THEN /\ Deprecate(r)
               /\ UNCHANGED <<package, options, queue, groups, report, pc>>
          ELSE Over /\ UNCHANGED <<package, stored>>
  BY DEF DeprecateNext
<1>2. PICK r \in Outdated(g) :
          IF ImportsFound(r, "DISABLED", db)
          THEN /\ Deprecate(r)
               /\ UNCHANGED <<package, options, queue, groups, report, pc>>
          ELSE Over /\ UNCHANGED <<package, stored>>
  BY <1>1
<1>3. r \in Revisions /\ db[r] = "RELEASED" /\ pc = "deprecating"
  BY DEF Outdated, ReleasedIn, DeprecateNext
<1>4. CASE ~ImportsFound(r, "DISABLED", db)
  BY <1>2, <1>4, OverKeeps
<1>5. CASE ImportsFound(r, "DISABLED", db)
  <2>1. /\ db' = [db EXCEPT ![r] = "DISABLED"]
        /\ code' = IF r \in Components THEN [code EXCEPT ![r] = "DISABLED"] ELSE code
        /\ marked' = marked \cup {w \in Workflows : db[w] # "ABSENT" /\ r \in Below(w, package.deps)}
        /\ UNCHANGED <<package, options, queue, groups, report, pc>>
    BY <1>2, <1>5 DEF Deprecate, UpdatedCode, WithCode
  <2>2. db' \in [Revisions -> {"ABSENT", "DRAFT", "RELEASED", "DISABLED"}]
    BY <1>3, <2>1 DEF ImportInv, TypeOK
  <2>3. \A s \in Revisions : db'[s] = "ABSENT" <=> db[s] = "ABSENT"
    BY <1>3, <2>1 DEF ImportInv, TypeOK
  <2>4. code' \in [Components -> {"ABSENT", "DRAFT", "RELEASED", "DISABLED"}]
    BY <2>1 DEF ImportInv, TypeOK
  <2>5. marked' \subseteq {w \in Workflows : db'[w] # "ABSENT"}
    BY <2>1, <2>3 DEF ImportInv, TypeOK, Revisions
  <2>6. TypeOK'
    BY <2>1, <2>2, <2>4, <2>5 DEF ImportInv, TypeOK, IsInjective
  <2>7. StatesArePackaged'
    <3>1. \A s \in Revisions : package.state[s] \in {"DRAFT", "RELEASED"}
      BY DEF ImportInv, Packages
    <3>2. package.state[r] = "RELEASED"
      BY <1>3, <3>1 DEF ImportInv, StatesArePackaged
    <3>3. \A s \in Revisions : db'[s] = IF s = r THEN "DISABLED" ELSE db[s]
      BY <1>3, <2>1 DEF ImportInv, TypeOK
    <3> QED
      BY <2>1, <3>2, <3>3 DEF ImportInv, StatesArePackaged
  <2>8. StoreIsClosed'
    <3>1. \A w \in Workflows : \A d \in Below(w, package.deps) : w \in Revisions /\ d \in Revisions
      BY BelowIsLower DEF ImportInv, Revisions
    <3> QED
      BY <2>1, <2>3, <3>1 DEF ImportInv, StoreIsClosed
  <2>9. DeletionIsOrdered'
    BY <1>3, <2>1 DEF DeletionIsOrdered
  <2>10. CodeNamesStates'
    BY <1>3, <2>1 DEF ImportInv, TypeOK, CodeNamesStates, Revisions
  <2> QED
    BY <2>1, <2>6, <2>7, <2>8, <2>9, <2>10 DEF ImportInv
<1> QED
  BY <1>4, <1>5

\* delete_drafts, delete_unused_deprecated, delete_all_and_refill select with what they
\* select all that contains it.
LEMMA SelectionContains ==
    ASSUME ImportInv, NEW operation \in {"delete_drafts", "delete_unused_deprecated", "purge"},
           NEW r \in Selected(operation), NEW w \in Containing(r)
    PROVE  w \in Selected(operation)
<1>1. /\ w \in Workflows /\ w \in Revisions /\ w \in Stored
      /\ r \in Below(w, package.deps) /\ package \in Packages
  BY DEF Containing, ImportInv, Revisions
<1>2. /\ Selected("delete_drafts") = {s \in Stored : db[s] = "DRAFT"}
      /\ Selected("delete_unused_deprecated") = {s \in Stored : db[s] = "DISABLED" /\ Unused(s)}
      /\ Selected("purge") = Stored
  BY DEF Selected
<1>3. CASE operation = "delete_drafts"
  <2>1. r \in Revisions /\ db[r] = "DRAFT"
    BY <1>2, <1>3 DEF Stored
  <2>2. package.state[r] = "DRAFT" /\ package.state[w] \in {"DRAFT", "RELEASED"}
    BY <1>1, <2>1 DEF ImportInv, StatesArePackaged, Packages
  <2>3. package.state[w] = "DRAFT"
    BY <1>1, <2>2, ReleasedBelow
  <2>4. db[w] = "DRAFT"
    BY <1>1, <2>3 DEF ImportInv, StatesArePackaged, Stored
  <2> QED
    BY <1>1, <1>2, <1>3, <2>4
<1>4. CASE operation = "delete_unused_deprecated"
  <2>1. Unused(r) /\ db[w] = "DISABLED"
    BY <1>2, <1>4 DEF Unused
  <2>2. ASSUME NEW v \in Containing(w) PROVE db[v] = "DISABLED"
    <3>1. v \in Workflows \cap Stored /\ w \in Below(v, package.deps) /\ v \in Revisions
      BY DEF Containing, Revisions
    <3>2. Below(w, package.deps) \subseteq Below(v, package.deps)
      BY <1>1, <3>1, BelowIsTransitive
    <3>3. v \in Containing(r)
      BY <1>1, <3>1, <3>2 DEF Containing
    <3> QED
      BY <2>1, <3>3 DEF Unused
  <2> QED
    BY <1>1, <1>2, <1>4, <2>1, <2>2 DEF Unused
<1>5. CASE operation = "purge"
  BY <1>1, <1>2, <1>5
<1> QED
  BY <1>3, <1>4, <1>5

LEMMA DeletionBegins ==
    ASSUME ImportInv, BeginDeletion
    PROVE  ImportInv'
<1>1. /\ package' = package /\ db' = db /\ code' = code /\ marked' = marked
      /\ options' = options /\ groups' = groups /\ report' = report
  BY DEF BeginDeletion, stored
<1>2. PICK operation \in {"delete_drafts", "delete_unused_deprecated", "purge"} :
          /\ queue' = DeletionOrder(Selected(operation))
          /\ pc' = IF operation = "purge" THEN "purging" ELSE "deleting"
  BY DEF BeginDeletion
<1> DEFINE P == Selected(operation)
<1>3. P \subseteq Stored /\ Stored \subseteq Revisions /\ package \in Packages
  BY DEF Selected, Stored, ImportInv
<1>4. \A r \in P : \A w \in Containing(r) : w \in P
  BY SelectionContains
<1> HIDE DEF P
<1>5. /\ queue' \in Seq(Revisions) /\ IsInjective(queue')
      /\ \A r : r \in P <=> \E i \in 1 .. Len(queue') : queue'[i] = r
      /\ \A i, j \in 1 .. Len(queue') : i <= j => Levels[queue'[j]] <= Levels[queue'[i]]
  BY <1>2, <1>3, QueuesAreSequences DEF P
<1>6. TypeOK'
  BY <1>1, <1>2, <1>5 DEF ImportInv, TypeOK
<1>7. Levels' = Levels /\ Stored' = Stored /\ \A r : Containing(r)' = Containing(r)
  BY <1>1 DEF Levels, Stored, Containing
<1>8. \A r : InQueue(r)' <=> r \in P
  BY <1>5 DEF InQueue
<1>9. DeletionIsOrdered'
  BY <1>3, <1>4, <1>5, <1>7, <1>8 DEF DeletionIsOrdered
<1> QED
  BY <1>1, <1>6, <1>9, StoreKept DEF ImportInv

\* What contains the next one to be deleted would be of a higher level.
LEMMA NextIsDeletable ==
    ASSUME ImportInv, pc \in {"deleting", "purging"}, queue # <<>>
    PROVE  Deletable(Head(queue))
<1> DEFINE r == Head(queue)
<1>1. /\ r = queue[1] /\ r \in Revisions /\ Len(queue) \in Nat /\ Len(queue) > 0
  BY TailOf DEF ImportInv, TypeOK
<1>2. InQueue(r)
  BY <1>1 DEF InQueue
<1> HIDE DEF r
<1>3. ASSUME NEW w \in Containing(r) PROVE FALSE
  <2>1. w \in Workflows /\ w \in Revisions /\ r \in Below(w, package.deps)
    BY DEF Containing, Revisions
  <2>2. Levels[r] < Levels[w]
    BY <2>1, BelowIsLower DEF ImportInv
  <2>3. InQueue(w)
    BY <1>1, <1>2 DEF ImportInv, DeletionIsOrdered
  <2>4. PICK i \in 1 .. Len(queue) : queue[i] = w
    BY <2>3 DEF InQueue
  <2>5. 1 \in 1 .. Len(queue) /\ 1 <= i
    BY <1>1
  <2>6. Levels[queue[i]] <= Levels[queue[1]]
    BY <2>5 DEF ImportInv, DeletionIsOrdered
  <2>7. Levels[r] \in Nat /\ Levels[w] \in Nat
    BY <1>1, <2>1, LevelsRise DEF ImportInv
  <2> QED
    BY <1>1, <2>2, <2>4, <2>6, <2>7
<1> QED
  BY <1>3 DEF Deletable, r

LEMMA DeleteNextKeeps ==
    ASSUME ImportInv, DeleteNext
    PROVE  ImportInv'
<1> DEFINE r == Head(queue)
<1>1. pc \in {"deleting", "purging"} /\ queue # <<>>
  BY DEF DeleteNext
<1>2. Deletable(r)
  BY <1>1, NextIsDeletable
<1>3. /\ db' = [db EXCEPT ![r] = "ABSENT"]
      /\ code' = IF r \in Components THEN [code EXCEPT ![r] = "ABSENT"] ELSE code
      /\ marked' = marked \ {r}
      /\ queue' = Tail(queue)
      /\ UNCHANGED <<package, options, groups, report, pc>>
  BY <1>2 DEF DeleteNext, WithCode
<1>4. /\ r = queue[1] /\ r \in Revisions /\ Len(queue) \in Nat /\ Len(queue) > 0
      /\ queue' \in Seq(Revisions) /\ Len(queue') = Len(queue) - 1 /\ IsInjective(queue')
      /\ \A i \in 1 .. Len(queue) - 1 : queue'[i] = queue[i + 1]
      /\ \A i, j \in 1 .. Len(queue) : queue[i] = queue[j] => i = j
  BY <1>1, <1>3, TailOf DEF ImportInv, TypeOK
<1> HIDE DEF r
<1>5. \A s \in Revisions : db'[s] = IF s = r THEN "ABSENT" ELSE db[s]
  BY <1>3, <1>4 DEF ImportInv, TypeOK
<1>6. TypeOK'
  <2>1. db' \in [Revisions -> {"ABSENT", "DRAFT", "RELEASED", "DISABLED"}]
    BY <1>3 DEF ImportInv, TypeOK
  <2>2. code' \in [Components -> {"ABSENT", "DRAFT", "RELEASED", "DISABLED"}]
    BY <1>3 DEF ImportInv, TypeOK
  <2>3. marked' \subseteq {w \in Workflows : db'[w] # "ABSENT"}
    BY <1>3, <1>5 DEF ImportInv, TypeOK, Revisions
  <2> QED
    BY <1>3, <1>4, <2>1, <2>2, <2>3 DEF ImportInv, TypeOK
<1>7. StatesArePackaged'
  BY <1>3, <1>5 DEF ImportInv, StatesArePackaged
<1>8. StoreIsClosed'
  <2> SUFFICES ASSUME NEW w \in Workflows, db'[w] # "ABSENT", NEW d \in Below(w, package.deps)
               PROVE  db'[d] # "ABSENT"
    BY <1>3 DEF StoreIsClosed
  <2>1. w \in Revisions /\ d \in Revisions
    BY BelowIsLower DEF ImportInv, Revisions
  <2>2. db[w] # "ABSENT" /\ db[d] # "ABSENT"
    BY <1>5, <2>1 DEF ImportInv, StoreIsClosed
  <2>3. d # r
    BY <1>2, <2>1, <2>2 DEF Deletable, Containing, Stored
  <2> QED
    BY <1>5, <2>1, <2>2, <2>3
<1>9. ASSUME NEW s \in Revisions, InQueue(s)'
      PROVE  s # r /\ InQueue(s)
  <2>1. PICK i \in 1 .. Len(queue') : queue'[i] = s
    BY <1>9 DEF InQueue
  <2>2. i + 1 \in 1 .. Len(queue) /\ 1 \in 1 .. Len(queue) /\ i + 1 # 1 /\ queue[i + 1] = s
    BY <1>4, <2>1
  <2> QED
    BY <1>4, <2>2 DEF InQueue
<1>10. ASSUME NEW s \in Revisions, InQueue(s), s # r
       PROVE  InQueue(s)'
  <2>1. PICK i \in 1 .. Len(queue) : queue[i] = s
    BY <1>10 DEF InQueue
  <2>2. i - 1 \in 1 .. Len(queue') /\ i - 1 \in 1 .. Len(queue) - 1 /\ (i - 1) + 1 = i
    BY <1>4, <1>10, <2>1
  <2>3. queue'[i - 1] = s
    BY <1>4, <2>1, <2>2
  <2> QED
    BY <2>2, <2>3 DEF InQueue
<1>11. DeletionIsOrdered'
  <2>1. ASSUME NEW s \in Revisions, InQueue(s)'
        PROVE  s \in Stored' /\ \A w \in Containing(s)' : InQueue(w)'
    <3>1. s # r /\ InQueue(s)
      BY <1>9, <2>1
    <3>2. s \in Stored /\ \A w \in Containing(s) : InQueue(w)
      BY <1>1, <3>1 DEF ImportInv, DeletionIsOrdered
    <3>3. \A w \in Containing(s)' : w \in Containing(s) /\ w # r /\ w \in Revisions
      BY <1>3, <1>5 DEF Containing, Stored, Revisions
    <3> QED
      BY <1>5, <1>10, <3>1, <3>2, <3>3 DEF Stored
  <2>2. Levels' = Levels
    BY <1>3 DEF Levels
  <2>3. ASSUME NEW i \in 1 .. Len(queue'), NEW j \in 1 .. Len(queue'), i <= j
        PROVE  Levels[queue'[j]] <= Levels[queue'[i]]
    <3> DEFINE k == i + 1
               l == j + 1
    <3>1. /\ k \in 1 .. Len(queue) /\ l \in 1 .. Len(queue) /\ k <= l
          /\ queue'[i] = queue[k] /\ queue'[j] = queue[l]
      BY <1>4, <2>3
    <3> HIDE DEF k, l
    <3>2. Levels[queue[l]] <= Levels[queue[k]]
      BY <1>1, <3>1 DEF ImportInv, DeletionIsOrdered
    <3> QED
      BY <3>1, <3>2
  <2> QED
    BY <2>1, <2>2, <2>3 DEF DeletionIsOrdered
<1>12. CodeNamesStates'
  BY <1>3, <1>4 DEF ImportInv, TypeOK, CodeNamesStates, Revisions
<1> QED
  BY <1>3, <1>6, <1>7, <1>8, <1>11, <1>12 DEF ImportInv

-----------------------------------------------------------------------------
(* What exports restore.                                                   *)

\* What components import, on all levels, comes with them where it is stored.
LEMMA ImportedIsClosed ==
    ASSUME package \in Packages, NEW r \in Revisions, Imported(r) \subseteq Stored
    PROVE  r \in Imported(r) /\ \A s \in Imported(r) : package.deps[s] \subseteq Imported(r)
<1> DEFINE Whole(s) == Imported(s) \subseteq Stored =>
                          \A e \in Imported(s) : package.deps[e] \subseteq Imported(s)
           S == {s \in Revisions : ~Whole(s)}
<1>1. S = {}
  <2> SUFFICES ASSUME S # {} PROVE FALSE
    OBVIOUS
  <2>1. PICK s \in S : \A e \in package.deps[s] : e \notin S
    <3>1. S \in SUBSET Revisions
      OBVIOUS
    <3> HIDE DEF S
    <3> QED
      BY <3>1, LowestRevision
  <2>2. s \in Revisions /\ Imported(s) \subseteq Stored
    BY <2>1
  <2>3. Imported(s) = {s} \cup UNION {IF d \in Stored THEN Imported(d) ELSE {d} : d \in package.deps[s]}
    BY <2>2, ImportedIs
  <2>4. ASSUME NEW d \in package.deps[s]
        PROVE  d \in Imported(d) /\ Imported(d) \subseteq Imported(s) /\ Whole(d)
    <3>1. d \in Revisions
      BY <2>2, DependenciesRank
    <3>2. d \in Stored
      BY <2>2, <2>3
    <3>3. Imported(d) \subseteq Imported(s)
      BY <2>3, <3>2
    <3>4. d \in Imported(d)
      BY <3>1, ImportedIs
    <3> QED
      BY <2>1, <3>1, <3>3, <3>4
  <2>5. ASSUME NEW e \in Imported(s) PROVE package.deps[e] \subseteq Imported(s)
    <3>1. CASE e = s
      BY <3>1, <2>4
    <3>2. CASE e # s
      <4>1. PICK d \in package.deps[s] : e \in IF d \in Stored THEN Imported(d) ELSE {d}
        BY <2>3, <3>2
      <4>2. e \in Imported(d)
        BY <4>1, <2>4
      <4>3. Imported(d) \subseteq Imported(s) /\ Whole(d)
        BY <2>4
      <4> QED
        BY <4>2, <4>3, <2>2
    <3> QED
      BY <3>1, <3>2
  <2> QED
    BY <2>1, <2>5
<1> QED
  BY <1>1, ImportedIs

\* With what is exported goes all that it depends on, imports included.
ExportsAll(E) == E \subseteq Stored /\ \A r \in E : package.deps[r] \subseteq E

LEMMA FetchedIsWhole ==
    ASSUME ImportInv, NEW params, NEW unused
    PROVE  ExportsAll(Fetched(params, unused))
<1> DEFINE chosen == {r \in Stored \cap Matching(params, db) : unused => Unused(r)}
           nested == Closure(chosen)
           L == Listed(params, unused)
<1>1. L = nested \cup UNION {Imported(c) : c \in nested \cap Components}
  BY DEF Listed, WithDependencies, Closure
<1>2. chosen \in SUBSET Revisions /\ package \in Packages
  BY DEF Stored, ImportInv
<1> HIDE DEF chosen
<1>3. Closed(nested) /\ nested \subseteq Revisions
  BY <1>2, ClosureIsClosed
<1> HIDE DEF nested, L
<1>4. ASSUME L \subseteq Stored, NEW r \in L PROVE package.deps[r] \subseteq L
  <2>1. ASSUME NEW c \in nested \cap Components, r \in Imported(c)
        PROVE  package.deps[r] \subseteq L
    <3>1. c \in Revisions /\ Imported(c) \subseteq L
      BY <1>1, <1>3
    <3>2. package.deps[r] \subseteq Imported(c)
      BY <1>2, <1>4, <2>1, <3>1, ImportedIsClosed
    <3> QED
      BY <3>1, <3>2
  <2>2. CASE r \in nested /\ r \in Components
    <3>1. r \in Imported(r)
      BY <1>2, <1>3, <2>2, ImportedIs
    <3> QED
      BY <2>1, <2>2, <3>1
  <2>3. CASE r \in nested /\ r \notin Components
    <3>1. package.deps[r] \subseteq nested
      BY <1>3, <2>3 DEF Closed, DirectDependencies
    <3> QED
      BY <1>1, <3>1
  <2> QED
    BY <1>1, <2>1, <2>2, <2>3
<1>5. Fetched(params, unused) = IF L \subseteq Stored THEN L ELSE {}
  BY DEF Fetched, L
<1> QED
  BY <1>4, <1>5 DEF ExportsAll

\* Files name the states that were stored.
FilesOf(E, as_code) == [r \in E |-> FileOf(r, as_code)]

LEMMA FilesNameStates ==
    ASSUME ImportInv, NEW E \in SUBSET Revisions, NEW as_code \in BOOLEAN, NEW r \in E
    PROVE  Loaded(FilesOf(E, as_code)[r]) = db[r]
<1>1. FilesOf(E, as_code)[r] = FileOf(r, as_code)
  BY DEF FilesOf
<1>2. CASE r \in Workflows
  BY <1>1, <1>2 DEF FileOf, Loaded
<1>3. CASE r \notin Workflows /\ as_code
  <2>1. r \in Components /\ code[r] = db[r]
    BY <1>3 DEF ImportInv, CodeNamesStates, Revisions
  <2>2. FileOf(r, as_code) = [code |-> code[r]]
    BY <1>3 DEF FileOf
  <2>3. Loaded([code |-> code[r]]) = code[r]
    BY DEF Loaded, FromCode
  <2> QED
    BY <1>1, <2>1, <2>2, <2>3
<1>4. CASE r \notin Workflows /\ ~as_code
  BY <1>1, <1>4 DEF FileOf, Loaded
<1> QED
  BY <1>2, <1>3, <1>4

\* Importing one file after the other, and all of them several times, are folds.
OneImported(files, there, r) ==
    IF ImportsFound(r, Loaded(files[r]), there) /\ OperatorsFound(r, there)
    THEN [there EXCEPT ![r] = Loaded(files[r])] ELSE there

StepOf(kind, files, there, x) ==
    IF kind = "file" THEN OneImported(files, there, x) ELSE ImportedInto(there, files)

FoldOf(kind, files, base, q, g, s) ==
    IF s = {} THEN base ELSE StepOf(kind, files, g[s \ {Max(s)}], q[Max(s)])

FoldedTo(kind, files, base, q, n, g, k) ==
    \A s \in SUBSET (1 .. n) : Cardinality(s) <= k => g[s] = FoldOf(kind, files, base, q, g, s)

IsFold(kind, files, base, q, n, g) ==
    g = [s \in SUBSET (1 .. n) |-> FoldOf(kind, files, base, q, g, s)]

FoldsUpwards(kind, files, base, q, n, g) ==
    g[1 .. 0] = base /\ \A k \in 1 .. n : g[1 .. k] = StepOf(kind, files, g[1 .. k - 1], q[k])

LEMMA Intervals ==
    ASSUME NEW n \in Nat
    PROVE  /\ \A s \in SUBSET (1 .. n) :
                 /\ Cardinality(s) \in Nat /\ Cardinality(s) <= n
                 /\ Cardinality(s) = 0 <=> s = {}
                 /\ s # {} => /\ Max(s) \in s
                              /\ Cardinality(s \ {Max(s)}) = Cardinality(s) - 1
           /\ \A k \in 1 .. n : Max(1 .. k) = k /\ (1 .. k) \ {k} = 1 .. k - 1
<1>1. IsFiniteSet(1 .. n) /\ Cardinality(1 .. n) = n
  BY FS_Interval
<1>2. ASSUME NEW s \in SUBSET (1 .. n)
      PROVE  /\ Cardinality(s) \in Nat /\ Cardinality(s) <= n
             /\ Cardinality(s) = 0 <=> s = {}
             /\ s # {} => /\ Max(s) \in s
                          /\ Cardinality(s \ {Max(s)}) = Cardinality(s) - 1
  <2>1. IsFiniteSet(s) /\ Cardinality(s) <= n
    BY <1>1, FS_Subset
  <2>2. Cardinality(s) \in Nat /\ (Cardinality(s) = 0 <=> s = {})
    BY <2>1, FS_CardinalityType, FS_EmptySet
  <2>3. s # {} => Max(s) \in s
    <3>1. s \in SUBSET Nat
      OBVIOUS
    <3> QED
      BY <2>1, <3>1, GreatestNumber
  <2>4. Max(s) \in s => Cardinality(s \ {Max(s)}) = Cardinality(s) - 1
    BY <2>1, FS_RemoveElement
  <2> QED
    BY <2>1, <2>2, <2>3, <2>4
<1>3. ASSUME NEW k \in 1 .. n PROVE Max(1 .. k) = k /\ (1 .. k) \ {k} = 1 .. k - 1
  <2>1. 1 .. k \in SUBSET Nat /\ 1 .. k # {} /\ k \in 1 .. k
    OBVIOUS
  <2>2. IsFiniteSet(1 .. k)
    BY FS_Interval
  <2>3. Max(1 .. k) \in 1 .. k /\ k <= Max(1 .. k)
    BY <2>1, <2>2, GreatestNumber
  <2> QED
    BY <2>3
<1> QED
  BY <1>2, <1>3

LEMMA FoldsExist ==
    ASSUME NEW kind, NEW files, NEW base, NEW q, NEW n \in Nat
    PROVE  \E g : IsFold(kind, files, base, q, n, g)
<1> DEFINE To(k, g) == FoldedTo(kind, files, base, q, n, g, k)
           F(g, s) == FoldOf(kind, files, base, q, g, s)
           T == {k \in Nat : ~ \E g : To(k, g)}
<1>1. \A g, h : \A s \in SUBSET (1 .. n) :
         (s # {} => g[s \ {Max(s)}] = h[s \ {Max(s)}]) => F(g, s) = F(h, s)
  BY DEF FoldOf
<1>2. \A k, g : To(k, g) <=> \A s \in SUBSET (1 .. n) : Cardinality(s) <= k => g[s] = F(g, s)
  BY DEF FoldedTo
<1> HIDE DEF To, F
<1>3. T = {}
  <2> SUFFICES ASSUME T # {} PROVE FALSE
    OBVIOUS
  <2>1. PICK k \in T : \A m \in T : k <= m
    <3>1. T \subseteq Nat
      OBVIOUS
    <3> HIDE DEF T
    <3> QED
      BY <3>1, LeastNumber
  <2>2. CASE k = 0
    <3> DEFINE h == [s \in SUBSET (1 .. n) |-> F([x \in {} |-> base], s)]
    <3>1. ASSUME NEW s \in SUBSET (1 .. n), Cardinality(s) <= 0 PROVE h[s] = F(h, s)
      <4>1. s = {}
        <5>1. Cardinality(s) \in Nat /\ (Cardinality(s) = 0 <=> s = {})
          BY Intervals
        <5> QED
          BY <5>1, <3>1
      <4>2. h[s] = F([x \in {} |-> base], s)
        OBVIOUS
      <4> HIDE DEF h
      <4> QED
        BY <4>1, <4>2, <1>1
    <3> HIDE DEF h
    <3>2. To(0, h)
      BY <3>1, <1>2
    <3> QED
      BY <3>2, <2>1, <2>2
  <2>3. CASE k # 0
    <3>1. k \in Nat /\ k - 1 \in Nat /\ ~ (k - 1 \in T)
      BY <2>1, <2>3
    <3>2. PICK g : To(k - 1, g)
      BY <3>1
    <3> DEFINE h == [s \in SUBSET (1 .. n) |-> F(g, s)]
    <3> HIDE DEF T
    <3>3. ASSUME NEW s \in SUBSET (1 .. n), Cardinality(s) <= k PROVE h[s] = F(h, s)
      <4>1. ASSUME s # {} PROVE h[s \ {Max(s)}] = g[s \ {Max(s)}]
        <5> DEFINE r == s \ {Max(s)}
        <5>1. r \in SUBSET (1 .. n) /\ Cardinality(r) = Cardinality(s) - 1 /\ Cardinality(s) \in Nat
          BY <4>1, Intervals
        <5>2. Cardinality(r) <= k - 1
          BY <5>1, <3>1, <3>3
        <5> HIDE DEF r
        <5>3. g[r] = F(g, r)
          BY <5>1, <5>2, <3>2, <1>2
        <5>4. h[r] = g[r]
          BY <5>1, <5>3
        <5> QED
          BY <5>4 DEF r
      <4>2. h[s] = F(g, s)
        OBVIOUS
      <4> HIDE DEF h
      <4> QED
        BY <4>1, <4>2, <1>1
    <3>4. To(k, h)
      <4> HIDE DEF h
      <4> QED
        BY <3>3, <1>2
    <3> QED
      BY <3>4, <2>1 DEF T
  <2> QED
    BY <2>2, <2>3
<1>4. PICK g : To(n, g)
  BY <1>3
<1>5. \A s \in SUBSET (1 .. n) : g[s] = F(g, s)
  BY <1>2, <1>4, Intervals
<1> DEFINE h == [s \in SUBSET (1 .. n) |-> g[s]]
<1>6. ASSUME NEW s \in SUBSET (1 .. n) PROVE g[s] = F(h, s)
  <2>1. s # {} => h[s \ {Max(s)}] = g[s \ {Max(s)}]
    OBVIOUS
  <2> HIDE DEF h
  <2> QED
    BY <2>1, <1>1, <1>5
<1>7. h = [s \in SUBSET (1 .. n) |-> F(h, s)]
  <2>1. h = [s \in SUBSET (1 .. n) |-> g[s]]
    OBVIOUS
  <2> HIDE DEF h
  <2> QED
    BY <2>1, <1>6
<1> HIDE DEF h
<1> QED
  BY <1>7 DEF F, IsFold

LEMMA FoldSteps ==
    ASSUME NEW kind, NEW files, NEW base, NEW q, NEW n \in Nat, NEW g,
           IsFold(kind, files, base, q, n, g)
    PROVE  FoldsUpwards(kind, files, base, q, n, g)
<1>1. \A s \in SUBSET (1 .. n) : g[s] = FoldOf(kind, files, base, q, g, s)
  BY DEF IsFold
<1>2. g[1 .. 0] = base
  <2>1. 1 .. 0 = {} /\ {} \in SUBSET (1 .. n)
    OBVIOUS
  <2> QED
    BY <1>1, <2>1 DEF FoldOf
<1>3. ASSUME NEW k \in 1 .. n PROVE g[1 .. k] = StepOf(kind, files, g[1 .. k - 1], q[k])
  <2>1. 1 .. k \in SUBSET (1 .. n) /\ 1 .. k # {}
    OBVIOUS
  <2>2. Max(1 .. k) = k /\ (1 .. k) \ {k} = 1 .. k - 1
    BY Intervals
  <2> QED
    BY <1>1, <2>1, <2>2 DEF FoldOf
<1> QED
  BY <1>2, <1>3 DEF FoldsUpwards

OneByOne(files, there, n, f) ==
    /\ f[0] = there
    /\ \A k \in 1 .. n : f[k] = OneImported(files, f[k - 1], Ordered(DOMAIN files)[k])
    /\ ImportedInto(there, files) = f[n]

LEMMA ImportedIntoSteps ==
    ASSUME NEW files, NEW there, NEW n \in Nat, DOMAIN Ordered(DOMAIN files) = 1 .. n
    PROVE  \E f : OneByOne(files, there, n, f)
<1> DEFINE q == Ordered(DOMAIN files)
           Of(x) == [s \in SUBSET (1 .. n) |->
                       IF s = {} THEN there ELSE OneImported(files, x[s \ {Max(s)}], q[Max(s)])]
           g == CHOOSE x : x = Of(x)
<1>1. \A x : x = Of(x) <=> IsFold("file", files, there, q, n, x)
  BY DEF IsFold, FoldOf, StepOf
<1>2. ImportedInto(there, files) = g[1 .. n]
  BY DEF ImportedInto, FoldLeft, MapThenFoldSet, OneImported
<1>3. g = Of(g)
  <2>1. \E x : IsFold("file", files, there, q, n, x)
    <3> HIDE DEF q
    <3> QED
      BY FoldsExist
  <2> HIDE DEF Of, q
  <2> QED
    BY <2>1, <1>1
<1> HIDE DEF g
<1>4. IsFold("file", files, there, q, n, g)
  <2> HIDE DEF Of, q
  <2> QED
    BY <1>1, <1>3
<1>5. /\ g[1 .. 0] = there
      /\ \A k \in 1 .. n : g[1 .. k] = StepOf("file", files, g[1 .. k - 1], q[k])
  <2> HIDE DEF q
  <2>1. FoldsUpwards("file", files, there, q, n, g)
    BY <1>4, FoldSteps
  <2> QED
    BY <2>1 DEF FoldsUpwards
<1> DEFINE f == [k \in 0 .. n |-> g[1 .. k]]
<1>6. f[0] = there /\ f[n] = g[1 .. n]
  BY <1>5
<1>7. ASSUME NEW k \in 1 .. n PROVE f[k] = OneImported(files, f[k - 1], q[k])
  <2>1. f[k] = g[1 .. k] /\ f[k - 1] = g[1 .. k - 1]
    OBVIOUS
  <2> HIDE DEF f, q
  <2> QED
    BY <1>5, <2>1 DEF StepOf
<1> HIDE DEF f
<1> QED
  BY <1>2, <1>6, <1>7 DEF OneByOne

LEMMA RestoredSteps ==
    ASSUME NEW files
    PROVE  \E f : /\ f[0] = [r \in Revisions |-> "ABSENT"]
                  /\ \A k \in 1 .. Cardinality(Components) + 1 : f[k] = ImportedInto(f[k - 1], files)
                  /\ Restored(files) = f[Cardinality(Components) + 1]
<1> DEFINE n == Cardinality(Components) + 1
           q == [i \in 1 .. n |-> i]
           nothing == [r \in Revisions |-> "ABSENT"]
           Of(x) == [s \in SUBSET (1 .. n) |->
                       IF s = {} THEN nothing ELSE ImportedInto(x[s \ {Max(s)}], files)]
           g == CHOOSE x : x = Of(x)
<1>1. n \in Nat
  BY KindsAssumption, FS_Subset, FS_CardinalityType DEF Revisions
<1>2. \A x : x = Of(x) <=> IsFold("all", files, nothing, q, n, x)
  BY DEF IsFold, FoldOf, StepOf
<1>3. Restored(files) = g[1 .. n]
  <2>1. DOMAIN q = 1 .. n
    OBVIOUS
  <2> QED
    BY <2>1 DEF Restored, FoldLeft, MapThenFoldSet
<1> HIDE DEF n, q, nothing
<1>4. g = Of(g)
  <2>1. \E x : IsFold("all", files, nothing, q, n, x)
    BY <1>1, FoldsExist
  <2> HIDE DEF Of
  <2> QED
    BY <2>1, <1>2
<1> HIDE DEF g
<1>5. IsFold("all", files, nothing, q, n, g)
  <2> HIDE DEF Of
  <2> QED
    BY <1>2, <1>4
<1>6. /\ g[1 .. 0] = nothing
      /\ \A k \in 1 .. n : g[1 .. k] = StepOf("all", files, g[1 .. k - 1], q[k])
  <2>1. FoldsUpwards("all", files, nothing, q, n, g)
    BY <1>1, <1>5, FoldSteps
  <2> QED
    BY <2>1 DEF FoldsUpwards
<1> DEFINE f == [k \in 0 .. n |-> g[1 .. k]]
<1>7. f[0] = nothing /\ f[n] = g[1 .. n]
  BY <1>1, <1>6
<1>8. ASSUME NEW k \in 1 .. n PROVE f[k] = ImportedInto(f[k - 1], files)
  <2>1. f[k] = g[1 .. k] /\ f[k - 1] = g[1 .. k - 1]
    BY <1>1
  <2> HIDE DEF f
  <2> QED
    BY <1>6, <2>1 DEF StepOf
<1> HIDE DEF f
<1> QED
  BY <1>3, <1>7, <1>8 DEF n, nothing

LEMMA ComponentsRankFirst ==
    /\ Cardinality(Components) \in Nat
    /\ \A r \in Revisions : /\ RankOf(r) \in Nat /\ RankOf(r) > 0
                            /\ r \in Components <=> RankOf(r) <= Cardinality(Components)
<1>1. \A r \in Revisions : RankOf(r) \in 1 .. Len(Enumeration) /\ Enumeration[RankOf(r)] = r
  BY Enumerated DEF RankOf
<1>2. Len(Enumeration) \in Nat /\ Cardinality(Components) \in Nat
  <2>1. Enumeration \in Seq(Revisions) /\ Cardinality(Components) \in Nat
    BY Enumerated
  <2> QED
    BY <2>1
<1>3. \A i \in 1 .. Len(Enumeration) : Enumeration[i] \in Components <=> i <= Cardinality(Components)
  BY Enumerated
<1> QED
  BY <1>1, <1>2, <1>3

\* A store that is being restored: some of what was exported is there.
Partly(X) == [r \in Revisions |-> IF r \in X THEN db[r] ELSE "ABSENT"]

\* A revision is imported if all that it depends on is there.
LEMMA OneImportedIs ==
    ASSUME ImportInv, NEW E \in SUBSET Revisions, ExportsAll(E), NEW as_code \in BOOLEAN,
           NEW X \in SUBSET E, NEW r \in E
    PROVE  \E Y \in SUBSET E :
              /\ OneImported(FilesOf(E, as_code), Partly(X), r) = Partly(Y)
              /\ X \subseteq Y /\ (package.deps[r] \subseteq X => r \in Y)
<1> DEFINE guard == ImportsFound(r, db[r], Partly(X)) /\ OperatorsFound(r, Partly(X))
           Y == IF guard THEN X \cup {r} ELSE X
<1>1. OneImported(FilesOf(E, as_code), Partly(X), r)
        = IF guard THEN [Partly(X) EXCEPT ![r] = db[r]] ELSE Partly(X)
  BY FilesNameStates DEF OneImported
<1>2. [Partly(X) EXCEPT ![r] = db[r]] = Partly(X \cup {r})
  BY DEF Partly
<1>3. ASSUME package.deps[r] \subseteq X PROVE guard
  <2>1. \A d \in package.deps[r] : d \in Revisions /\ Partly(X)[d] = db[d] /\ db[d] # "ABSENT"
    BY <1>3 DEF Partly, ExportsAll, Stored
  <2>2. ASSUME db[r] # "DRAFT", NEW d \in package.deps[r] PROVE db[d] # "DRAFT"
    <3>1. package.state[r] = "RELEASED"
      BY <2>2 DEF ImportInv, StatesArePackaged, ExportsAll, Stored, Packages
    <3>2. package.state[d] = "RELEASED"
      BY <3>1, <2>2 DEF ImportInv, Packages
    <3> QED
      BY <2>1, <2>2, <3>2 DEF ImportInv, StatesArePackaged
  <2> QED
    BY <2>1, <2>2 DEF ImportsFound, OperatorsFound
<1> HIDE DEF guard
<1>4. Y \in SUBSET E /\ X \subseteq Y /\ (package.deps[r] \subseteq X => r \in Y)
  BY <1>3
<1>5. OneImported(FilesOf(E, as_code), Partly(X), r) = Partly(Y)
  BY <1>1, <1>2
<1> QED
  BY <1>4, <1>5

\* What the first k files of an import have added.
PassedTo(E, X, q, k, there) ==
    \E Y \in SUBSET E :
        /\ there = Partly(Y) /\ X \subseteq Y
        /\ \A j \in 1 .. k : package.deps[q[j]] \subseteq X \/ E \cap Components \subseteq X => q[j] \in Y

LEMMA FilePasses ==
    ASSUME ImportInv, NEW E \in SUBSET Revisions, ExportsAll(E), NEW as_code \in BOOLEAN,
           NEW X \in SUBSET E, NEW n \in Nat, NEW k \in 1 .. n, NEW q,
           \A r : r \in E <=> \E i \in 1 .. n : q[i] = r,
           \A i, j \in 1 .. n : i <= j => Levels[q[i]] <= Levels[q[j]],
           NEW there, PassedTo(E, X, q, k - 1, there)
    PROVE  PassedTo(E, X, q, k, OneImported(FilesOf(E, as_code), there, q[k]))
<1>1. PICK Y \in SUBSET E :
        /\ there = Partly(Y) /\ X \subseteq Y
        /\ \A j \in 1 .. k - 1 : package.deps[q[j]] \subseteq X \/ E \cap Components \subseteq X => q[j] \in Y
  BY DEF PassedTo
<1>2. q[k] \in E /\ package \in Packages
  BY DEF ImportInv
<1>3. PICK Z \in SUBSET E :
        /\ OneImported(FilesOf(E, as_code), Partly(Y), q[k]) = Partly(Z)
        /\ Y \subseteq Z /\ (package.deps[q[k]] \subseteq Y => q[k] \in Z)
  BY <1>2, OneImportedIs
<1>4. ASSUME E \cap Components \subseteq X, q[k] \notin Components
      PROVE  package.deps[q[k]] \subseteq Y
  <2> SUFFICES ASSUME NEW d \in package.deps[q[k]] PROVE d \in Y
    OBVIOUS
  <2>1. d \in E /\ q[k] \in Workflows
    BY <1>2, <1>4 DEF ExportsAll, Revisions
  <2>2. Levels[d] < Levels[q[k]] /\ Levels[d] \in Nat /\ Levels[q[k]] \in Nat
    BY <1>2, <2>1, LevelsRise
  <2>3. PICK j \in 1 .. n : q[j] = d
    BY <2>1
  <2>4. ~ (Levels[q[k]] <= Levels[q[j]])
    BY <2>2, <2>3
  <2>5. ~ (k <= j)
    BY <2>4
  <2>6. j \in 1 .. k - 1
    BY <2>5
  <2> QED
    BY <1>1, <1>4, <2>3, <2>6
<1>5. package.deps[q[k]] \subseteq X \/ E \cap Components \subseteq X => q[k] \in Z
  BY <1>1, <1>2, <1>3, <1>4
<1>6. \A j \in 1 .. k : j = k \/ j \in 1 .. k - 1
  OBVIOUS
<1>7. \A j \in 1 .. k : package.deps[q[j]] \subseteq X \/ E \cap Components \subseteq X => q[j] \in Z
  BY <1>1, <1>3, <1>5, <1>6
<1> QED
  BY <1>1, <1>3, <1>7 DEF PassedTo

\* An import adds what has all it depends on there already, and workflows on any level
\* once the components are there.
LEMMA ImportedIntoIs ==
    ASSUME ImportInv, NEW E \in SUBSET Revisions, ExportsAll(E), NEW as_code \in BOOLEAN,
           NEW X \in SUBSET E
    PROVE  \E Y \in SUBSET E :
              /\ ImportedInto(Partly(X), FilesOf(E, as_code)) = Partly(Y) /\ X \subseteq Y
              /\ \A r \in E : package.deps[r] \subseteq X \/ E \cap Components \subseteq X => r \in Y
<1> DEFINE files == FilesOf(E, as_code)
           q == Ordered(E)
           n == Len(Ordered(E))
<1>1. package \in Packages /\ DOMAIN files = E
  BY DEF ImportInv, FilesOf
<1>2. /\ q \in Seq(Revisions) /\ n \in Nat
      /\ \A r : r \in E <=> \E i \in 1 .. n : q[i] = r
      /\ \A i, j \in 1 .. n : i <= j => Levels[q[i]] <= Levels[q[j]]
  BY <1>1, OrderedIs
<1>3. DOMAIN Ordered(DOMAIN files) = 1 .. n
  BY <1>1, <1>2
<1>4. PICK f : /\ f[0] = Partly(X)
               /\ \A k \in 1 .. n : f[k] = OneImported(files, f[k - 1], Ordered(DOMAIN files)[k])
               /\ ImportedInto(Partly(X), files) = f[n]
  <2>1. n \in Nat
    BY <1>2
  <2> HIDE DEF files, q, n
  <2>2. \E f : OneByOne(files, Partly(X), n, f)
    BY <2>1, <1>3, ImportedIntoSteps
  <2> QED
    BY <2>2 DEF OneByOne
<1>5. \A k \in 1 .. n : f[k] = OneImported(files, f[k - 1], q[k])
  BY <1>1, <1>4
<1> HIDE DEF q, n
<1> DEFINE T == {k \in 0 .. n : ~PassedTo(E, X, q, k, f[k])}
<1>6. T = {}
  <2> SUFFICES ASSUME T # {} PROVE FALSE
    OBVIOUS
  <2>1. PICK k \in T : \A m \in T : k <= m
    <3>1. T \subseteq Nat
      OBVIOUS
    <3> HIDE DEF T
    <3> QED
      BY <3>1, LeastNumber
  <2>2. k \in 0 .. n /\ ~PassedTo(E, X, q, k, f[k])
    BY <2>1
  <2>3. k # 0
    <3>1. PassedTo(E, X, q, 0, f[0])
      BY <1>4 DEF PassedTo
    <3> QED
      BY <2>2, <3>1
  <2>4. k \in 1 .. n /\ k - 1 \in 0 .. n /\ ~ (k <= k - 1)
    BY <1>2, <2>2, <2>3
  <2>5. PassedTo(E, X, q, k - 1, f[k - 1])
    <3>1. k - 1 \notin T
      <4> HIDE DEF T
      <4> QED
        BY <2>1, <2>4
    <3> QED
      BY <3>1, <2>4
  <2>6. PassedTo(E, X, q, k, OneImported(FilesOf(E, as_code), f[k - 1], q[k]))
    BY <1>2, <2>4, <2>5, FilePasses
  <2> QED
    BY <1>5, <2>2, <2>4, <2>6
<1>7. PassedTo(E, X, q, n, f[n])
  BY <1>2, <1>6
<1> QED
  BY <1>2, <1>4, <1>7 DEF PassedTo

\* Every import adds one more component in the order of the enumeration, a last one the
\* workflows: everything exported is restored, with the states it was stored with.
LEMMA ExportIsRestored ==
    ASSUME ImportInv, NEW E \in SUBSET Revisions, ExportsAll(E), NEW as_code \in BOOLEAN
    PROVE  Restored(FilesOf(E, as_code)) = Partly(E)
<1> DEFINE files == FilesOf(E, as_code)
           n == Cardinality(Components)
           There(k, there) == \E Y \in SUBSET E :
                                 /\ there = Partly(Y)
                                 /\ \A r \in E \cap Components : RankOf(r) <= k => r \in Y
                                 /\ k = n + 1 => Y = E
<1>1. n \in Nat /\ package \in Packages
  BY ComponentsRankFirst DEF ImportInv
<1>2. PICK f : /\ f[0] = [r \in Revisions |-> "ABSENT"]
               /\ \A k \in 1 .. n + 1 : f[k] = ImportedInto(f[k - 1], files)
               /\ Restored(files) = f[n + 1]
  BY RestoredSteps
<1>3. There(0, f[0])
  <2>1. f[0] = Partly({})
    BY <1>2 DEF Partly
  <2>2. \A r \in E \cap Components : ~ (RankOf(r) <= 0)
    BY ComponentsRankFirst
  <2> QED
    BY <1>1, <2>1, <2>2
<1>4. ASSUME NEW k \in 1 .. n + 1, There(k - 1, f[k - 1]) PROVE There(k, f[k])
  <2>1. PICK X \in SUBSET E :
          /\ f[k - 1] = Partly(X)
          /\ \A r \in E \cap Components : RankOf(r) <= k - 1 => r \in X
    BY <1>4
  <2>2. PICK Y \in SUBSET E :
          /\ ImportedInto(Partly(X), FilesOf(E, as_code)) = Partly(Y) /\ X \subseteq Y
          /\ \A r \in E : package.deps[r] \subseteq X \/ E \cap Components \subseteq X => r \in Y
    BY ImportedIntoIs
  <2>3. f[k] = Partly(Y)
    BY <1>2, <2>1, <2>2
  <2>4. ASSUME NEW r \in E \cap Components, RankOf(r) <= k PROVE r \in Y
    <3>1. r \in Revisions /\ RankOf(r) <= n /\ RankOf(r) \in Nat
      BY ComponentsRankFirst
    <3>2. ASSUME NEW d \in package.deps[r] PROVE d \in X
      <4>1. d \in E /\ d \in Revisions /\ RankOf(d) < RankOf(r) /\ RankOf(d) \in Nat
        BY <1>1, <3>1, DependenciesRank, ComponentsRankFirst DEF ExportsAll
      <4>2. RankOf(d) <= n /\ RankOf(d) <= k - 1
        BY <1>1, <2>4, <3>1, <4>1
      <4>3. d \in Components
        BY <4>1, <4>2, ComponentsRankFirst
      <4> QED
        BY <2>1, <4>1, <4>2, <4>3
    <3> QED
      BY <2>2, <3>2
  <2>5. ASSUME k = n + 1 PROVE Y = E
    <3>1. \A r \in E \cap Components : RankOf(r) <= k - 1
      BY <1>1, <2>5, ComponentsRankFirst
    <3>2. E \cap Components \subseteq X
      BY <2>1, <3>1
    <3> QED
      BY <2>2, <3>2
  <2> QED
    BY <2>3, <2>4, <2>5
<1> DEFINE T == {k \in 0 .. n + 1 : ~There(k, f[k])}
<1> HIDE DEF There, n
<1>5. T = {}
  <2> SUFFICES ASSUME T # {} PROVE FALSE
    OBVIOUS
  <2>1. PICK k \in T : \A m \in T : k <= m
    <3>1. T \subseteq Nat
      BY <1>1
    <3> HIDE DEF T
    <3> QED
      BY <3>1, LeastNumber
  <2>2. k \in 0 .. n + 1 /\ ~There(k, f[k])
    BY <2>1
  <2>3. k # 0
    BY <1>3, <2>2
  <2>4. k \in 1 .. n + 1 /\ k - 1 \in 0 .. n + 1 /\ ~ (k <= k - 1)
    BY <1>1, <2>2, <2>3
  <2>5. k - 1 \notin T
    <3> HIDE DEF T
    <3> QED
      BY <2>1, <2>4
  <2>6. There(k - 1, f[k - 1])
    BY <2>4, <2>5
  <2> QED
    BY <1>4, <2>2, <2>4, <2>6
<1>6. There(n + 1, f[n + 1])
  BY <1>1, <1>5
<1> QED
  BY <1>2, <1>6 DEF There

LEMMA ExportsAreRestored ==
    ASSUME ImportInv
    PROVE  ExportsRestore
<1> SUFFICES ASSUME NEW files \in Exports
             PROVE  Restored(files) = [r \in Revisions |-> IF r \in DOMAIN files THEN db[r] ELSE "ABSENT"]
  BY DEF ExportsRestore
<1>1. PICK E \in {Fetched(params, unused) : params \in Params, unused \in BOOLEAN}, as_code \in BOOLEAN :
        files = FilesOf(E, as_code)
  BY DEF Exports, FilesOf
<1>2. ExportsAll(E)
  BY <1>1, FetchedIsWhole
<1>3. E \in SUBSET Revisions
  BY <1>2 DEF ExportsAll, Stored
<1>4. Restored(files) = Partly(E)
  BY <1>1, <1>2, <1>3, ExportIsRestored
<1>5. DOMAIN files = E
  BY <1>1 DEF FilesOf
<1> QED
  BY <1>4, <1>5 DEF Partly

-----------------------------------------------------------------------------
(* The theorems.                                                           *)

LEMMA NextKeepsInv ==
    ASSUME ImportInv, [Next]_vars
    PROVE  ImportInv'
<1>1. CASE UNCHANGED vars
  <2>1. /\ package' = package /\ db' = db /\ code' = code /\ marked' = marked
        /\ options' = options /\ queue' = queue /\ groups' = groups /\ report' = report /\ pc' = pc
    BY <1>1 DEF vars, stored
  <2>2. TypeOK'
    BY <2>1 DEF ImportInv, TypeOK
  <2>3. DeletionIsOrdered'
    <3>1. Levels' = Levels
      BY <2>1 DEF Levels
    <3>2. /\ Stored' = Stored
          /\ \A r : (Containing(r)' = Containing(r)) /\ (InQueue(r)' <=> InQueue(r))
      BY <2>1 DEF InQueue, Containing, Stored
    <3> QED
      BY <2>1, <3>1, <3>2 DEF ImportInv, DeletionIsOrdered
  <2> QED
    BY <2>1, <2>2, <2>3, StoreKept DEF ImportInv
<1>2. CASE Begin
  BY <1>2, BeginKeeps
<1>3. CASE ImportNext
  BY <1>3, ImportNextKeeps
<1>4. CASE Abort \/ EndImports \/ EndDeprecation \/ EndDeletion \/ Crash
  BY <1>4, OverKeeps DEF Abort, EndImports, EndDeprecation, EndDeletion, Crash
<1>5. CASE BeginDeprecation \/ DeprecateAllButLatest
  BY <1>5, DeprecationBegins
<1>6. CASE DeprecateNext
  BY <1>6, DeprecateNextKeeps
<1>7. CASE BeginDeletion
  BY <1>7, DeletionBegins
<1>8. CASE DeleteNext
  BY <1>8, DeleteNextKeeps
<1>9. CASE Refill
  BY <1>9, RefillKeeps
<1> QED
  BY <1>1, <1>2, <1>3, <1>4, <1>5, <1>6, <1>7, <1>8, <1>9 DEF Next

\* import_importable and purge.py, each revision in a transaction of its own: types, and
\* the order in which revisions are deleted, hold whatever is imported, deprecated and
\* deleted, and wherever a process dies.
THEOREM ImportInvariant == Spec => []ImportInv
<1>1. Init => ImportInv
  BY InitEstablishesInv
<1>2. ImportInv /\ [Next]_vars => ImportInv'
  BY NextKeepsInv
<1> QED
  BY <1>1, <1>2, PTL DEF Spec

\* filter_and_order_trafos and the nestings' foreign keys: no stored workflow ever lacks
\* the stored revisions of its operators on any level.
THEOREM StoreStaysClosed == Spec => []StoreIsClosed
<1>1. ImportInv => StoreIsClosed
  BY DEF ImportInv
<1> QED
  BY <1>1, ImportInvariant, PTL

\* delete_transformation_revisions: the database never refuses half way what
\* maintenance has begun to delete.
THEOREM DeletionGoesThrough == Spec => []DeletionIsNotRefused
<1>1. ImportInv => DeletionIsNotRefused
  BY NextIsDeletable DEF DeletionIsNotRefused
<1> QED
  BY <1>1, ImportInvariant, PTL

\* filter_and_order_trafos, get_all_transformation_revisions and export_transformations:
\* what is selected, from a package or from the store, is complete, and what is exported
\* is restored with its states by imports of it, one more than there are components at
\* most, in either form of the files.
THEOREM SelectionsStayComplete == Spec => []SelectionsAreComplete
<1>1. ImportInv => SelectionsAreComplete
  BY ExportsAreRestored, FilterIsTheClosure DEF SelectionsAreComplete, ImportInv, FilterIsClosure
<1> QED
  BY <1>1, ImportInvariant, PTL
=============================================================================
