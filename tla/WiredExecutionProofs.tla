---------------------- MODULE WiredExecutionProofs ----------------------
(***************************************************************************)
(* Proofs about WiredExecution: an execution is answered with ok only when *)
(* its outputs have reached their sinks, virtual wirings are resolved to   *)
(* their own sources and sinks, objects are not replaced, what has been    *)
(* written to the blob storage can be loaded, and what the adapters list   *)
(* they find.                                                              *)
(***************************************************************************)
EXTENDS WiredExecution, FiniteSetTheorems, WellFoundedInduction, TLAPS

-----------------------------------------------------------------------------
(* The inductive invariant.  It is stated of one execution j, whose record *)
(* is r, of the outputs that have reached their sinks, and of the requests *)
(* and messages under way.                                                 *)

IsExecution(r) ==
    /\ r = [stage |-> r.stage, wirings |-> r.wirings, group |-> r.group, left |-> r.left,
            values |-> r.values, writing |-> r.writing, answer |-> r.answer]
    /\ DOMAIN r.wirings.in \subseteq Nat /\ DOMAIN r.wirings.out \subseteq Nat

NoEndpoint(w) == Kind(w) = "generic-rest" /\ ~Rest!HasEndpoint(w.type)

Delivered(j, w, reached) ==
    \/ Kind(w) = "direct_provisioning"
    \/ NoEndpoint(w)
    \/ <<j, w.name>> \in reached

(* Only a group that is at work or to come has wirings that have not been  *)
(* delivered.                                                              *)
OthersDelivered(j, r, left, reached) ==
    \A i \in DOMAIN r.wirings.out \ left : Delivered(j, r.wirings.out[i], reached)

(* While answers are awaited, each output of the group has been delivered  *)
(* or is in a request that is awaited.                                     *)
InPost(j, r, i, sent) ==
    \E p \in sent : p.job = j /\ p.adapter = r.group /\ r.wirings.out[i].name \in p.names
PostsCover(j, r, reached, sent) ==
    AdapterOf(r.group) \in Posting /\ r.writing # None =>
        \A i \in GroupOf(r, r.left) :
            Delivered(j, r.wirings.out[i], reached) \/ InPost(j, r, i, sent)

(* While components run, each output of the group has been delivered or    *)
(* its component is still running, unless one of them has failed.          *)
ComponentsCover(j, r, reached) ==
    AdapterOf(r.group) = ComponentKey /\ r.writing # None =>
        /\ r.writing = [running |-> r.writing.running, failed |-> r.writing.failed]
        /\ r.writing.failed \in BOOLEAN
        /\ ~r.writing.failed => \A i \in GroupOf(r, r.left) :
                Delivered(j, r.wirings.out[i], reached) \/ i \in r.writing.running

SendingIsSound(j, r, reached, sent) ==
    r.stage = "send" =>
        /\ r.left \subseteq DOMAIN r.wirings.out
        /\ GroupOf(r, r.left) # {}
        /\ OthersDelivered(j, r, r.left, reached)
        /\ PostsCover(j, r, reached, sent)
        /\ ComponentsCover(j, r, reached)

(* A request under way belongs to the group that awaits it or to one that  *)
(* will not be at work again.                                              *)
NotToCome(p, r, left) == \A i \in left : r.wirings.out[i].adapter # p.adapter
PostsAreSound(j, r, reached, sent) ==
    \A p \in sent : p.job = j =>
        /\ r.stage \in {"send", "done"}
        /\ p.arrived => \A n \in p.names : <<j, n>> \in reached
        /\ AdapterOf(p.adapter) \in Posting
        /\ r.stage = "send" => \/ p.adapter = r.group /\ r.writing # None
                               \/ NotToCome(p, r, r.left)

OkIsDelivered(j, r, reached) ==
    r.answer = "ok" => r.stage = "done" /\ OthersDelivered(j, r, {}, reached)

Sound(j, r, reached, sent) ==
    /\ IsExecution(r)
    /\ SendingIsSound(j, r, reached, sent)
    /\ PostsAreSound(j, r, reached, sent)
    /\ OkIsDelivered(j, r, reached)

IsPost(p) == {"job", "adapter", "names"} \subseteq DOMAIN p /\ p.job \in Jobs

DeliveryInv ==
    /\ setup \in Setups
    /\ DOMAIN job = Jobs
    /\ \A p \in posts : IsPost(p)
    /\ \A j \in Jobs : Sound(j, job[j], arrived, posts)

-----------------------------------------------------------------------------
(* What the operators on an execution do.                                  *)

LEMMA LeastNumber ==
    ASSUME NEW T, T \subseteq Nat, T # {}
    PROVE  Min(T) \in T
<1>1. PICK R : IsWellFoundedOn(R, Nat) /\ \A y, x \in Nat : y < x => <<y, x>> \in R
  <2>1. \A y, x \in Nat : y < x => <<y, x>> \in OpToRel(<, Nat)
    BY DEF OpToRel
  <2> QED
    BY <2>1, NatLessThanWellFounded, Zenon
<1>2. PICK x \in T : \A y \in T : ~ (<<y, x>> \in R)
  <2>1. IsWellFoundedOn(R, Nat) /\ T \subseteq Nat /\ T # {}
    BY <1>1
  <2>2. \E x \in T : \A y \in T : ~ (<<y, x>> \in R)
    BY <2>1, WFMin, Zenon
  <2> QED
    BY <2>2
<1>3. ASSUME NEW y \in T PROVE x =< y
  <2>1. x \in Nat /\ y \in Nat
    OBVIOUS
  <2>2. ~ (y < x)
    BY <2>1, <1>1, <1>2
  <2> QED
    BY <2>1, <2>2
<1> QED
  BY <1>2, <1>3, Zenon DEF Min

(* The record of an execution, field by field.                             *)
Execution(stage, wirings, group, left, values, writing, answer) ==
    [stage |-> stage, wirings |-> wirings, group |-> group, left |-> left,
     values |-> values, writing |-> writing, answer |-> answer]

LEMMA ItsFields ==
    ASSUME NEW stage, NEW wirings, NEW group, NEW left, NEW values, NEW writing, NEW answer,
           NEW r, r = Execution(stage, wirings, group, left, values, writing, answer)
    PROVE  /\ r.stage = stage /\ r.wirings = wirings /\ r.group = group /\ r.left = left
           /\ r.values = values /\ r.writing = writing /\ r.answer = answer
  BY DEF Execution

LEMMA IsMade ==
    ASSUME NEW r
    PROVE  IsExecution(r) <=> /\ r = Execution(r.stage, r.wirings, r.group, r.left, r.values, r.writing, r.answer)
                              /\ DOMAIN r.wirings.in \subseteq Nat
                              /\ DOMAIN r.wirings.out \subseteq Nat
  BY DEF IsExecution, Execution

(* Its changes.                                                            *)
Valued(r, v) ==
    [r EXCEPT !.values = v]
Doing(r, what) ==
    [r EXCEPT !.writing = what]
Staged(r, stage) ==
    [r EXCEPT !.stage = stage]
Reduced(r, left) ==
    [r EXCEPT !.left = left, !.writing = None]
Ended(r, stage, answer) ==
    [r EXCEPT !.stage = stage, !.left = {}, !.writing = None, !.answer = answer]
Over(r, stage) ==
    [r EXCEPT !.stage = stage, !.left = {}, !.writing = None]
Grouped(r, group, left) ==
    [r EXCEPT !.group = group, !.left = left, !.writing = None]
Refused(r) ==
    [r EXCEPT !.stage = "done", !.answer = "refused"]

LEMMA ValuesFields ==
    ASSUME NEW r, IsExecution(r), NEW v
    PROVE  LET s == Valued(r, v) IN
               /\ IsExecution(s)
               /\ s.stage = r.stage /\ s.wirings = r.wirings /\ s.group = r.group
               /\ s.left = r.left /\ s.values = v
               /\ s.writing = r.writing /\ s.answer = r.answer
<1> DEFINE s == Valued(r, v)
<1>1. r = Execution(r.stage, r.wirings, r.group, r.left, r.values, r.writing, r.answer)
  BY IsMade
<1>2. s = Execution(r.stage, r.wirings, r.group, r.left, v, r.writing, r.answer)
  <2>1. [Execution(r.stage, r.wirings, r.group, r.left, r.values, r.writing, r.answer) EXCEPT !.values = v]
        = Execution(r.stage, r.wirings, r.group, r.left, v, r.writing, r.answer)
    BY DEF Execution
  <2> QED
    BY <1>1, <2>1, Zenon DEF Valued
<1> HIDE DEF s
<1>3. /\ s.stage = r.stage /\ s.wirings = r.wirings /\ s.group = r.group
      /\ s.left = r.left /\ s.values = v
      /\ s.writing = r.writing /\ s.answer = r.answer
  BY <1>2, ItsFields
<1>4. IsExecution(s)
  BY <1>1, <1>2, <1>3, IsMade
<1> QED
  BY <1>3, <1>4 DEF s

LEMMA WritingFields ==
    ASSUME NEW r, IsExecution(r), NEW what
    PROVE  LET s == Doing(r, what) IN
               /\ IsExecution(s)
               /\ s.stage = r.stage /\ s.wirings = r.wirings /\ s.group = r.group
               /\ s.left = r.left /\ s.values = r.values
               /\ s.writing = what /\ s.answer = r.answer
<1> DEFINE s == Doing(r, what)
<1>1. r = Execution(r.stage, r.wirings, r.group, r.left, r.values, r.writing, r.answer)
  BY IsMade
<1>2. s = Execution(r.stage, r.wirings, r.group, r.left, r.values, what, r.answer)
  <2>1. [Execution(r.stage, r.wirings, r.group, r.left, r.values, r.writing, r.answer) EXCEPT !.writing = what]
        = Execution(r.stage, r.wirings, r.group, r.left, r.values, what, r.answer)
    BY DEF Execution
  <2> QED
    BY <1>1, <2>1, Zenon DEF Doing
<1> HIDE DEF s
<1>3. /\ s.stage = r.stage /\ s.wirings = r.wirings /\ s.group = r.group
      /\ s.left = r.left /\ s.values = r.values
      /\ s.writing = what /\ s.answer = r.answer
  BY <1>2, ItsFields
<1>4. IsExecution(s)
  BY <1>1, <1>2, <1>3, IsMade
<1> QED
  BY <1>3, <1>4 DEF s

LEMMA StageFields ==
    ASSUME NEW r, IsExecution(r), NEW stage
    PROVE  LET s == Staged(r, stage) IN
               /\ IsExecution(s)
               /\ s.stage = stage /\ s.wirings = r.wirings /\ s.group = r.group
               /\ s.left = r.left /\ s.values = r.values
               /\ s.writing = r.writing /\ s.answer = r.answer
<1> DEFINE s == Staged(r, stage)
<1>1. r = Execution(r.stage, r.wirings, r.group, r.left, r.values, r.writing, r.answer)
  BY IsMade
<1>2. s = Execution(stage, r.wirings, r.group, r.left, r.values, r.writing, r.answer)
  <2>1. [Execution(r.stage, r.wirings, r.group, r.left, r.values, r.writing, r.answer) EXCEPT !.stage = stage]
        = Execution(stage, r.wirings, r.group, r.left, r.values, r.writing, r.answer)
    BY DEF Execution
  <2> QED
    BY <1>1, <2>1, Zenon DEF Staged
<1> HIDE DEF s
<1>3. /\ s.stage = stage /\ s.wirings = r.wirings /\ s.group = r.group
      /\ s.left = r.left /\ s.values = r.values
      /\ s.writing = r.writing /\ s.answer = r.answer
  BY <1>2, ItsFields
<1>4. IsExecution(s)
  BY <1>1, <1>2, <1>3, IsMade
<1> QED
  BY <1>3, <1>4 DEF s

LEMMA LeftFields ==
    ASSUME NEW r, IsExecution(r), NEW left
    PROVE  LET s == Reduced(r, left) IN
               /\ IsExecution(s)
               /\ s.stage = r.stage /\ s.wirings = r.wirings /\ s.group = r.group
               /\ s.left = left /\ s.values = r.values
               /\ s.writing = None /\ s.answer = r.answer
<1> DEFINE s == Reduced(r, left)
<1>1. r = Execution(r.stage, r.wirings, r.group, r.left, r.values, r.writing, r.answer)
  BY IsMade
<1>2. s = Execution(r.stage, r.wirings, r.group, left, r.values, None, r.answer)
  <2>1. s = [[r EXCEPT !.left = left] EXCEPT !.writing = None]
    BY Zenon DEF Reduced
  <2>2. [Execution(r.stage, r.wirings, r.group, r.left, r.values, r.writing, r.answer) EXCEPT !.left = left]
        = Execution(r.stage, r.wirings, r.group, left, r.values, r.writing, r.answer)
    BY DEF Execution
  <2>3. [Execution(r.stage, r.wirings, r.group, left, r.values, r.writing, r.answer) EXCEPT !.writing = None]
        = Execution(r.stage, r.wirings, r.group, left, r.values, None, r.answer)
    BY DEF Execution
  <2> QED
    BY <1>1, <2>1, <2>2, <2>3, Zenon
<1> HIDE DEF s
<1>3. /\ s.stage = r.stage /\ s.wirings = r.wirings /\ s.group = r.group
      /\ s.left = left /\ s.values = r.values
      /\ s.writing = None /\ s.answer = r.answer
  BY <1>2, ItsFields
<1>4. IsExecution(s)
  BY <1>1, <1>2, <1>3, IsMade
<1> QED
  BY <1>3, <1>4 DEF s

LEMMA EndFields ==
    ASSUME NEW r, IsExecution(r), NEW stage, NEW answer
    PROVE  LET s == Ended(r, stage, answer) IN
               /\ IsExecution(s)
               /\ s.stage = stage /\ s.wirings = r.wirings /\ s.group = r.group
               /\ s.left = {} /\ s.values = r.values
               /\ s.writing = None /\ s.answer = answer
<1> DEFINE s == Ended(r, stage, answer)
<1>1. r = Execution(r.stage, r.wirings, r.group, r.left, r.values, r.writing, r.answer)
  BY IsMade
<1>2. s = Execution(stage, r.wirings, r.group, {}, r.values, None, answer)
  <2>1. s = [[[[r EXCEPT !.stage = stage] EXCEPT !.left = {}] EXCEPT !.writing = None] EXCEPT !.answer = answer]
    BY Zenon DEF Ended
  <2>2. [Execution(r.stage, r.wirings, r.group, r.left, r.values, r.writing, r.answer) EXCEPT !.stage = stage]
        = Execution(stage, r.wirings, r.group, r.left, r.values, r.writing, r.answer)
    BY DEF Execution
  <2>3. [Execution(stage, r.wirings, r.group, r.left, r.values, r.writing, r.answer) EXCEPT !.left = {}]
        = Execution(stage, r.wirings, r.group, {}, r.values, r.writing, r.answer)
    BY DEF Execution
  <2>4. [Execution(stage, r.wirings, r.group, {}, r.values, r.writing, r.answer) EXCEPT !.writing = None]
        = Execution(stage, r.wirings, r.group, {}, r.values, None, r.answer)
    BY DEF Execution
  <2>5. [Execution(stage, r.wirings, r.group, {}, r.values, None, r.answer) EXCEPT !.answer = answer]
        = Execution(stage, r.wirings, r.group, {}, r.values, None, answer)
    BY DEF Execution
  <2>6. [[r EXCEPT !.stage = stage] EXCEPT !.left = {}]
        = Execution(stage, r.wirings, r.group, {}, r.values, r.writing, r.answer)
    BY <1>1, <2>2, <2>3, Zenon
  <2> QED
    BY <2>1, <2>4, <2>5, <2>6, Zenon
<1> HIDE DEF s
<1>3. /\ s.stage = stage /\ s.wirings = r.wirings /\ s.group = r.group
      /\ s.left = {} /\ s.values = r.values
      /\ s.writing = None /\ s.answer = answer
  BY <1>2, ItsFields
<1>4. IsExecution(s)
  BY <1>1, <1>2, <1>3, IsMade
<1> QED
  BY <1>3, <1>4 DEF s

LEMMA OverFields ==
    ASSUME NEW r, IsExecution(r), NEW stage
    PROVE  LET s == Over(r, stage) IN
               /\ IsExecution(s)
               /\ s.stage = stage /\ s.wirings = r.wirings /\ s.group = r.group
               /\ s.left = {} /\ s.values = r.values
               /\ s.writing = None /\ s.answer = r.answer
<1> DEFINE s == Over(r, stage)
<1>1. r = Execution(r.stage, r.wirings, r.group, r.left, r.values, r.writing, r.answer)
  BY IsMade
<1>2. s = Execution(stage, r.wirings, r.group, {}, r.values, None, r.answer)
  <2>1. s = [[[r EXCEPT !.stage = stage] EXCEPT !.left = {}] EXCEPT !.writing = None]
    BY Zenon DEF Over
  <2>2. [Execution(r.stage, r.wirings, r.group, r.left, r.values, r.writing, r.answer) EXCEPT !.stage = stage]
        = Execution(stage, r.wirings, r.group, r.left, r.values, r.writing, r.answer)
    BY DEF Execution
  <2>3. [Execution(stage, r.wirings, r.group, r.left, r.values, r.writing, r.answer) EXCEPT !.left = {}]
        = Execution(stage, r.wirings, r.group, {}, r.values, r.writing, r.answer)
    BY DEF Execution
  <2>4. [Execution(stage, r.wirings, r.group, {}, r.values, r.writing, r.answer) EXCEPT !.writing = None]
        = Execution(stage, r.wirings, r.group, {}, r.values, None, r.answer)
    BY DEF Execution
  <2> QED
    BY <1>1, <2>1, <2>2, <2>3, <2>4, Zenon
<1> HIDE DEF s
<1>3. /\ s.stage = stage /\ s.wirings = r.wirings /\ s.group = r.group
      /\ s.left = {} /\ s.values = r.values
      /\ s.writing = None /\ s.answer = r.answer
  BY <1>2, ItsFields
<1>4. IsExecution(s)
  BY <1>1, <1>2, <1>3, IsMade
<1> QED
  BY <1>3, <1>4 DEF s

LEMMA GroupFields ==
    ASSUME NEW r, IsExecution(r), NEW group, NEW left
    PROVE  LET s == Grouped(r, group, left) IN
               /\ IsExecution(s)
               /\ s.stage = r.stage /\ s.wirings = r.wirings /\ s.group = group
               /\ s.left = left /\ s.values = r.values
               /\ s.writing = None /\ s.answer = r.answer
<1> DEFINE s == Grouped(r, group, left)
<1>1. r = Execution(r.stage, r.wirings, r.group, r.left, r.values, r.writing, r.answer)
  BY IsMade
<1>2. s = Execution(r.stage, r.wirings, group, left, r.values, None, r.answer)
  <2>1. s = [[[r EXCEPT !.group = group] EXCEPT !.left = left] EXCEPT !.writing = None]
    BY Zenon DEF Grouped
  <2>2. [Execution(r.stage, r.wirings, r.group, r.left, r.values, r.writing, r.answer) EXCEPT !.group = group]
        = Execution(r.stage, r.wirings, group, r.left, r.values, r.writing, r.answer)
    BY DEF Execution
  <2>3. [Execution(r.stage, r.wirings, group, r.left, r.values, r.writing, r.answer) EXCEPT !.left = left]
        = Execution(r.stage, r.wirings, group, left, r.values, r.writing, r.answer)
    BY DEF Execution
  <2>4. [Execution(r.stage, r.wirings, group, left, r.values, r.writing, r.answer) EXCEPT !.writing = None]
        = Execution(r.stage, r.wirings, group, left, r.values, None, r.answer)
    BY DEF Execution
  <2> QED
    BY <1>1, <2>1, <2>2, <2>3, <2>4, Zenon
<1> HIDE DEF s
<1>3. /\ s.stage = r.stage /\ s.wirings = r.wirings /\ s.group = group
      /\ s.left = left /\ s.values = r.values
      /\ s.writing = None /\ s.answer = r.answer
  BY <1>2, ItsFields
<1>4. IsExecution(s)
  BY <1>1, <1>2, <1>3, IsMade
<1> QED
  BY <1>3, <1>4 DEF s

LEMMA RefusedFields ==
    ASSUME NEW r, IsExecution(r)
    PROVE  LET s == Refused(r) IN
               /\ IsExecution(s)
               /\ s.stage = "done" /\ s.wirings = r.wirings /\ s.group = r.group
               /\ s.left = r.left /\ s.values = r.values
               /\ s.writing = r.writing /\ s.answer = "refused"
<1> DEFINE s == Refused(r)
<1>1. r = Execution(r.stage, r.wirings, r.group, r.left, r.values, r.writing, r.answer)
  BY IsMade
<1>2. s = Execution("done", r.wirings, r.group, r.left, r.values, r.writing, "refused")
  <2>1. s = [[r EXCEPT !.stage = "done"] EXCEPT !.answer = "refused"]
    BY Zenon DEF Refused
  <2>2. [Execution(r.stage, r.wirings, r.group, r.left, r.values, r.writing, r.answer) EXCEPT !.stage = "done"]
        = Execution("done", r.wirings, r.group, r.left, r.values, r.writing, r.answer)
    BY DEF Execution
  <2>3. [Execution("done", r.wirings, r.group, r.left, r.values, r.writing, r.answer) EXCEPT !.answer = "refused"]
        = Execution("done", r.wirings, r.group, r.left, r.values, r.writing, "refused")
    BY DEF Execution
  <2> QED
    BY <1>1, <2>1, <2>2, <2>3, Zenon
<1> HIDE DEF s
<1>3. /\ s.stage = "done" /\ s.wirings = r.wirings /\ s.group = r.group
      /\ s.left = r.left /\ s.values = r.values
      /\ s.writing = r.writing /\ s.answer = "refused"
  BY <1>2, ItsFields
<1>4. IsExecution(s)
  BY <1>1, <1>2, <1>3, IsMade
<1> QED
  BY <1>3, <1>4 DEF s

LEMMA FailingFields ==
    ASSUME NEW r, IsExecution(r), NEW how
    PROVE  /\ IsExecution(Failing(r, how))
           /\ Failing(r, how).stage = "done"
           /\ Failing(r, how).answer # "ok"
<1> DEFINE a == IF how = "handling" THEN "failure" ELSE "raised"
<1>1. Failing(r, how) = Ended(r, "done", a)
  BY Zenon DEF Failing, Ended
<1>2. a # "ok"
  OBVIOUS
<1> HIDE DEF a
<1> QED
  BY <1>1, <1>2, EndFields

LEMMA NextGroupFields ==
    ASSUME NEW r, IsExecution(r), NEW left
    PROVE  LET s == NextGroup(r, left) IN
               /\ IsExecution(s) /\ s.wirings = r.wirings /\ s.left = left /\ s.writing = None
               /\ s.values = r.values
               /\ left # {} => s.stage = r.stage /\ s.answer = r.answer
                               /\ s.group = WiringsOf(r)[Min(left)].adapter
               /\ left = {} /\ r.stage = "load" => s.stage = "run" /\ s.answer = r.answer
               /\ left = {} /\ r.stage # "load" => s.stage = "done"
<1>1. CASE left # {}
  <2>1. NextGroup(r, left) = Grouped(r, WiringsOf(r)[Min(left)].adapter, left)
    BY <1>1, Zenon DEF NextGroup, Grouped
  <2> QED
    BY <1>1, <2>1, GroupFields
<1>2. CASE left = {} /\ r.stage = "load"
  <2>1. NextGroup(r, left) = Over(r, "run")
    BY <1>2, Zenon DEF NextGroup, Over
  <2> QED
    BY <1>2, <2>1, OverFields
<1>3. CASE left = {} /\ r.stage # "load"
  <2>1. NextGroup(r, left) = Ended(r, "done", "ok")
    BY <1>3, Zenon DEF NextGroup, Ended
  <2> QED
    BY <1>3, <2>1, EndFields
<1> QED
  BY <1>1, <1>2, <1>3

-----------------------------------------------------------------------------
(* Executions stay sound.                                                  *)

LEMMA DeliveredStays ==
    ASSUME NEW j, NEW w, NEW reached, NEW more, reached \subseteq more, Delivered(j, w, reached)
    PROVE  Delivered(j, w, more)
  BY DEF Delivered

(* What happens to others: more outputs have arrived, and the requests     *)
(* under way for the execution are the same.                               *)
LEMMA OthersStaySound ==
    ASSUME NEW j, NEW r, NEW reached, NEW sent, Sound(j, r, reached, sent),
           NEW more, reached \subseteq more,
           NEW others, \A p \in sent : p.job = j => p \in others,
           \A p \in others : p.job = j => p \in sent
    PROVE  Sound(j, r, more, others)
<1>1. SendingIsSound(j, r, more, others)
  <2> SUFFICES ASSUME r.stage = "send" PROVE SendingIsSound(j, r, more, others)
    BY DEF SendingIsSound
  <2>1. /\ r.left \subseteq DOMAIN r.wirings.out
        /\ GroupOf(r, r.left) # {}
        /\ OthersDelivered(j, r, r.left, reached)
        /\ PostsCover(j, r, reached, sent)
        /\ ComponentsCover(j, r, reached)
    BY DEF Sound, SendingIsSound
  <2>2. OthersDelivered(j, r, r.left, more)
    BY <2>1, DeliveredStays DEF OthersDelivered
  <2>3. \A i : InPost(j, r, i, sent) => InPost(j, r, i, others)
    BY DEF InPost
  <2>4. PostsCover(j, r, more, others)
    BY <2>1, <2>3, DeliveredStays DEF PostsCover
  <2>5. ComponentsCover(j, r, more)
    BY <2>1, DeliveredStays DEF ComponentsCover
  <2> QED
    BY <2>1, <2>2, <2>4, <2>5 DEF SendingIsSound
<1>2. PostsAreSound(j, r, more, others)
  BY DEF Sound, PostsAreSound
<1>3. OkIsDelivered(j, r, more)
  BY DeliveredStays DEF Sound, OkIsDelivered, OthersDelivered
<1> QED
  BY <1>1, <1>2, <1>3 DEF Sound

LEMMA FailingIsSound ==
    ASSUME NEW j, NEW r, NEW reached, NEW sent, Sound(j, r, reached, sent), NEW how
    PROVE  Sound(j, Failing(r, how), reached, sent)
<1>1. IsExecution(r)
  BY DEF Sound
<1>2. IsExecution(Failing(r, how)) /\ Failing(r, how).stage = "done" /\ Failing(r, how).answer # "ok"
  BY <1>1, FailingFields
<1>3. PostsAreSound(j, Failing(r, how), reached, sent)
  BY <1>2 DEF Sound, PostsAreSound
<1> QED
  BY <1>2, <1>3 DEF Sound, SendingIsSound, OkIsDelivered

(* Loading and running: nothing has been sent.                             *)
NothingSent(j, sent) == \A p \in sent : p.job # j

LEMMA NotSendingIsSound ==
    ASSUME NEW j, NEW r, NEW reached, NEW sent, IsExecution(r), NothingSent(j, sent),
           r.stage # "send", r.answer # "ok"
    PROVE  Sound(j, r, reached, sent)
  BY DEF Sound, SendingIsSound, PostsAreSound, OkIsDelivered, NothingSent

(* Sending: the next group, or the end.                                    *)
LEMMA NextGroupIsSound ==
    ASSUME NEW j, NEW r, NEW reached, NEW sent, IsExecution(r), r.stage = "send",
           r.answer # "ok", NEW left, left \subseteq DOMAIN r.wirings.out,
           OthersDelivered(j, r, left, reached),
           \A p \in sent : p.job = j =>
                /\ p.arrived => \A n \in p.names : <<j, n>> \in reached
                /\ AdapterOf(p.adapter) \in Posting
                /\ NotToCome(p, r, left)
    PROVE  Sound(j, NextGroup(r, left), reached, sent)
<1> DEFINE s == NextGroup(r, left)
<1>1. /\ IsExecution(s) /\ s.wirings = r.wirings /\ s.left = left /\ s.writing = None
      /\ left # {} => s.stage = "send" /\ s.answer = r.answer
                      /\ s.group = WiringsOf(r)[Min(left)].adapter
      /\ left = {} => s.stage = "done"
  BY NextGroupFields
<1> HIDE DEF s
<1>2. OthersDelivered(j, s, left, reached)
  BY <1>1 DEF OthersDelivered
<1>3. PostsAreSound(j, s, reached, sent)
  BY <1>1 DEF PostsAreSound, NotToCome
<1>4. OkIsDelivered(j, s, reached)
  BY <1>1, <1>2 DEF OkIsDelivered
<1>5. SendingIsSound(j, s, reached, sent)
  <2> SUFFICES ASSUME left # {} PROVE SendingIsSound(j, s, reached, sent)
    BY <1>1 DEF SendingIsSound
  <2>1. GroupOf(s, s.left) # {}
    <3>1. Min(left) \in left
      BY LeastNumber DEF IsExecution
    <3> QED
      BY <1>1, <3>1 DEF GroupOf, WiringsOf
  <2>2. PostsCover(j, s, reached, sent) /\ ComponentsCover(j, s, reached)
    BY <1>1 DEF PostsCover, ComponentsCover
  <2> QED
    BY <1>1, <1>2, <2>1, <2>2 DEF SendingIsSound
<1> QED
  BY <1>1, <1>3, <1>4, <1>5 DEF Sound, s

(* Sending: the wirings of the group are done with.                        *)
LEMMA GroupDoneIsSound ==
    ASSUME NEW j, NEW r, NEW reached, NEW sent, Sound(j, r, reached, sent), r.stage = "send",
           \A i \in GroupOf(r, r.left) : Delivered(j, r.wirings.out[i], reached)
    PROVE  Sound(j, GroupDone(r), reached, sent)
<1> DEFINE left == r.left \ GroupOf(r, r.left)
<1>1. IsExecution(r) /\ r.answer # "ok" /\ r.left \subseteq DOMAIN r.wirings.out
      /\ OthersDelivered(j, r, r.left, reached)
  BY DEF Sound, OkIsDelivered, SendingIsSound
<1>2. OthersDelivered(j, r, left, reached)
  BY <1>1 DEF OthersDelivered
<1>3. ASSUME NEW p \in sent, p.job = j
      PROVE  /\ p.arrived => \A n \in p.names : <<j, n>> \in reached
             /\ AdapterOf(p.adapter) \in Posting
             /\ NotToCome(p, r, left)
  <2>1. /\ p.arrived => \A n \in p.names : <<j, n>> \in reached
        /\ AdapterOf(p.adapter) \in Posting
        /\ p.adapter = r.group \/ NotToCome(p, r, r.left)
    BY <1>3 DEF Sound, PostsAreSound
  <2>2. NotToCome(p, r, left)
    BY <2>1 DEF NotToCome, GroupOf, WiringsOf
  <2> QED
    BY <2>1, <2>2
<1>4. left \subseteq DOMAIN r.wirings.out
  BY <1>1
<1> HIDE DEF left
<1>5. Sound(j, NextGroup(r, left), reached, sent)
  BY <1>1, <1>2, <1>3, <1>4, NextGroupIsSound
<1> QED
  BY <1>5 DEF GroupDone, left

(* Sending: some wirings of a group whose adapter is not posted to are     *)
(* done with.                                                              *)
LEMMA WithoutIsSound ==
    ASSUME NEW j, NEW r, NEW reached, NEW sent, Sound(j, r, reached, sent), r.stage = "send",
           AdapterOf(r.group) \notin Posting,
           NEW places, \A i \in places : Delivered(j, r.wirings.out[i], reached)
    PROVE  Sound(j, Without(r, places), reached, sent)
<1> DEFINE left == r.left \ places
<1>1. IsExecution(r) /\ r.answer # "ok" /\ left \subseteq DOMAIN r.wirings.out
  BY DEF Sound, OkIsDelivered, SendingIsSound
<1>2. OthersDelivered(j, r, left, reached)
  BY DEF Sound, SendingIsSound, OthersDelivered
<1>3. ASSUME NEW p \in sent, p.job = j
      PROVE  /\ p.arrived => \A n \in p.names : <<j, n>> \in reached
             /\ AdapterOf(p.adapter) \in Posting
             /\ NotToCome(p, r, left)
  BY <1>3 DEF Sound, PostsAreSound, NotToCome
<1> HIDE DEF left
<1>4. CASE GroupOf(r, left) = {}
  <2>1. Without(r, places) = NextGroup(r, left)
    BY <1>4, Zenon DEF Without, left
  <2>2. Sound(j, NextGroup(r, left), reached, sent)
    BY <1>1, <1>2, <1>3, NextGroupIsSound
  <2> QED
    BY <2>1, <2>2
<1>5. CASE GroupOf(r, left) # {}
  <2> DEFINE s == Reduced(r, left)
  <2>1. Without(r, places) = s
    BY <1>5, Zenon DEF Without, left, Reduced
  <2>2. /\ IsExecution(s) /\ s.stage = "send" /\ s.wirings = r.wirings /\ s.group = r.group
        /\ s.left = left /\ s.writing = None /\ s.answer = r.answer
    BY <1>1, LeftFields
  <2> HIDE DEF s
  <2>3. OthersDelivered(j, s, left, reached) /\ GroupOf(s, left) # {}
    BY <1>2, <1>5, <2>2 DEF OthersDelivered, GroupOf, WiringsOf
  <2>4. SendingIsSound(j, s, reached, sent)
    BY <1>1, <2>2, <2>3 DEF SendingIsSound, PostsCover, ComponentsCover
  <2>5. PostsAreSound(j, s, reached, sent)
    BY <1>3, <2>2 DEF PostsAreSound, NotToCome
  <2> QED
    BY <1>1, <2>1, <2>2, <2>4, <2>5 DEF Sound, OkIsDelivered
<1> QED
  BY <1>4, <1>5

(* Sending: something is begun or goes on.                                 *)
LEMMA DoingIsSound ==
    ASSUME NEW j, NEW r, NEW reached, NEW sent, Sound(j, r, reached, sent), r.stage = "send",
           r.writing = None \/ AdapterOf(r.group) \notin Posting,
           NEW what, PostsCover(j, Doing(r, what), reached, sent),
           ComponentsCover(j, Doing(r, what), reached)
    PROVE  Sound(j, Doing(r, what), reached, sent)
<1> DEFINE s == Doing(r, what)
<1>1. /\ IsExecution(r) /\ r.answer # "ok" /\ r.left \subseteq DOMAIN r.wirings.out
      /\ GroupOf(r, r.left) # {} /\ OthersDelivered(j, r, r.left, reached)
  BY DEF Sound, OkIsDelivered, SendingIsSound
<1>2. /\ IsExecution(s) /\ s.writing = what /\ s.stage = "send" /\ s.wirings = r.wirings
      /\ s.group = r.group /\ s.left = r.left /\ s.answer = r.answer
  BY <1>1, WritingFields
<1>3. PostsCover(j, s, reached, sent) /\ ComponentsCover(j, s, reached)
  OBVIOUS
<1> HIDE DEF s
<1>4. OthersDelivered(j, s, s.left, reached) /\ GroupOf(s, s.left) # {}
  BY <1>1, <1>2 DEF OthersDelivered, GroupOf, WiringsOf
<1>5. SendingIsSound(j, s, reached, sent)
  BY <1>1, <1>2, <1>3, <1>4 DEF SendingIsSound
<1>6. PostsAreSound(j, s, reached, sent)
  BY <1>2 DEF Sound, PostsAreSound, NotToCome
<1>7. OkIsDelivered(j, s, reached)
  BY <1>1, <1>2 DEF OkIsDelivered
<1> QED
  BY <1>2, <1>5, <1>6, <1>7 DEF Sound, s

(* Loading: nothing has been sent.                                         *)
LEMMA LoadingIsSound ==
    ASSUME NEW j, NEW r, NEW reached, NEW sent, Sound(j, r, reached, sent), r.stage = "load"
    PROVE  /\ IsExecution(r) /\ r.answer # "ok" /\ NothingSent(j, sent)
           /\ \A v, places : Sound(j, Without(Valued(r, v), places), reached, sent)
           /\ \A v : Sound(j, GroupDone(Valued(r, v)), reached, sent)
           /\ \A what : Sound(j, Doing(r, what), reached, sent)
<1>1. IsExecution(r) /\ r.answer # "ok" /\ NothingSent(j, sent)
  BY DEF Sound, OkIsDelivered, PostsAreSound, NothingSent
<1>2. ASSUME NEW v
      PROVE  IsExecution(Valued(r, v)) /\ Valued(r, v).stage = "load" /\ Valued(r, v).answer # "ok"
  BY <1>1, ValuesFields
<1>3. ASSUME NEW s, IsExecution(s), s.stage = "load", s.answer # "ok", NEW left
      PROVE  Sound(j, NextGroup(s, left), reached, sent)
  <2>1. /\ IsExecution(NextGroup(s, left)) /\ NextGroup(s, left).stage \in {"load", "run"}
        /\ NextGroup(s, left).answer # "ok"
    BY <1>3, NextGroupFields
  <2> QED
    BY <1>1, <2>1, NotSendingIsSound
<1>4. ASSUME NEW v, NEW places PROVE Sound(j, Without(Valued(r, v), places), reached, sent)
  <2> DEFINE s == Valued(r, v)
             left == s.left \ places
  <2>1. IsExecution(s) /\ s.stage = "load" /\ s.answer # "ok"
    BY <1>2
  <2>2. Without(s, places) \in {Reduced(s, left), NextGroup(s, left)}
    BY Zenon DEF Without, Reduced
  <2> HIDE DEF s, left
  <2>3. Sound(j, NextGroup(s, left), reached, sent)
    BY <1>3, <2>1
  <2>4. Sound(j, Reduced(s, left), reached, sent)
    <3>1. /\ IsExecution(Reduced(s, left)) /\ Reduced(s, left).stage = "load"
          /\ Reduced(s, left).answer # "ok"
      BY <2>1, LeftFields
    <3> QED
      BY <1>1, <3>1, NotSendingIsSound
  <2> QED
    BY <2>2, <2>3, <2>4 DEF s
<1>5. ASSUME NEW v PROVE Sound(j, GroupDone(Valued(r, v)), reached, sent)
  BY <1>2, <1>3 DEF GroupDone
<1>6. ASSUME NEW what PROVE Sound(j, Doing(r, what), reached, sent)
  <2>1. IsExecution(Doing(r, what)) /\ Doing(r, what).stage = "load" /\ Doing(r, what).answer # "ok"
    BY <1>1, WritingFields
  <2> QED
    BY <1>1, <2>1, NotSendingIsSound
<1> QED
  BY <1>1, <1>4, <1>5, <1>6

(* A request is answered or given up: nobody awaits it, or what it names   *)
(* has arrived.                                                            *)
LEMMA PostRemoved ==
    ASSUME NEW j, NEW r, NEW reached, NEW sent, Sound(j, r, reached, sent), NEW p,
           \/ ~ (r.stage = "send" /\ r.group = p.adapter)
           \/ \A n \in p.names : <<j, n>> \in reached
    PROVE  Sound(j, r, reached, sent \ {p})
<1>1. PostsAreSound(j, r, reached, sent \ {p})
  BY DEF Sound, PostsAreSound
<1>2. SendingIsSound(j, r, reached, sent \ {p})
  <2> SUFFICES ASSUME r.stage = "send" PROVE SendingIsSound(j, r, reached, sent \ {p})
    BY DEF SendingIsSound
  <2>1. PostsCover(j, r, reached, sent)
    BY DEF Sound, SendingIsSound
  <2>2. ASSUME NEW i, InPost(j, r, i, sent)
        PROVE  Delivered(j, r.wirings.out[i], reached) \/ InPost(j, r, i, sent \ {p})
    BY <2>2 DEF InPost, Delivered
  <2>3. PostsCover(j, r, reached, sent \ {p})
    BY <2>1, <2>2 DEF PostsCover
  <2> QED
    BY <2>3 DEF Sound, SendingIsSound
<1> QED
  BY <1>1, <1>2 DEF Sound

(* A request arrives.                                                      *)
LEMMA PostArrives ==
    ASSUME NEW j, NEW r, NEW reached, NEW sent, Sound(j, r, reached, sent),
           NEW p \in sent, p.job = j,
           NEW q, q.job = j, q.adapter = p.adapter, q.names = p.names,
           NEW more, reached \subseteq more, \A n \in p.names : <<j, n>> \in more
    PROVE  Sound(j, r, more, (sent \ {p}) \cup {q})
<1> DEFINE now == (sent \ {p}) \cup {q}
<1>0. Sound(j, r, more, sent)
  BY OthersStaySound
<1>1. PostsAreSound(j, r, more, now)
  BY <1>0 DEF Sound, PostsAreSound, NotToCome
<1>2. SendingIsSound(j, r, more, now)
  <2> SUFFICES ASSUME r.stage = "send" PROVE SendingIsSound(j, r, more, now)
    BY DEF SendingIsSound
  <2>1. PostsCover(j, r, more, sent)
    BY <1>0 DEF Sound, SendingIsSound
  <2>2. \A i : InPost(j, r, i, sent) => InPost(j, r, i, now)
    BY DEF InPost
  <2> HIDE DEF now
  <2>3. PostsCover(j, r, more, now)
    BY <2>1, <2>2 DEF PostsCover
  <2> QED
    BY <1>0, <2>3 DEF Sound, SendingIsSound
<1> QED
  BY <1>0, <1>1, <1>2 DEF Sound

(* The requests of a group are sent together.                              *)
AreOf(new, j, r) ==
    \A p \in new : IsPost(p) /\ p.job = j /\ p.adapter = r.group /\ p.arrived = FALSE

LEMMA LaunchFails ==
    ASSUME NEW j, NEW r, NEW reached, NEW sent, Sound(j, r, reached, sent),
           AdapterOf(r.group) \in Posting, NEW new, AreOf(new, j, r), NEW how
    PROVE  Sound(j, Failing(r, how), reached, sent \cup new)
<1>1. IsExecution(r)
  BY DEF Sound
<1>2. IsExecution(Failing(r, how)) /\ Failing(r, how).stage = "done" /\ Failing(r, how).answer # "ok"
  BY <1>1, FailingFields
<1>3. PostsAreSound(j, Failing(r, how), reached, sent \cup new)
  BY <1>2 DEF Sound, PostsAreSound, AreOf
<1> QED
  BY <1>2, <1>3 DEF Sound, SendingIsSound, OkIsDelivered

LEMMA LaunchSucceeds ==
    ASSUME NEW j, NEW r, NEW reached, NEW sent, Sound(j, r, reached, sent), r.stage = "send",
           r.writing = None, AdapterOf(r.group) \in Posting, NEW new, AreOf(new, j, r),
           \A i \in GroupOf(r, r.left) :
                Delivered(j, r.wirings.out[i], reached) \/ InPost(j, r, i, new)
    PROVE  Sound(j, Doing(r, "posts"), reached, sent \cup new)
<1> DEFINE s == Doing(r, "posts")
           now == sent \cup new
<1>1. /\ IsExecution(r) /\ r.answer # "ok" /\ r.left \subseteq DOMAIN r.wirings.out
      /\ GroupOf(r, r.left) # {} /\ OthersDelivered(j, r, r.left, reached)
  BY DEF Sound, OkIsDelivered, SendingIsSound
<1>2. /\ IsExecution(s) /\ s.writing = "posts" /\ s.stage = "send" /\ s.wirings = r.wirings
      /\ s.group = r.group /\ s.left = r.left /\ s.answer = r.answer
  BY <1>1, WritingFields
<1> HIDE DEF s
<1>3. OthersDelivered(j, s, s.left, reached) /\ GroupOf(s, s.left) = GroupOf(r, r.left)
  BY <1>1, <1>2 DEF OthersDelivered, GroupOf, WiringsOf
<1>4. \A i : InPost(j, r, i, new) => InPost(j, s, i, now)
  BY <1>2 DEF InPost
<1>5. PostsCover(j, s, reached, now)
  BY <1>2, <1>3, <1>4 DEF PostsCover
<1>6. ComponentsCover(j, s, reached)
  BY <1>2 DEF ComponentsCover, Posting, ComponentKey
<1>7. SendingIsSound(j, s, reached, now)
  BY <1>1, <1>2, <1>3, <1>5, <1>6 DEF SendingIsSound
<1>8. PostsAreSound(j, s, reached, now)
  BY <1>2, WiredAssumption DEF Sound, PostsAreSound, NotToCome, AreOf
<1>9. OkIsDelivered(j, s, reached)
  BY <1>1, <1>2 DEF OkIsDelivered
<1> QED
  BY <1>2, <1>7, <1>8, <1>9 DEF Sound, s

-----------------------------------------------------------------------------
(* Steps.  The execution at work stays sound; others find their outputs    *)
(* and their requests where they were.                                     *)

LEMMA StepKeeps ==
    ASSUME DeliveryInv, setup' = setup, NEW j \in Jobs, NEW r, Step(j, r),
           arrived \subseteq arrived', Sound(j, r, arrived', posts'),
           \A p \in posts' : IsPost(p),
           \A p \in posts : p.job # j => p \in posts',
           \A p \in posts' : p.job # j => p \in posts
    PROVE  DeliveryInv'
<1>1. Jobs' = Jobs /\ DOMAIN job = Jobs /\ job' = [job EXCEPT ![j] = r] /\ setup' \in Setups
  BY DEF DeliveryInv, Jobs, Step
<1>2. DOMAIN job' = Jobs /\ job'[j] = r /\ \A k \in Jobs \ {j} : job'[k] = job[k]
  BY <1>1
<1>3. ASSUME NEW k \in Jobs PROVE Sound(k, job'[k], arrived', posts')
  <2>1. CASE k = j
    BY <1>2, <2>1
  <2>2. CASE k # j
    <3>1. Sound(k, job[k], arrived, posts)
      BY DEF DeliveryInv
    <3>2. Sound(k, job[k], arrived', posts')
      BY <2>2, <3>1, OthersStaySound
    <3> QED
      BY <1>2, <2>2, <3>2
  <2> QED
    BY <2>1, <2>2
<1>4. \A p \in posts' : IsPost(p)'
  BY <1>1 DEF IsPost
<1> QED
  BY <1>1, <1>2, <1>3, <1>4 DEF DeliveryInv

(* Nothing is sent and nothing arrives.                                    *)
LEMMA QuietStepKeeps ==
    ASSUME DeliveryInv, UNCHANGED <<setup, posts, arrived>>, NEW j \in Jobs, NEW r, Step(j, r),
           Sound(j, r, arrived, posts)
    PROVE  DeliveryInv'
<1>1. setup' = setup /\ posts' = posts /\ arrived' = arrived
  OBVIOUS
<1>2. \A p \in posts' : IsPost(p)
  BY <1>1 DEF DeliveryInv
<1>3. Sound(j, r, arrived', posts') /\ arrived \subseteq arrived'
  BY <1>1
<1> QED
  BY <1>1, <1>2, <1>3, StepKeeps

LEMMA FailingKeeps ==
    ASSUME DeliveryInv, UNCHANGED <<setup, posts, arrived>>, NEW j \in Jobs, NEW how,
           Step(j, Failing(job[j], how))
    PROVE  DeliveryInv'
<1>1. Sound(j, Failing(job[j], how), arrived, posts)
  BY FailingIsSound DEF DeliveryInv
<1> QED
  BY <1>1, QuietStepKeeps

LEMMA ProvideKeeps ==
    ASSUME DeliveryInv, UNCHANGED <<setup, posts, arrived>>, NEW j \in Jobs,
           job[j].stage = "load", NEW places, NEW read, Provide(j, places, read)
    PROVE  DeliveryInv'
<1> DEFINE names == {Wiring(j, i).name : i \in places}
           place(n) == CHOOSE i \in places : Wiring(j, i).name = n
           v == [n \in names |-> WithAttrs(read[place(n)].frame, Wiring(j, place(n)))]
                    @@ job[j].values
<1>1. \/ \E how : Step(j, Failing(job[j], how))
      \/ Step(j, Without(Valued(job[j], v), places))
  BY DEF Provide, Valued
<1> HIDE DEF v
<1>2. Sound(j, Without(Valued(job[j], v), places), arrived, posts)
  BY LoadingIsSound DEF DeliveryInv
<1> QED
  BY <1>1, <1>2, FailingKeeps, QuietStepKeeps

LEMMA LoadKeeps ==
    ASSUME DeliveryInv, NEW j \in Jobs, Load(j)
    PROVE  DeliveryInv'
  BY ProvideKeeps DEF Load

LEMMA LoadRestKeeps ==
    ASSUME DeliveryInv, NEW j \in Jobs, LoadRest(j)
    PROVE  DeliveryInv'
<1>1. job[j].stage = "load" /\ UNCHANGED <<setup, posts, arrived>>
  BY DEF LoadRest
<1>2. \/ \E how : Step(j, Failing(job[j], how))
      \/ \E places, read : Provide(j, places, read)
  BY DEF LoadRest
<1> QED
  BY <1>1, <1>2, FailingKeeps, ProvideKeeps

LEMMA ReceiveKeeps ==
    ASSUME DeliveryInv, NEW j \in Jobs, Receive(j)
    PROVE  DeliveryInv'
<1>1. job[j].stage = "load" /\ UNCHANGED <<setup, posts, arrived>>
  BY DEF Receive
<1>2. \/ \E how : Step(j, Failing(job[j], how))
      \/ \E v : Step(j, GroupDone(Valued(job[j], v)))
  BY DEF Receive, Valued
<1>3. \A v : Sound(j, GroupDone(Valued(job[j], v)), arrived, posts)
  BY <1>1, LoadingIsSound DEF DeliveryInv
<1> QED
  BY <1>1, <1>2, <1>3, FailingKeeps, QuietStepKeeps

LEMMA RunFailsKeeps ==
    ASSUME DeliveryInv, NEW j \in Jobs, RunFails(j)
    PROVE  DeliveryInv'
  BY FailingKeeps DEF RunFails

LEMMA WriteFailsKeeps ==
    ASSUME DeliveryInv, NEW j \in Jobs, WriteFails(j)
    PROVE  DeliveryInv'
  BY FailingKeeps DEF WriteFails

LEMMA RunKeeps ==
    ASSUME DeliveryInv, NEW j \in Jobs, Run(j)
    PROVE  DeliveryInv'
<1> DEFINE r == Valued(job[j], Results(j))
           s == Staged(r, "send")
<1>1. job[j].stage = "run" /\ UNCHANGED <<setup, posts, arrived>> /\ Step(j, Enter(r, "send"))
  BY DEF Run, Valued
<1>2. Enter(r, "send") = NextGroup(s, Places(s))
  BY Zenon DEF Enter, Staged
<1>3. Sound(j, job[j], arrived, posts)
  BY DEF DeliveryInv
<1>4. IsExecution(job[j]) /\ job[j].answer # "ok" /\ NothingSent(j, posts)
  BY <1>1, <1>3 DEF Sound, OkIsDelivered, PostsAreSound, NothingSent
<1>5. IsExecution(r) /\ r.answer # "ok"
  BY <1>4, ValuesFields
<1> HIDE DEF r
<1>6. IsExecution(s) /\ s.answer # "ok" /\ s.stage = "send"
  BY <1>5, StageFields
<1> HIDE DEF s
<1>7. Places(s) = DOMAIN s.wirings.out
  BY <1>6 DEF Places, WiringsOf
<1>8. OthersDelivered(j, s, Places(s), arrived)
  BY <1>7 DEF OthersDelivered
<1>9. Sound(j, NextGroup(s, Places(s)), arrived, posts)
  BY <1>4, <1>6, <1>7, <1>8, NextGroupIsSound DEF NothingSent
<1> QED
  BY <1>1, <1>2, <1>9, QuietStepKeeps

LEMMA ReturnKeeps ==
    ASSUME DeliveryInv, NEW j \in Jobs, Return(j)
    PROVE  DeliveryInv'
<1>1. UNCHANGED <<setup, posts, arrived>> /\ job[j].stage = "send"
  BY DEF Return, Sending
<1>2. CASE GroupKind(j) = "unknown"
  BY <1>1, <1>2, FailingKeeps DEF Return
<1>3. CASE GroupKind(j) # "unknown"
  <2>1. GroupKind(j) = "direct_provisioning" /\ Step(j, GroupDone(job[j]))
    BY <1>3 DEF Return
  <2>2. ASSUME NEW i \in GroupOf(job[j], job[j].left)
        PROVE  Delivered(j, job[j].wirings.out[i], arrived)
    BY <1>1, <2>1, <2>2 DEF GroupOf, WiringsOf, Delivered, Kind, GroupKind
  <2>3. Sound(j, GroupDone(job[j]), arrived, posts)
    BY <1>1, <2>2, GroupDoneIsSound DEF DeliveryInv
  <2> QED
    BY <1>1, <2>1, <2>3, QuietStepKeeps
<1> QED
  BY <1>2, <1>3

(* The backend keeps the wirings in their places.                          *)
LEMMA AcceptedPlaces ==
    ASSUME NEW given, AcceptedWirings(given) # None
    PROVE  DOMAIN AcceptedWirings(given) = DOMAIN given
  BY DEF AcceptedWirings

LEMMA ResolvedPlaces ==
    ASSUME NEW ws, NEW entries, NEW result \in Resolutions(ws, entries), result.error = "no"
    PROVE  DOMAIN result.wirings = DOMAIN ws
  BY DEF Resolutions

Supplied(r, ins, outs) == [r EXCEPT !.wirings = [in |-> ins, out |-> outs]]

LEMMA SuppliedFields ==
    ASSUME NEW r, IsExecution(r), NEW ins, NEW outs,
           DOMAIN ins \subseteq Nat, DOMAIN outs \subseteq Nat
    PROVE  LET s == Supplied(r, ins, outs) IN
               /\ IsExecution(s)
               /\ s.wirings.in = ins /\ s.wirings.out = outs /\ s.answer = r.answer
<1> DEFINE s == Supplied(r, ins, outs)
           given == [in |-> ins, out |-> outs]
<1>1. r = Execution(r.stage, r.wirings, r.group, r.left, r.values, r.writing, r.answer)
  BY IsMade
<1>2. given.in = ins /\ given.out = outs
  OBVIOUS
<1>3. s = [r EXCEPT !.wirings = given]
  BY Zenon DEF Supplied
<1> HIDE DEF s, given
<1>4. s = Execution(r.stage, given, r.group, r.left, r.values, r.writing, r.answer)
  <2>1. [Execution(r.stage, r.wirings, r.group, r.left, r.values, r.writing, r.answer)
            EXCEPT !.wirings = given]
        = Execution(r.stage, given, r.group, r.left, r.values, r.writing, r.answer)
    BY DEF Execution
  <2> QED
    BY <1>1, <1>3, <2>1, Zenon
<1>5. /\ s.stage = r.stage /\ s.wirings = given /\ s.group = r.group /\ s.left = r.left
      /\ s.values = r.values /\ s.writing = r.writing /\ s.answer = r.answer
  BY <1>4, ItsFields
<1>6. IsExecution(s)
  BY <1>2, <1>4, <1>5, IsMade
<1> QED
  BY <1>2, <1>5, <1>6 DEF s

LEMMA BeginKeeps ==
    ASSUME DeliveryInv, NEW j \in Jobs, Begin(j)
    PROVE  DeliveryInv'
<1> DEFINE ins == AcceptedWirings(Task(j).inputs)
           outs == AcceptedWirings(Task(j).outputs)
           r == job[j]
<1>1. r.stage = "waiting" /\ UNCHANGED <<setup, posts, arrived>>
  BY DEF Begin
<1>2. /\ IsExecution(r) /\ r.answer # "ok" /\ NothingSent(j, posts)
      /\ Sound(j, r, arrived, posts)
  BY <1>1 DEF DeliveryInv, Sound, OkIsDelivered, PostsAreSound, NothingSent
<1>3. CASE Step(j, Refused(r))
  <2>1. IsExecution(Refused(r)) /\ Refused(r).stage = "done" /\ Refused(r).answer = "refused"
    BY <1>2, RefusedFields
  <2>2. Sound(j, Refused(r), arrived, posts)
    BY <1>2, <2>1, NotSendingIsSound
  <2> QED
    BY <1>1, <1>3, <2>2, QuietStepKeeps
<1>4. ASSUME NEW in \in Resolutions(ins, setup.entries),
             NEW out \in Resolutions(outs, setup.entries),
             ins # None, outs # None, in.error = "no", out.error = "no",
             Step(j, Enter(Supplied(r, in.wirings, out.wirings), "load"))
      PROVE  DeliveryInv'
  <2> DEFINE x == Supplied(r, in.wirings, out.wirings)
             s == Staged(x, "load")
  <2>1. DOMAIN Task(j).inputs \subseteq Nat /\ DOMAIN Task(j).outputs \subseteq Nat
    BY WiredAssumption DEF DeliveryInv, Jobs, Task, IsList
  <2>2. DOMAIN in.wirings \subseteq Nat /\ DOMAIN out.wirings \subseteq Nat
    <3>1. DOMAIN in.wirings = DOMAIN ins /\ DOMAIN out.wirings = DOMAIN outs
      BY <1>4, ResolvedPlaces
    <3>2. DOMAIN ins = DOMAIN Task(j).inputs /\ DOMAIN outs = DOMAIN Task(j).outputs
      BY <1>4, AcceptedPlaces
    <3> QED
      BY <2>1, <3>1, <3>2
  <2>3. IsExecution(x) /\ x.answer # "ok"
    BY <1>2, <2>2, SuppliedFields
  <2>4. Enter(x, "load") = NextGroup(s, Places(s))
    BY Zenon DEF Enter, Staged
  <2> HIDE DEF x
  <2>5. IsExecution(s) /\ s.answer # "ok" /\ s.stage = "load"
    BY <2>3, StageFields
  <2> HIDE DEF s
  <2> DEFINE n == NextGroup(s, Places(s))
  <2>6. IsExecution(n) /\ n.answer # "ok" /\ n.stage \in {"load", "run"}
    BY <2>5, NextGroupFields
  <2> HIDE DEF n
  <2>7. Sound(j, n, arrived, posts)
    BY <1>2, <2>6, NotSendingIsSound
  <2>8. Step(j, n)
    BY <1>4, <2>4 DEF x, n
  <2> QED
    BY <1>1, <2>7, <2>8, QuietStepKeeps
<1>5. \/ Step(j, Refused(r))
      \/ \E how : Step(j, Failing(r, how))
      \/ /\ ins # None /\ outs # None
         /\ \E in \in Resolutions(ins, setup.entries), out \in Resolutions(outs, setup.entries) :
                /\ in.error = "no" /\ out.error = "no"
                /\ Step(j, Enter(Supplied(r, in.wirings, out.wirings), "load"))
  BY DEF Begin, Refused, Supplied
<1> HIDE DEF ins, outs, r
<1>6. (\E how : Step(j, Failing(r, how))) => DeliveryInv'
  BY <1>1, FailingKeeps DEF r
<1> QED
  BY <1>3, <1>4, <1>5, <1>6

(* Tables, files and objects.                                              *)
LEMMA WriteKeeps ==
    ASSUME DeliveryInv, UNCHANGED <<setup, posts, arrived>>, NEW j \in Jobs,
           job[j].stage = "send", GroupKind(j) \notin Awaiting, NEW what, Write(j, what)
    PROVE  DeliveryInv'
<1> DEFINE r == job[j]
           s == Doing(r, what)
<1>1. Sound(j, r, arrived, posts) /\ IsExecution(r) /\ r.stage = "send"
  BY DEF DeliveryInv, Sound
<1>2. AdapterOf(r.group) \notin Posting /\ AdapterOf(r.group) # ComponentKey
  BY DEF GroupKind, Awaiting
<1>3. Step(j, s)
  BY DEF Write, Doing
<1> HIDE DEF r
<1>4. s.group = r.group
  BY <1>1, WritingFields
<1>5. PostsCover(j, s, arrived, posts) /\ ComponentsCover(j, s, arrived)
  BY <1>2, <1>4 DEF PostsCover, ComponentsCover
<1>6. Sound(j, s, arrived, posts)
  BY <1>1, <1>2, <1>5, DoingIsSound
<1> QED
  BY <1>3, <1>6, QuietStepKeeps

LEMMA WrittenKeeps ==
    ASSUME DeliveryInv, UNCHANGED <<setup, posts>>, NEW j \in Jobs,
           job[j].stage = "send", GroupKind(j) \notin Awaiting,
           arrived' = arrived \cup {<<j, Current(j).name>>},
           Step(j, Without(job[j], {CurrentPlace(j)}))
    PROVE  DeliveryInv'
<1>1. Sound(j, job[j], arrived', posts)
  <2>1. Sound(j, job[j], arrived, posts)
    BY DEF DeliveryInv
  <2>2. arrived \subseteq arrived'
    OBVIOUS
  <2> QED
    BY <2>1, <2>2, OthersStaySound
<1>2. Delivered(j, job[j].wirings.out[CurrentPlace(j)], arrived')
  BY DEF Delivered, Current, Wiring, WiringsOf
<1>3. AdapterOf(job[j].group) \notin Posting
  BY DEF GroupKind, Awaiting
<1>4. Sound(j, Without(job[j], {CurrentPlace(j)}), arrived', posts)
  BY <1>1, <1>2, <1>3, WithoutIsSound
<1>5. \A p \in posts' : IsPost(p)
  BY DEF DeliveryInv
<1>6. setup' = setup /\ posts' = posts /\ arrived \subseteq arrived'
  OBVIOUS
<1>7. Sound(j, Without(job[j], {CurrentPlace(j)}), arrived', posts')
  BY <1>4, <1>6
<1> QED
  BY <1>5, <1>6, <1>7, StepKeeps

LEMMA BeginTransactionKeeps ==
    ASSUME DeliveryInv, NEW j \in Jobs, BeginTransaction(j)
    PROVE  DeliveryInv'
<1>1. /\ job[j].stage = "send" /\ GroupKind(j) \notin Awaiting
      /\ UNCHANGED <<setup, posts, arrived>>
  BY DEF BeginTransaction, Sending, SqlKey, Awaiting, Posting, ComponentKey
<1>2. (\E how : Step(j, Failing(job[j], how))) \/ (\E what : Write(j, what))
  BY DEF BeginTransaction
<1> QED
  BY <1>1, <1>2, FailingKeeps, WriteKeeps

LEMMA EndTransactionKeeps ==
    ASSUME DeliveryInv, NEW j \in Jobs, EndTransaction(j)
    PROVE  DeliveryInv'
<1>1. /\ job[j].stage = "send" /\ GroupKind(j) \notin Awaiting
      /\ UNCHANGED <<setup, posts>>
      /\ arrived' = arrived \cup {<<j, Current(j).name>>}
      /\ Step(j, Without(job[j], {CurrentPlace(j)}))
  BY DEF EndTransaction, SqlKey, Awaiting, Posting, ComponentKey
<1> QED
  BY <1>1, WrittenKeeps

LEMMA OpenFileKeeps ==
    ASSUME DeliveryInv, NEW j \in Jobs, OpenFile(j)
    PROVE  DeliveryInv'
<1>1. /\ job[j].stage = "send" /\ GroupKind(j) \notin Awaiting
      /\ UNCHANGED <<setup, posts, arrived>>
  BY DEF OpenFile, Sending, FileKey, Awaiting, Posting, ComponentKey
<1>2. (\E how : Step(j, Failing(job[j], how))) \/ (\E what : Write(j, what))
  BY DEF OpenFile
<1> QED
  BY <1>1, <1>2, FailingKeeps, WriteKeeps

LEMMA CloseFileKeeps ==
    ASSUME DeliveryInv, NEW j \in Jobs, CloseFile(j)
    PROVE  DeliveryInv'
<1>1. /\ job[j].stage = "send" /\ GroupKind(j) \notin Awaiting
      /\ UNCHANGED <<setup, posts>>
      /\ arrived' = arrived \cup {<<j, Current(j).name>>}
      /\ Step(j, Without(job[j], {CurrentPlace(j)}))
  BY DEF CloseFile, FileKey, Awaiting, Posting, ComponentKey
<1> QED
  BY <1>1, WrittenKeeps

LEMMA HeadObjectKeeps ==
    ASSUME DeliveryInv, NEW j \in Jobs, HeadObject(j)
    PROVE  DeliveryInv'
<1>1. /\ job[j].stage = "send" /\ GroupKind(j) \notin Awaiting
      /\ UNCHANGED <<setup, posts, arrived>>
  BY DEF HeadObject, Sending, BlobKey, Awaiting, Posting, ComponentKey
<1>2. (\E how : Step(j, Failing(job[j], how))) \/ (\E what : Write(j, what))
  BY DEF HeadObject
<1> QED
  BY <1>1, <1>2, FailingKeeps, WriteKeeps

LEMMA PutObjectKeeps ==
    ASSUME DeliveryInv, NEW j \in Jobs, PutObject(j)
    PROVE  DeliveryInv'
<1>1. /\ job[j].stage = "send" /\ GroupKind(j) \notin Awaiting
      /\ UNCHANGED <<setup, posts>>
  BY DEF PutObject, BlobKey, Awaiting, Posting, ComponentKey
<1>2. \/ (\E what : Write(j, what)) /\ UNCHANGED arrived
      \/ /\ arrived' = arrived \cup {<<j, Current(j).name>>}
         /\ Step(j, Without(job[j], {CurrentPlace(j)}))
  BY DEF PutObject
<1> QED
  BY <1>1, <1>2, WriteKeeps, WrittenKeeps

(* REST adapters and Kafka.                                                *)
LEMMA LaunchFailsKeeps ==
    ASSUME DeliveryInv, UNCHANGED <<setup, arrived>>, NEW j \in Jobs,
           AdapterOf(job[j].group) \in Posting, NEW new, AreOf(new, j, job[j]),
           posts' = posts \cup new, NEW how, Step(j, Failing(job[j], how))
    PROVE  DeliveryInv'
<1>1. setup' = setup /\ arrived \subseteq arrived' /\ arrived' = arrived
  OBVIOUS
<1>2. Sound(j, Failing(job[j], how), arrived', posts')
  <2>1. Sound(j, job[j], arrived, posts)
    BY DEF DeliveryInv
  <2>2. Sound(j, Failing(job[j], how), arrived, posts \cup new)
    BY <2>1, LaunchFails
  <2> QED
    BY <1>1, <2>2
<1>3. \A p \in posts' : IsPost(p)
  BY DEF DeliveryInv, AreOf
<1>4. /\ \A p \in posts : p.job # j => p \in posts'
      /\ \A p \in posts' : p.job # j => p \in posts
  BY DEF AreOf
<1> QED
  BY <1>1, <1>2, <1>3, <1>4, StepKeeps

LEMMA LaunchKeeps ==
    ASSUME DeliveryInv, UNCHANGED <<setup, arrived>>, NEW j \in Jobs,
           job[j].stage = "send", job[j].writing = None,
           AdapterOf(job[j].group) \in Posting, NEW new, AreOf(new, j, job[j]),
           NEW allFit \in BOOLEAN,
           allFit => \A i \in GroupOf(job[j], job[j].left) :
                \/ Delivered(j, job[j].wirings.out[i], arrived)
                \/ InPost(j, job[j], i, new),
           Launch(j, new, allFit)
    PROVE  DeliveryInv'
<1>1. setup' = setup /\ arrived \subseteq arrived' /\ arrived' = arrived
  OBVIOUS
<1>2. posts' = posts \cup new
  BY DEF Launch
<1>3. Sound(j, job[j], arrived, posts)
  BY DEF DeliveryInv
<1>4. CASE ~allFit
  <2>1. Step(j, Failing(job[j], "handling"))
    BY <1>4 DEF Launch
  <2> QED
    BY <1>2, <2>1, LaunchFailsKeeps
<1>5. CASE allFit /\ new = {}
  <2>1. Step(j, GroupDone(job[j])) /\ posts' = posts
    BY <1>2, <1>5 DEF Launch
  <2>2. \A i \in GroupOf(job[j], job[j].left) : Delivered(j, job[j].wirings.out[i], arrived)
    BY <1>5 DEF InPost
  <2>3. Sound(j, GroupDone(job[j]), arrived, posts)
    BY <1>3, <2>2, GroupDoneIsSound
  <2> QED
    BY <2>1, <2>3, QuietStepKeeps
<1>6. CASE allFit /\ new # {}
  <2>1. Step(j, Doing(job[j], "posts"))
    BY <1>6 DEF Launch, Write, Doing
  <2>2. Sound(j, Doing(job[j], "posts"), arrived, posts \cup new)
    BY <1>3, <1>6, LaunchSucceeds
  <2>3. Sound(j, Doing(job[j], "posts"), arrived', posts')
    BY <1>1, <1>2, <2>2
  <2>4. \A p \in posts' : IsPost(p)
    BY <1>2 DEF DeliveryInv, AreOf
  <2>5. /\ \A p \in posts : p.job # j => p \in posts'
        /\ \A p \in posts' : p.job # j => p \in posts
    BY <1>2 DEF AreOf
  <2> QED
    BY <1>1, <2>1, <2>3, <2>4, <2>5, StepKeeps
<1> QED
  BY <1>4, <1>5, <1>6

LEMMA GroupHasAll ==
    ASSUME NEW j \in Jobs, job[j].stage = "send", NEW i \in GroupOf(job[j], job[j].left)
    PROVE  LET w == job[j].wirings.out[i] IN
               /\ w \in Range(Group(j)) /\ Kind(w) = GroupKind(j)
               /\ i \in DOMAIN Group(j) /\ Group(j)[i] = w
  BY DEF GroupOf, WiringsOf, Range, Group, AtWork, Wiring, Kind, GroupKind

LEMMA LaunchRestKeeps ==
    ASSUME DeliveryInv, NEW j \in Jobs, LaunchRest(j)
    PROVE  DeliveryInv'
<1> DEFINE ws == Range(Group(j))
           fitting == {w \in ws : Rest!Fits(w.type, job[j].values[w.name])}
           new == {Post(j, {w.name}, Rest!Place(w), job[j].values[w.name]) :
                    w \in {v \in fitting : Rest!HasEndpoint(v.type)}}
           allFit == fitting = ws
<1>1. /\ job[j].stage = "send" /\ job[j].writing = None /\ GroupKind(j) = "generic-rest"
      /\ UNCHANGED <<setup, arrived>>
  BY DEF LaunchRest, Sending
<1>2. AdapterOf(job[j].group) \in Posting
  BY <1>1 DEF GroupKind, Posting
<1>3. AreOf(new, j, job[j])
  <2>1. ASSUME NEW p \in new PROVE \E names, place, value : p = Post(j, names, place, value)
    <3>1. PICK w \in fitting : p = Post(j, {w.name}, Rest!Place(w), job[j].values[w.name])
      OBVIOUS
    <3> QED
      BY <3>1, Zenon
  <2> HIDE DEF new
  <2>2. ASSUME NEW p \in new
        PROVE  IsPost(p) /\ p.job = j /\ p.adapter = job[j].group /\ p.arrived = FALSE
    <3>1. PICK names, place, value : p = Post(j, names, place, value)
      BY <2>1
    <3> QED
      BY <3>1 DEF Post, IsPost
  <2> QED
    BY <2>2 DEF AreOf
<1>4. ASSUME allFit, NEW i \in GroupOf(job[j], job[j].left)
      PROVE  Delivered(j, job[j].wirings.out[i], arrived) \/ InPost(j, job[j], i, new)
  <2> DEFINE w == job[j].wirings.out[i]
             q == Post(j, {w.name}, Rest!Place(w), job[j].values[w.name])
  <2>1. w \in fitting /\ Kind(w) = "generic-rest"
    BY <1>1, <1>4, GroupHasAll
  <2>2. CASE Rest!HasEndpoint(w.type)
    <3>1. q \in new
      BY <2>1, <2>2
    <3>2. q.job = j /\ q.adapter = job[j].group /\ q.names = {w.name}
      BY DEF Post
    <3> HIDE DEF new, q
    <3> QED
      BY <3>1, <3>2 DEF InPost
  <2>3. CASE ~Rest!HasEndpoint(w.type)
    BY <2>1, <2>3 DEF Delivered, NoEndpoint
  <2> QED
    BY <2>2, <2>3
<1>5. \/ Step(j, Failing(job[j], "handling")) /\ UNCHANGED posts
      \/ Launch(j, new, allFit)
  BY DEF LaunchRest
<1>6. allFit \in BOOLEAN
  OBVIOUS
<1> HIDE DEF new, allFit
<1> QED
  BY <1>1, <1>2, <1>3, <1>4, <1>5, <1>6, FailingKeeps, LaunchKeeps

(* Every wiring is in one of the messages.                                 *)
LEMMA GatheredHasAll ==
    ASSUME NEW ws, Kafka!Gathered(ws).error = "no", NEW i \in DOMAIN ws
    PROVE  \E m \in Kafka!Gathered(ws).messages : ws[i] \in m.wirings
<1> DEFINE messages == {[part |-> Kafka!Part(group[CHOOSE k \in DOMAIN group : TRUE]),
                         wirings |-> {group[k] : k \in DOMAIN group}] :
                            group \in Kafka!Together(ws)}
           g == [k \in {n \in DOMAIN ws : Kafka!Part(ws[n]) = Kafka!Part(ws[i])} |-> ws[k]]
           m == [part |-> Kafka!Part(g[CHOOSE k \in DOMAIN g : TRUE]),
                 wirings |-> {g[k] : k \in DOMAIN g}]
<1>1. Kafka!Gathered(ws) = [error |-> "no", messages |-> messages]
  BY DEF Kafka!Gathered, Kafka!Failed
<1>2. g \in Kafka!Together(ws)
  BY DEF Kafka!Together
<1>3. m \in messages
  BY <1>2
<1>4. ws[i] \in m.wirings
  OBVIOUS
<1> HIDE DEF messages, m
<1> QED
  BY <1>1, <1>3, <1>4

LEMMA LaunchKafkaKeeps ==
    ASSUME DeliveryInv, NEW j \in Jobs, LaunchKafka(j)
    PROVE  DeliveryInv'
<1> DEFINE gathered == Kafka!Gathered(Group(j))
           sent == {m \in gathered.messages : ~Kafka!CreationFails(m)}
           new == {Post(j, {w.name : w \in m.wirings}, m.part,
                        Kafka!Created(m, j, job[j].values)) : m \in sent}
<1>1. /\ job[j].stage = "send" /\ job[j].writing = None /\ GroupKind(j) = "kafka"
      /\ UNCHANGED <<setup, arrived>>
  BY DEF LaunchKafka, Sending
<1>2. AdapterOf(job[j].group) \in Posting
  BY <1>1 DEF GroupKind, Posting
<1>3. AreOf(new, j, job[j])
  <2>1. ASSUME NEW p \in new PROVE \E names, place, value : p = Post(j, names, place, value)
    <3>1. PICK m \in sent : p = Post(j, {w.name : w \in m.wirings}, m.part,
                                    Kafka!Created(m, j, job[j].values))
      OBVIOUS
    <3> QED
      BY <3>1, Zenon
  <2> HIDE DEF new
  <2>2. ASSUME NEW p \in new
        PROVE  IsPost(p) /\ p.job = j /\ p.adapter = job[j].group /\ p.arrived = FALSE
    <3>1. PICK names, place, value : p = Post(j, names, place, value)
      BY <2>1
    <3> QED
      BY <3>1 DEF Post, IsPost
  <2> QED
    BY <2>2 DEF AreOf
<1>4. ASSUME gathered.error = "no", sent = gathered.messages,
             NEW i \in GroupOf(job[j], job[j].left)
      PROVE  InPost(j, job[j], i, new)
  <2> DEFINE w == job[j].wirings.out[i]
  <2>1. i \in DOMAIN Group(j) /\ Group(j)[i] = w
    BY <1>1, GroupHasAll
  <2>2. PICK m \in sent : w \in m.wirings
    BY <1>4, <2>1, GatheredHasAll
  <2> DEFINE names == {v.name : v \in m.wirings}
             q == Post(j, names, m.part, Kafka!Created(m, j, job[j].values))
  <2>3. q \in new /\ w.name \in names
    BY <2>2
  <2>4. q.job = j /\ q.adapter = job[j].group /\ q.names = names
    BY DEF Post
  <2> HIDE DEF new, q, names
  <2> QED
    BY <2>3, <2>4 DEF InPost
<1>5. \/ (\E how : Step(j, Failing(job[j], how))) /\ UNCHANGED posts
      \/ Step(j, Failing(job[j], "raised")) /\ posts' = posts \cup new
      \/ gathered.error = "no" /\ sent = gathered.messages /\ Launch(j, new, TRUE)
  BY DEF LaunchKafka
<1> HIDE DEF new, gathered, sent
<1> QED
  BY <1>1, <1>2, <1>3, <1>4, <1>5, FailingKeeps, LaunchFailsKeeps, LaunchKeeps

(* Requests arrive, are answered, or are given up.                         *)
LEMMA ArriveKeeps ==
    ASSUME DeliveryInv, NEW p \in posts, Arrive(p)
    PROVE  DeliveryInv'
<1> DEFINE q == [p EXCEPT !.arrived = TRUE]
           j == p.job
<1>1. /\ posts' = (posts \ {p}) \cup {q} /\ setup' = setup /\ job' = job
      /\ arrived' = arrived \cup {<<j, n>> : n \in p.names}
  BY DEF Arrive
<1>2. IsPost(p) /\ j \in Jobs
  BY DEF DeliveryInv, IsPost
<1>3. DOMAIN q = DOMAIN p /\ q.job = j /\ q.adapter = p.adapter /\ q.names = p.names
  BY <1>2 DEF IsPost
<1> HIDE DEF q
<1>4. q.job = j /\ q.adapter = p.adapter /\ q.names = p.names /\ IsPost(q)
  BY <1>2, <1>3 DEF IsPost
<1>5. arrived \subseteq arrived' /\ \A n \in p.names : <<j, n>> \in arrived'
  BY <1>1
<1>6. Sound(j, job[j], arrived', posts')
  <2>1. Sound(j, job[j], arrived, posts)
    BY <1>2 DEF DeliveryInv
  <2>2. Sound(j, job[j], arrived', (posts \ {p}) \cup {q})
    BY <1>4, <1>5, <2>1, PostArrives
  <2> QED
    BY <1>1, <2>2
<1>7. ASSUME NEW k \in Jobs PROVE Sound(k, job'[k], arrived', posts')
  <2>1. CASE k = j
    BY <1>1, <1>6, <2>1
  <2>2. CASE k # j
    <3>1. Sound(k, job[k], arrived, posts)
      BY DEF DeliveryInv
    <3>2. /\ \A x \in posts : x.job = k => x \in posts'
          /\ \A x \in posts' : x.job = k => x \in posts
      BY <1>1, <1>4, <2>2
    <3> QED
      BY <1>1, <1>5, <3>1, <3>2, OthersStaySound
  <2> QED
    BY <2>1, <2>2
<1>8. Jobs' = Jobs
  BY <1>1 DEF Jobs
<1>9. \A x \in posts' : IsPost(x)'
  BY <1>1, <1>4, <1>8 DEF DeliveryInv, IsPost
<1> QED
  BY <1>1, <1>7, <1>8, <1>9 DEF DeliveryInv

(* A request goes, and its execution does not take notice.                 *)
LEMMA GoneKeeps ==
    ASSUME DeliveryInv, NEW p \in posts, posts' = posts \ {p},
           UNCHANGED <<setup, job, arrived>>,
           ~Awaited(p) \/ \A n \in p.names : <<p.job, n>> \in arrived
    PROVE  DeliveryInv'
<1>1. setup' = setup /\ job' = job /\ arrived' = arrived /\ Jobs' = Jobs
  BY DEF Jobs
<1>2. ASSUME NEW k \in Jobs PROVE Sound(k, job[k], arrived, posts')
  <2>1. Sound(k, job[k], arrived, posts)
    BY DEF DeliveryInv
  <2>2. CASE p.job = k
    BY <2>1, <2>2, PostRemoved DEF Awaited
  <2>3. CASE p.job # k
    BY <2>1, <2>3, OthersStaySound
  <2> QED
    BY <2>2, <2>3
<1>3. \A x \in posts' : IsPost(x)'
  BY <1>1 DEF DeliveryInv, IsPost
<1> QED
  BY <1>1, <1>2, <1>3 DEF DeliveryInv

LEMMA AnswerPostKeeps ==
    ASSUME DeliveryInv, NEW p \in posts, NEW ok \in BOOLEAN, AnswerPost(p, ok),
           ok => p.arrived
    PROVE  DeliveryInv'
<1> DEFINE j == p.job
           r == job[j]
<1>1. posts' = posts \ {p} /\ setup' = setup /\ arrived' = arrived
  BY DEF AnswerPost
<1>2. j \in Jobs /\ Sound(j, r, arrived, posts)
  BY DEF DeliveryInv, IsPost
<1>3. p.arrived => \A n \in p.names : <<j, n>> \in arrived
  BY <1>2 DEF Sound, PostsAreSound
<1>4. /\ \A x \in posts' : IsPost(x)
      /\ \A x \in posts : x.job # j => x \in posts'
      /\ \A x \in posts' : x.job # j => x \in posts
      /\ arrived \subseteq arrived'
  BY <1>1 DEF DeliveryInv
<1>5. CASE UNCHANGED job /\ (~Awaited(p) \/ ok)
  BY <1>1, <1>3, <1>5, GoneKeeps
<1>6. CASE Step(j, Failing(r, "handling"))
  <2>1. Sound(j, Failing(r, "handling"), arrived, posts)
    BY <1>2, FailingIsSound
  <2>2. Failing(r, "handling").stage # "send"
    BY <1>2, FailingFields DEF Sound
  <2>3. Sound(j, Failing(r, "handling"), arrived', posts')
    BY <1>1, <2>1, <2>2, PostRemoved
  <2> QED
    BY <1>1, <1>2, <1>4, <1>6, <2>3, StepKeeps
<1>7. CASE /\ ok /\ Awaited(p) /\ Step(j, GroupDone(r))
           /\ ~ \E q \in posts \ {p} : q.job = j /\ q.adapter = p.adapter
  <2>1. Sound(j, r, arrived, posts')
    BY <1>1, <1>2, <1>3, <1>7, PostRemoved
  <2>2. r.stage = "send" /\ r.group = p.adapter
    BY <1>7 DEF Awaited
  <2>3. /\ AdapterOf(r.group) \in Posting /\ r.writing # None
        /\ PostsCover(j, r, arrived, posts')
    <3>1. GroupOf(r, r.left) # {} /\ PostsCover(j, r, arrived, posts')
      BY <2>1, <2>2 DEF Sound, SendingIsSound
    <3>2. ~ NotToCome(p, r, r.left)
      BY <2>2, <3>1 DEF NotToCome, GroupOf, WiringsOf
    <3>3. AdapterOf(p.adapter) \in Posting /\ r.writing # None
      BY <1>2, <2>2, <3>2 DEF Sound, PostsAreSound
    <3> QED
      BY <2>2, <3>1, <3>3
  <2>4. \A i : ~ InPost(j, r, i, posts')
    BY <1>1, <1>7, <2>2 DEF InPost
  <2>5. \A i \in GroupOf(r, r.left) : Delivered(j, r.wirings.out[i], arrived)
    BY <2>3, <2>4 DEF PostsCover
  <2>6. Sound(j, GroupDone(r), arrived', posts')
    BY <1>1, <2>1, <2>2, <2>5, GroupDoneIsSound
  <2> QED
    BY <1>1, <1>2, <1>4, <1>7, <2>6, StepKeeps
<1> QED
  BY <1>5, <1>6, <1>7 DEF AnswerPost

LEMMA DropKeeps ==
    ASSUME DeliveryInv, NEW p \in posts, Drop(p)
    PROVE  DeliveryInv'
  BY GoneKeeps DEF Drop

(* Components as sources and sinks.                                        *)
LEMMA StartComponentsKeeps ==
    ASSUME DeliveryInv, NEW j \in Jobs, StartComponents(j)
    PROVE  DeliveryInv'
<1> DEFINE r == job[j]
           what == [running |-> AtWork(j), failed |-> FALSE]
           s == Doing(r, what)
<1>1. /\ r.stage \in {"load", "send"} /\ GroupKind(j) = ComponentKey /\ r.writing = None
      /\ UNCHANGED <<setup, posts, arrived>>
  BY DEF StartComponents
<1>2. (\E how : Step(j, Failing(r, how))) \/ Step(j, s)
  BY DEF StartComponents, Write, Doing
<1>3. Sound(j, r, arrived, posts) /\ IsExecution(r)
  BY DEF DeliveryInv, Sound
<1>4. CASE r.stage = "load"
  <2>1. Sound(j, s, arrived, posts)
    BY <1>3, <1>4, LoadingIsSound
  <2> QED
    BY <1>1, <1>2, <2>1, FailingKeeps, QuietStepKeeps
<1>5. CASE r.stage = "send"
  <2>1. what.running = AtWork(j) /\ what.failed = FALSE
        /\ what = [running |-> what.running, failed |-> what.failed]
    OBVIOUS
  <2>2. AdapterOf(r.group) = ComponentKey
    BY <1>1 DEF GroupKind
  <2> HIDE DEF what
  <2>3. /\ s.writing = what /\ s.stage = "send" /\ s.wirings = r.wirings
        /\ s.group = r.group /\ s.left = r.left
    BY <1>3, <1>5, WritingFields
  <2> HIDE DEF s
  <2>4. GroupOf(s, s.left) = AtWork(j)
    BY <1>5, <2>3 DEF GroupOf, WiringsOf, AtWork
  <2>5. ComponentsCover(j, s, arrived)
    BY <2>1, <2>3, <2>4 DEF ComponentsCover
  <2>6. PostsCover(j, s, arrived, posts)
    BY <2>2, <2>3 DEF PostsCover, Posting, ComponentKey
  <2>7. Sound(j, s, arrived, posts)
    BY <1>1, <1>3, <1>5, <2>5, <2>6, DoingIsSound DEF s
  <2> QED
    BY <1>1, <1>2, <2>7, FailingKeeps, QuietStepKeeps
<1> QED
  BY <1>1, <1>4, <1>5

(* A component has ended: of those running in sending, its output has      *)
(* arrived or it has failed.                                               *)
LEMMA EndComponentKeeps ==
    ASSUME DeliveryInv, UNCHANGED <<setup, posts>>, arrived \subseteq arrived',
           NEW j \in Jobs, NEW i \in AtWork(j), IsRunning(j, i), NEW ok \in BOOLEAN,
           EndComponent(j, i, ok),
           job[j].stage = "load" => arrived' = arrived,
           job[j].stage = "send" /\ ok => <<j, Wiring(j, i).name>> \in arrived'
    PROVE  DeliveryInv'
<1> DEFINE r == job[j]
           running == r.writing.running \ {i}
           failed == r.writing.failed \/ ~ok
           what == [running |-> running, failed |-> failed]
           s == Doing(r, what)
<1>1. /\ r.stage \in {"load", "send"} /\ AdapterOf(r.group) = ComponentKey /\ r.writing # None
      /\ setup' = setup /\ posts' = posts
  BY DEF IsRunning, GroupKind
<1>2. \/ running # {} /\ Step(j, s)
      \/ running = {} /\ failed /\ Step(j, Failing(r, "handling"))
      \/ r.stage = "load" /\ \E places, read : Provide(j, places, read)
      \/ running = {} /\ ~failed /\ r.stage = "send" /\ Step(j, GroupDone(r))
  BY <1>1 DEF EndComponent, Write, Doing
<1>3. Sound(j, r, arrived', posts') /\ IsExecution(r)
  <2>1. Sound(j, r, arrived, posts)
    BY DEF DeliveryInv
  <2> QED
    BY <1>1, <2>1, OthersStaySound DEF Sound
<1>4. /\ \A p \in posts' : IsPost(p)
      /\ \A p \in posts : p.job # j => p \in posts'
      /\ \A p \in posts' : p.job # j => p \in posts
  BY <1>1 DEF DeliveryInv
<1>5. ASSUME NEW t, Step(j, t), Sound(j, t, arrived', posts') PROVE DeliveryInv'
  BY <1>1, <1>4, <1>5, StepKeeps
<1>6. ASSUME Step(j, Failing(r, "handling")) PROVE DeliveryInv'
  BY <1>3, <1>5, <1>6, FailingIsSound
<1>7. CASE r.stage = "load"
  <2>1. Sound(j, s, arrived', posts')
    BY <1>3, <1>7, LoadingIsSound
  <2>2. UNCHANGED <<setup, posts, arrived>>
    BY <1>7
  <2>3. (\E places, read : Provide(j, places, read)) => DeliveryInv'
    BY <1>7, <2>2, ProvideKeeps
  <2> HIDE DEF s, running, failed
  <2> QED
    BY <1>2, <1>5, <1>6, <1>7, <2>1, <2>3
<1>8. CASE r.stage = "send"
  <2>1. ComponentsCover(j, r, arrived') /\ AtWork(j) = GroupOf(r, r.left)
    BY <1>3, <1>8 DEF Sound, SendingIsSound, AtWork
  <2>2. r.writing.failed \in BOOLEAN
    BY <1>1, <2>1 DEF ComponentsCover
  <2>3. ASSUME ~failed, NEW k \in GroupOf(r, r.left)
        PROVE  Delivered(j, r.wirings.out[k], arrived') \/ k \in running
    <3>1. Delivered(j, r.wirings.out[k], arrived') \/ k \in r.writing.running
      BY <1>1, <2>1, <2>3 DEF ComponentsCover
    <3>2. CASE k = i
      <4>1. <<j, r.wirings.out[i].name>> \in arrived'
        BY <1>8, <2>3 DEF Wiring, WiringsOf
      <4> QED
        BY <3>2, <4>1 DEF Delivered
    <3> QED
      BY <3>1, <3>2
  <2>4. what.running = running /\ what.failed = failed
        /\ what = [running |-> what.running, failed |-> what.failed]
    OBVIOUS
  <2>5. failed \in BOOLEAN
    BY <2>2
  <2> HIDE DEF what, running, failed
  <2>6. /\ s.writing = what /\ s.stage = "send" /\ s.wirings = r.wirings
        /\ s.group = r.group /\ s.left = r.left
    BY <1>3, <1>8, WritingFields
  <2> HIDE DEF s
  <2>7. GroupOf(s, s.left) = GroupOf(r, r.left)
    BY <1>8, <2>6 DEF GroupOf, WiringsOf
  <2>8. ComponentsCover(j, s, arrived')
    BY <2>3, <2>4, <2>5, <2>6, <2>7 DEF ComponentsCover
  <2>9. PostsCover(j, s, arrived', posts')
    BY <1>1, <2>6 DEF PostsCover, Posting, ComponentKey
  <2>10. AdapterOf(r.group) \notin Posting
    BY <1>1 DEF Posting, ComponentKey
  <2>11. Sound(j, s, arrived', posts')
    BY <1>3, <1>8, <2>8, <2>9, <2>10, DoingIsSound DEF s
  <2>12. CASE running = {} /\ ~failed /\ Step(j, GroupDone(r))
    <3>1. \A k \in GroupOf(r, r.left) : Delivered(j, r.wirings.out[k], arrived')
      BY <2>3, <2>12
    <3>2. Sound(j, GroupDone(r), arrived', posts')
      BY <1>3, <1>8, <3>1, GroupDoneIsSound
    <3> QED
      BY <1>5, <2>12, <3>2
  <2> QED
    BY <1>2, <1>5, <1>6, <1>8, <2>11, <2>12
<1> QED
  BY <1>1, <1>7, <1>8

LEMMA RunComponentKeeps ==
    ASSUME DeliveryInv, NEW j \in Jobs, RunComponent(j)
    PROVE  DeliveryInv'
<1>1. PICK i \in AtWork(j) :
        /\ IsRunning(j, i) /\ EndComponent(j, i, TRUE)
        /\ arrived' = IF job[j].stage = "send" THEN arrived \cup {<<j, Wiring(j, i).name>>}
                      ELSE arrived
  BY DEF RunComponent
<1>2. UNCHANGED <<setup, posts>>
  BY DEF RunComponent
<1>3. /\ arrived \subseteq arrived' /\ (job[j].stage = "load" => arrived' = arrived)
      /\ job[j].stage = "send" => <<j, Wiring(j, i).name>> \in arrived'
  BY <1>1
<1> QED
  BY <1>1, <1>2, <1>3, EndComponentKeeps

LEMMA ComponentFailsKeeps ==
    ASSUME DeliveryInv, NEW j \in Jobs, ComponentFails(j)
    PROVE  DeliveryInv'
<1>1. PICK i \in AtWork(j) :
        IsRunning(j, i) /\ (EndComponent(j, i, FALSE) \/ Step(j, Failing(job[j], "handling")))
  BY DEF ComponentFails
<1>2. UNCHANGED <<setup, posts, arrived>>
  BY DEF ComponentFails
<1>3. arrived \subseteq arrived' /\ arrived' = arrived /\ UNCHANGED <<setup, posts>>
  BY <1>2
<1>4. CASE EndComponent(j, i, FALSE)
  BY <1>1, <1>3, <1>4, EndComponentKeeps
<1>5. CASE Step(j, Failing(job[j], "handling"))
  BY <1>2, <1>5, FailingKeeps
<1> QED
  BY <1>1, <1>4, <1>5

-----------------------------------------------------------------------------
(* The theorems.                                                           *)

LEMMA InitSound == Init => DeliveryInv
<1> SUFFICES ASSUME Init PROVE DeliveryInv
  OBVIOUS
<1>1. Idle = Execution("waiting", [in |-> <<>>, out |-> <<>>], None, {}, <<>>, None, "none")
  BY DEF Idle, Execution
<1>2. /\ Idle.stage = "waiting" /\ Idle.wirings = [in |-> <<>>, out |-> <<>>]
      /\ Idle.group = None /\ Idle.left = {} /\ Idle.values = <<>> /\ Idle.writing = None
      /\ Idle.answer = "none"
  BY DEF Idle
<1>3. DOMAIN Idle.wirings.in \subseteq Nat /\ DOMAIN Idle.wirings.out \subseteq Nat
  BY <1>2
<1>4. IsExecution(Idle)
  BY <1>1, <1>2, <1>3, IsMade
<1>5. ASSUME NEW j \in Jobs PROVE Sound(j, job[j], arrived, posts)
  <2>1. job[j] = Idle /\ NothingSent(j, posts)
    BY DEF Init, NothingSent
  <2> QED
    BY <1>2, <1>4, <2>1, NotSendingIsSound
<1> QED
  BY <1>5 DEF Init, DeliveryInv

LEMMA NextKeepsDeliveryInv == DeliveryInv /\ [Next]_vars => DeliveryInv'
<1> SUFFICES ASSUME DeliveryInv, [Next]_vars PROVE DeliveryInv'
  OBVIOUS
<1>1. ASSUME NEW j \in Jobs, Advance(j) PROVE DeliveryInv'
  BY <1>1, BeginKeeps, LoadKeeps, LoadRestKeeps, ReceiveKeeps, RunKeeps,
     BeginTransactionKeeps, EndTransactionKeeps, OpenFileKeeps, CloseFileKeeps,
     HeadObjectKeeps, PutObjectKeeps, ReturnKeeps, LaunchRestKeeps, LaunchKafkaKeeps,
     StartComponentsKeeps, RunComponentKeeps DEF Advance
<1>2. ASSUME NEW j \in Jobs, RunFails(j) \/ WriteFails(j) \/ ComponentFails(j)
      PROVE  DeliveryInv'
  BY <1>2, RunFailsKeeps, WriteFailsKeeps, ComponentFailsKeeps
<1>3. ASSUME NEW p \in posts, Arrive(p) \/ Drop(p) PROVE DeliveryInv'
  BY <1>3, ArriveKeeps, DropKeeps
<1>4. ASSUME NEW p \in posts, Answer(p) PROVE DeliveryInv'
  BY <1>4, AnswerPostKeeps DEF Answer
<1>5. ASSUME NEW p \in posts, FailPost(p) PROVE DeliveryInv'
  BY <1>5, AnswerPostKeeps DEF FailPost
<1>6. CASE UNCHANGED vars
  <2>1. setup' = setup /\ job' = job /\ posts' = posts /\ arrived' = arrived /\ Jobs' = Jobs
    BY <1>6 DEF vars, Jobs
  <2>2. \A p \in posts' : IsPost(p)'
    BY <2>1 DEF DeliveryInv, IsPost
  <2> QED
    BY <2>1, <2>2 DEF DeliveryInv
<1> QED
  BY <1>1, <1>2, <1>3, <1>4, <1>5, <1>6 DEF Next

LEMMA DeliveryInvHolds == Spec => []DeliveryInv
<1>1. QED
  BY InitSound, NextKeepsDeliveryInv, PTL DEF Spec

(* An execution answered with ok has delivered every output wired to a     *)
(* sink outside: whatever adapters, failures and executions there are.     *)
THEOREM OkIsHonest == Spec => []OkMeansDelivered
<1>1. DeliveryInv => OkMeansDelivered
  <2> SUFFICES ASSUME DeliveryInv, NEW j \in Jobs, job[j].answer = "ok", NEW w \in Outputs(j)
      PROVE  \/ Kind(w) = "direct_provisioning"
             \/ Kind(w) = "generic-rest" /\ ~Rest!HasEndpoint(w.type)
             \/ <<j, w.name>> \in arrived
    BY DEF OkMeansDelivered
  <2>1. PICK i \in DOMAIN job[j].wirings.out : w = job[j].wirings.out[i]
    BY DEF Outputs, ToSet
  <2>2. Delivered(j, w, arrived)
    BY <2>1 DEF DeliveryInv, Sound, OkIsDelivered, OthersDelivered
  <2> QED
    BY <2>2 DEF Delivered, NoEndpoint
<1>2. QED
  BY <1>1, DeliveryInvHolds, PTL

-----------------------------------------------------------------------------
(* Virtual wirings.  With no more of them than there are batches, each is  *)
(* asked for on its own, and rows come in the order of the wirings.        *)

LEMMA TurnGrows ==
    ASSUME NEW places, IsFiniteSet(places), places \subseteq Nat,
           NEW i \in places, NEW k \in places
    PROVE  /\ Turn(places, i) \in Nat \ {0} /\ Turn(places, k) \in Nat
           /\ Turn(places, i) =< Cardinality(places)
           /\ k < i => Turn(places, k) < Turn(places, i)
<1> DEFINE upTo(n) == {x \in places : x <= n}
<1>1. /\ upTo(i) \in SUBSET places /\ upTo(k) \in SUBSET places
      /\ i \in upTo(i) /\ k \in upTo(k)
  OBVIOUS
<1>2. /\ IsFiniteSet(upTo(i)) /\ IsFiniteSet(upTo(k))
      /\ Cardinality(upTo(i)) =< Cardinality(places)
  BY <1>1, FS_Subset
<1>3. Cardinality(upTo(i)) \in Nat /\ Cardinality(upTo(k)) \in Nat
  BY <1>2, FS_CardinalityType
<1>4. Cardinality(upTo(i)) # 0
  BY <1>1, <1>2, FS_EmptySet
<1>5. ASSUME k < i PROVE Cardinality(upTo(k)) < Cardinality(upTo(i))
  <2>1. upTo(k) \in SUBSET upTo(i) /\ i \notin upTo(k)
    <3>1. i \in Nat /\ k \in Nat /\ ~ (i <= k)
      BY <1>5
    <3>2. ASSUME NEW x \in places, x <= k PROVE x <= i
      <4>1. x \in Nat
        OBVIOUS
      <4> QED
        BY <1>5, <3>1, <3>2, <4>1
    <3> QED
      BY <3>1, <3>2
  <2>2. /\ Cardinality(upTo(k)) =< Cardinality(upTo(i))
        /\ Cardinality(upTo(i)) = Cardinality(upTo(k)) => upTo(i) = upTo(k)
    BY <1>2, <2>1, FS_Subset
  <2>3. upTo(i) # upTo(k)
    BY <1>1, <2>1
  <2> HIDE DEF upTo
  <2> QED
    BY <1>3, <2>2, <2>3
<1> QED
  BY <1>2, <1>3, <1>4, <1>5 DEF Turn

(* A list of all places in which they ascend is the list by their turns.   *)
LEMMA AscendingIsByTurns ==
    ASSUME NEW places, IsFiniteSet(places), places \subseteq Nat,
           NEW order \in [1..Cardinality(places) -> places],
           \A a, b \in DOMAIN order : a < b => order[a] < order[b],
           NEW i \in places
    PROVE  order[Turn(places, i)] = i
<1> DEFINE n == Cardinality(places)
           upTo == {x \in places : x <= i}
<1>1. n \in Nat
  BY FS_CardinalityType
<1>2. order \in [1..n -> places] /\ DOMAIN order = 1..n
  OBVIOUS
<1>3. order \in Injection(1..n, places)
  <2> HIDE DEF n
  <2>1. ASSUME NEW a \in 1..n, NEW b \in 1..n, order[a] = order[b] PROVE a = b
    <3>1. a \in Nat /\ b \in Nat
      BY <1>1
    <3>2. /\ a \in DOMAIN order /\ b \in DOMAIN order
          /\ order[a] \in Nat /\ order[b] \in Nat
      BY <1>2
    <3>3. ~ (a < b) /\ ~ (b < a)
      BY <2>1, <3>1, <3>2
    <3> QED
      BY <3>1, <3>3
  <2> QED
    BY <1>2, <2>1 DEF Injection, IsInjective
<1>4. order \in Surjection(1..n, places)
  <2>1. Cardinality(1..n) = n
    BY <1>1, FS_Interval
  <2> QED
    BY <1>3, <2>1, FS_Injection
<1>5. PICK m \in 1..n : order[m] = i
  BY <1>4 DEF Surjection
<1> DEFINE f == [a \in 1..m |-> order[a]]
<1>6. f \in Bijection(1..m, upTo)
  <2>1. ASSUME NEW a \in 1..m PROVE a \in 1..n /\ order[a] \in upTo
    <3> HIDE DEF n, upTo
    <3>1. m \in Nat /\ a \in Nat /\ m =< n /\ a =< m /\ 1 =< a
      BY <1>1
    <3>2. a \in 1..n /\ a \in DOMAIN order /\ m \in DOMAIN order
      <4>1. a \in 1..n /\ m \in 1..n
        BY <1>1, <3>1
      <4> QED
        BY <1>2, <4>1
    <3>3. order[a] \in places /\ i \in Nat /\ order[a] \in Nat
      BY <3>2
    <3>4. order[a] =< order[m]
      <4>1. a = m \/ a < m
        BY <3>1
      <4> QED
        BY <1>5, <3>1, <3>2, <3>3, <4>1
    <3> QED
      BY <1>5, <3>2, <3>3, <3>4 DEF upTo
  <2>2. f \in [1..m -> upTo]
    BY <2>1
  <2>3. \A a, b \in 1..m : f[a] = f[b] => a = b
    BY <1>3, <2>1 DEF Injection, IsInjective
  <2>4. ASSUME NEW x \in upTo PROVE \E a \in 1..m : f[a] = x
    <3>1. PICK a \in 1..n : order[a] = x
      BY <1>4 DEF Surjection
    <3>2. ~ (m < a)
      <4>1. m < a => i < x
        BY <1>5, <3>1
      <4> QED
        BY <4>1
    <3> QED
      BY <1>1, <3>1, <3>2
  <2> HIDE DEF f
  <2> QED
    BY <2>2, <2>3, <2>4 DEF Bijection, Injection, Surjection, IsInjective
<1>7. Cardinality(upTo) = m
  <2>1. m \in Nat
    BY <1>1
  <2>2. ExistsBijection(1..m, upTo)
    <3> HIDE DEF f, upTo
    <3> QED
      BY <1>6 DEF ExistsBijection
  <2> QED
    BY <2>1, <2>2, FS_CountingElements
<1> QED
  BY <1>5, <1>7 DEF Turn

LEMMA RowsComeInOrder ==
    ASSUME NEW ws, IsList(ws), NEW stored, NEW order \in FetchedOrders(ws, stored),
           Cardinality(VirtualPlaces(ws)) =< BatchSize,
           DOMAIN order = 1..Cardinality(VirtualPlaces(ws)),
           NEW i \in VirtualPlaces(ws)
    PROVE  order[Turn(VirtualPlaces(ws), i)] = i
<1> DEFINE places == VirtualPlaces(ws)
           n == Cardinality(places)
           firsts == {k \in places : /\ ws[k].ref_id \in stored
                                     /\ \A l \in places : l < k => ws[l].ref_id # ws[k].ref_id}
<1>1. places \subseteq Nat /\ IsFiniteSet(places)
  <2>1. places \in SUBSET DOMAIN ws
    BY DEF VirtualPlaces
  <2> QED
    BY <2>1, FS_Subset DEF IsList
<1>2. n \in Nat /\ n # 0 /\ BatchSize \in Nat \ {0}
  BY <1>1, FS_CardinalityType, FS_EmptySet, BatchAssumption
<1>3. order \in [1..Cardinality(firsts) -> firsts]
  BY DEF FetchedOrders
<1>4. firsts = places
  <2>1. firsts \in SUBSET places
    OBVIOUS
  <2>2. Cardinality(firsts) \in Nat /\ (n = Cardinality(firsts) => places = firsts)
    <3>1. IsFiniteSet(firsts) /\ (n = Cardinality(firsts) => places = firsts)
      BY <1>1, <2>1, FS_Subset
    <3> QED
      BY <3>1, FS_CardinalityType
  <2>3. 1..n = 1..Cardinality(firsts)
    BY <1>3
  <2> HIDE DEF n, firsts
  <2>4. n = Cardinality(firsts)
    BY <1>2, <2>2, <2>3
  <2> QED
    BY <2>2, <2>4
<1>5. order \in [1..n -> places]
  BY <1>3, <1>4
<1>6. ASSUME NEW k \in places PROVE BatchOf(places, k) = Turn(places, k) - 1
  <2>1. Turn(places, k) \in Nat \ {0}
    BY <1>1, TurnGrows
  <2>2. LengthOfBatch(places) = 1
    <3>1. n =< BatchSize
      OBVIOUS
    <3> HIDE DEF n
    <3>2. (n + BatchSize - 1) \div BatchSize = 1
      BY <1>2, <3>1
    <3> QED
      BY <3>2 DEF LengthOfBatch, n
  <2>3. (Turn(places, k) - 1) \div 1 = Turn(places, k) - 1
    BY <2>1
  <2> QED
    BY <2>2, <2>3 DEF BatchOf
<1>7. ASSUME NEW a \in DOMAIN order, NEW b \in DOMAIN order, a < b
      PROVE  order[a] < order[b]
  <2>1. order[a] # order[b] /\ BatchOf(places, order[a]) <= BatchOf(places, order[b])
    BY <1>7 DEF FetchedOrders
  <2>2. order[a] \in places /\ order[b] \in places
    BY <1>5
  <2> HIDE DEF places
  <2>3. /\ Turn(places, order[a]) \in Nat /\ Turn(places, order[b]) \in Nat
        /\ Turn(places, order[a]) =< Turn(places, order[b])
    <3>1. Turn(places, order[a]) \in Nat /\ Turn(places, order[b]) \in Nat
      BY <1>1, <2>2, TurnGrows
    <3>2. Turn(places, order[a]) - 1 =< Turn(places, order[b]) - 1
      BY <1>6, <2>1, <2>2
    <3> QED
      BY <3>1, <3>2
  <2>4. order[b] < order[a] => Turn(places, order[b]) < Turn(places, order[a])
    BY <1>1, <2>2, TurnGrows
  <2>5. order[a] \in Nat /\ order[b] \in Nat
    BY <1>1, <2>2
  <2>6. ~ (order[b] < order[a])
    BY <2>3, <2>4
  <2> QED
    BY <2>1, <2>5, <2>6
<1> QED
  BY <1>1, <1>5, <1>7, AscendingIsByTurns
(* A list of wirings, as given, without more virtual ones than batches.    *)
FewVirtual(given) ==
    Cardinality({i \in DOMAIN given : Virtual(Accepted(given[i]))}) =< BatchSize

LEMMA ResolvedAreOwn ==
    ASSUME NEW given, IsList(given), FewVirtual(given), AcceptedWirings(given) # None,
           NEW result \in Resolutions(AcceptedWirings(given), setup.entries), result.error = "no"
    PROVE  IsOwn(given, result.wirings)
<1> DEFINE ws == [i \in DOMAIN given |-> Accepted(given[i])]
           places == VirtualPlaces(ws)
           row(order, i) == setup.entries[ws[order[Turn(places, i)]].ref_id]
           resolved(order) ==
            [i \in DOMAIN ws |-> IF i \in places THEN Referenced(ws[i], row(order, i)) ELSE ws[i]]
<1>1. AcceptedWirings(given) = ws
  BY DEF AcceptedWirings
<1>2. IsList(ws)
  BY DEF IsList
<1>3. places = {i \in DOMAIN given : Virtual(Accepted(given[i]))}
  BY DEF VirtualPlaces
<1>4. ASSUME NEW i \in DOMAIN given, Virtual(Accepted(given[i]))
      PROVE  i \in DOMAIN ws /\ ws[i] = Accepted(given[i]) /\ i \in places
  BY <1>3, <1>4
<1>5. CASE places = {}
  <2>1. result.wirings = ws
    BY <1>1, <1>5 DEF Resolutions
  <2>2. ASSUME NEW i \in DOMAIN ws PROVE ~ Virtual(Accepted(given[i]))
    BY <1>3, <1>5
  <2> HIDE DEF ws, places
  <2> QED
    BY <2>1, <2>2 DEF IsOwn
<1>6. CASE places # {}
  <2>1. PICK order \in FetchedOrders(ws, DOMAIN setup.entries) :
            /\ DOMAIN order = 1..Cardinality(places)
            /\ result = [error |-> "no", wirings |-> resolved(order)]
    <3> DEFINE outcome(order) ==
            IF order = <<>> THEN [error |-> "handling"]
            ELSE IF DOMAIN order # 1..Cardinality(places) THEN [error |-> "raised"]
            ELSE [error |-> "no", wirings |-> resolved(order)]
    <3>1. Resolutions(ws, setup.entries)
            = {outcome(order) : order \in FetchedOrders(ws, DOMAIN setup.entries)}
      BY <1>6, Zenon DEF Resolutions
    <3>2. PICK order \in FetchedOrders(ws, DOMAIN setup.entries) : result = outcome(order)
      <4> HIDE DEF ws, places, resolved, outcome
      <4> QED
        BY <1>1, <3>1
    <3> HIDE DEF ws, places, resolved
    <3> QED
      BY <3>2
  <2>2. result.wirings = resolved(order)
    <3> HIDE DEF resolved
    <3> QED
      BY <2>1
  <2>3. ASSUME NEW i \in DOMAIN resolved(order), Virtual(Accepted(given[i]))
        PROVE  resolved(order)[i]
                = Referenced(Accepted(given[i]), setup.entries[Accepted(given[i]).ref_id])
    <3>1. i \in DOMAIN ws /\ ws[i] = Accepted(given[i]) /\ i \in places
      BY <1>4, <2>3
    <3>2. order[Turn(places, i)] = i
      <4>1. Cardinality(places) =< BatchSize
        BY <1>3 DEF FewVirtual
      <4> HIDE DEF ws
      <4> QED
        BY <1>2, <2>1, <3>1, <4>1, RowsComeInOrder
    <3>3. resolved(order)[i] = Referenced(ws[i], row(order, i))
      BY <3>1
    <3> QED
      BY <3>1, <3>2, <3>3
  <2> HIDE DEF resolved, ws, places
  <2> QED
    BY <2>2, <2>3 DEF IsOwn
<1> QED
  BY <1>5, <1>6

-----------------------------------------------------------------------------
(* What the steps leave as it is: but for Begin the wirings, and but for   *)
(* HeadObject and PutObject the objects and who is writing one.            *)

IsWritingObject(r) == r.writing # None /\ AdapterOf(r.group) = BlobKey

(* An execution that sends keeps the values it sends.                      *)
Stays(r, s) ==
    r.stage \in {"send", "done"} => s.stage \in {"send", "done"} /\ s.values = r.values

Continues(r, s) == s.wirings = r.wirings /\ ~ IsWritingObject(s) /\ Stays(r, s)

(* A step of one execution at most.                                        *)
Proceeds(j) == UNCHANGED job \/ \E s : Step(j, s) /\ Continues(job[j], s)

LEMMA FailingContinues ==
    ASSUME NEW r, IsExecution(r), NEW how
    PROVE  Continues(r, Failing(r, how))
<1> DEFINE a == IF how = "handling" THEN "failure" ELSE "raised"
<1>1. Failing(r, how) = Ended(r, "done", a)
  BY Zenon DEF Failing, Ended
<1> HIDE DEF a
<1> QED
  BY <1>1, EndFields DEF Continues, Stays, IsWritingObject

LEMMA NextGroupContinues ==
    ASSUME NEW r, IsExecution(r), NEW left
    PROVE  Continues(r, NextGroup(r, left))
  BY NextGroupFields DEF Continues, Stays, IsWritingObject

LEMMA WithoutContinues ==
    ASSUME NEW r, IsExecution(r), NEW places
    PROVE  Continues(r, Without(r, places))
<1> DEFINE left == r.left \ places
<1>1. CASE GroupOf(r, left) # {}
  <2>1. Without(r, places) = Reduced(r, left)
    BY <1>1, Zenon DEF Without, Reduced
  <2> QED
    BY <2>1, LeftFields DEF Continues, Stays, IsWritingObject
<1>2. CASE GroupOf(r, left) = {}
  <2>1. Without(r, places) = NextGroup(r, left)
    BY <1>2, Zenon DEF Without
  <2> QED
    BY <2>1, NextGroupContinues
<1> QED
  BY <1>1, <1>2

LEMMA DoingContinues ==
    ASSUME NEW r, IsExecution(r), AdapterOf(r.group) # BlobKey, NEW what
    PROVE  Continues(r, Doing(r, what))
  BY WritingFields DEF Continues, Stays, IsWritingObject

LEMMA ValuedContinues ==
    ASSUME NEW r, IsExecution(r), r.stage \notin {"send", "done"}, NEW v,
           NEW s, Continues(Valued(r, v), s)
    PROVE  Continues(r, s)
  BY ValuesFields DEF Continues, Stays

LEMMA ExecutionsAre ==
    ASSUME DeliveryInv, NEW j \in Jobs
    PROVE  IsExecution(job[j])
  BY DEF DeliveryInv, Sound

LEMMA FailingProceeds ==
    ASSUME DeliveryInv, NEW j \in Jobs, NEW how, Step(j, Failing(job[j], how))
    PROVE  Proceeds(j)
  BY ExecutionsAre, FailingContinues DEF Proceeds

LEMMA GroupDoneProceeds ==
    ASSUME DeliveryInv, NEW j \in Jobs, Step(j, GroupDone(job[j]))
    PROVE  Proceeds(j)
<1>1. Continues(job[j], GroupDone(job[j]))
  BY ExecutionsAre, NextGroupContinues DEF GroupDone
<1> QED
  BY <1>1 DEF Proceeds

LEMMA WithoutProceeds ==
    ASSUME DeliveryInv, NEW j \in Jobs, NEW places, Step(j, Without(job[j], places))
    PROVE  Proceeds(j)
  BY ExecutionsAre, WithoutContinues DEF Proceeds

LEMMA WriteProceeds ==
    ASSUME DeliveryInv, NEW j \in Jobs, GroupKind(j) # BlobKey, NEW what, Write(j, what)
    PROVE  Proceeds(j)
<1>1. Continues(job[j], Doing(job[j], what))
  BY ExecutionsAre, DoingContinues DEF GroupKind
<1> QED
  BY <1>1 DEF Proceeds, Write, Doing

LEMMA ProvideProceeds ==
    ASSUME DeliveryInv, NEW j \in Jobs, job[j].stage = "load",
           NEW places, NEW read, Provide(j, places, read)
    PROVE  Proceeds(j)
<1> DEFINE names == {Wiring(j, i).name : i \in places}
           place(n) == CHOOSE i \in places : Wiring(j, i).name = n
           v == [n \in names |-> WithAttrs(read[place(n)].frame, Wiring(j, place(n)))]
                    @@ job[j].values
<1>1. \/ \E how : Step(j, Failing(job[j], how))
      \/ Step(j, Without(Valued(job[j], v), places))
  BY DEF Provide, Valued
<1> HIDE DEF v
<1>2. IsExecution(job[j]) /\ IsExecution(Valued(job[j], v))
  BY ExecutionsAre, ValuesFields
<1>3. Continues(job[j], Without(Valued(job[j], v), places))
  BY <1>2, WithoutContinues, ValuedContinues
<1> QED
  BY <1>1, <1>3, FailingProceeds DEF Proceeds

LEMMA LoadingProceeds ==
    ASSUME DeliveryInv, NEW j \in Jobs, Load(j) \/ LoadRest(j)
    PROVE  Proceeds(j)
<1>1. \/ \E how : Step(j, Failing(job[j], how))
      \/ \E places, read : Provide(j, places, read)
  BY DEF Load, LoadRest
<1>2. job[j].stage = "load"
  BY DEF Load, LoadRest
<1> QED
  BY <1>1, <1>2, FailingProceeds, ProvideProceeds

LEMMA ReceiveProceeds ==
    ASSUME DeliveryInv, NEW j \in Jobs, Receive(j)
    PROVE  Proceeds(j)
<1>1. \/ \E how : Step(j, Failing(job[j], how))
      \/ \E v : Step(j, GroupDone(Valued(job[j], v)))
  BY DEF Receive, Valued
<1>2. ASSUME NEW v PROVE Continues(job[j], GroupDone(Valued(job[j], v)))
  <2>1. IsExecution(job[j]) /\ IsExecution(Valued(job[j], v)) /\ job[j].stage = "load"
    BY ExecutionsAre, ValuesFields DEF Receive
  <2> QED
    BY <2>1, NextGroupContinues, ValuedContinues DEF GroupDone
<1> QED
  BY <1>1, <1>2, FailingProceeds DEF Proceeds

LEMMA RunProceeds ==
    ASSUME DeliveryInv, NEW j \in Jobs, Run(j)
    PROVE  Proceeds(j)
<1> DEFINE r == Valued(job[j], Results(j))
           s == Staged(r, "send")
<1>1. Step(j, Enter(r, "send"))
  BY DEF Run, Valued
<1>2. Enter(r, "send") = NextGroup(s, Places(s))
  BY Zenon DEF Enter, Staged
<1>3. IsExecution(r) /\ r.wirings = job[j].wirings
  BY ExecutionsAre, ValuesFields
<1> HIDE DEF r
<1>4. IsExecution(s) /\ s.wirings = job[j].wirings
  BY <1>3, StageFields
<1> HIDE DEF s
<1>5. Continues(job[j], NextGroup(s, Places(s)))
  BY <1>4, NextGroupContinues DEF Continues, Stays, Run
<1> QED
  BY <1>1, <1>2, <1>5 DEF Proceeds

LEMMA SendingProceeds ==
    ASSUME DeliveryInv, NEW j \in Jobs,
           BeginTransaction(j) \/ EndTransaction(j) \/ OpenFile(j) \/ CloseFile(j) \/ Return(j)
    PROVE  Proceeds(j)
<1>1. CASE BeginTransaction(j)
  <2>1. GroupKind(j) # BlobKey
    BY <1>1 DEF BeginTransaction, SqlKey, BlobKey
  <2>2. (\E how : Step(j, Failing(job[j], how))) \/ (\E what : Write(j, what))
    BY <1>1 DEF BeginTransaction
  <2> QED
    BY <2>1, <2>2, FailingProceeds, WriteProceeds
<1>2. CASE OpenFile(j)
  <2>1. GroupKind(j) # BlobKey
    BY <1>2 DEF OpenFile, FileKey, BlobKey
  <2>2. (\E how : Step(j, Failing(job[j], how))) \/ (\E what : Write(j, what))
    BY <1>2 DEF OpenFile
  <2> QED
    BY <2>1, <2>2, FailingProceeds, WriteProceeds
<1>3. CASE EndTransaction(j) \/ CloseFile(j)
  BY <1>3, WithoutProceeds DEF EndTransaction, CloseFile
<1>4. CASE Return(j)
  BY <1>4, FailingProceeds, GroupDoneProceeds DEF Return
<1> QED
  BY <1>1, <1>2, <1>3, <1>4

LEMMA LaunchProceeds ==
    ASSUME DeliveryInv, NEW j \in Jobs, LaunchRest(j) \/ LaunchKafka(j)
    PROVE  Proceeds(j)
<1>1. GroupKind(j) # BlobKey
  BY DEF LaunchRest, LaunchKafka, BlobKey
<1>2. \/ \E how : Step(j, Failing(job[j], how))
      \/ \E new, allFit : Launch(j, new, allFit)
  BY DEF LaunchRest, LaunchKafka
<1>3. ASSUME NEW new, NEW allFit, Launch(j, new, allFit) PROVE Proceeds(j)
  <2>1. \/ \E how : Step(j, Failing(job[j], how))
        \/ Step(j, GroupDone(job[j]))
        \/ Write(j, "posts")
    BY <1>3 DEF Launch
  <2> QED
    BY <1>1, <2>1, FailingProceeds, GroupDoneProceeds, WriteProceeds
<1> QED
  BY <1>2, <1>3, FailingProceeds

LEMMA EndComponentProceeds ==
    ASSUME DeliveryInv, NEW j \in Jobs, GroupKind(j) = ComponentKey, NEW i, NEW ok,
           EndComponent(j, i, ok)
    PROVE  Proceeds(j)
<1>1. GroupKind(j) # BlobKey
  BY DEF ComponentKey, BlobKey
<1>2. \/ \E what : Write(j, what)
      \/ \E how : Step(j, Failing(job[j], how))
      \/ job[j].stage = "load" /\ \E places, read : Provide(j, places, read)
      \/ Step(j, GroupDone(job[j]))
  BY DEF EndComponent
<1> QED
  BY <1>1, <1>2, WriteProceeds, FailingProceeds, ProvideProceeds, GroupDoneProceeds

LEMMA ComponentsProceed ==
    ASSUME DeliveryInv, NEW j \in Jobs,
           StartComponents(j) \/ RunComponent(j) \/ ComponentFails(j)
    PROVE  Proceeds(j)
<1>1. CASE StartComponents(j)
  <2>1. GroupKind(j) # BlobKey
    BY <1>1 DEF StartComponents, ComponentKey, BlobKey
  <2>2. (\E how : Step(j, Failing(job[j], how))) \/ (\E what : Write(j, what))
    BY <1>1 DEF StartComponents
  <2> QED
    BY <2>1, <2>2, FailingProceeds, WriteProceeds
<1>2. CASE RunComponent(j) \/ ComponentFails(j)
  <2>1. \/ \E how : Step(j, Failing(job[j], how))
        \/ GroupKind(j) = ComponentKey /\ \E i, ok : EndComponent(j, i, ok)
    BY <1>2 DEF RunComponent, ComponentFails, IsRunning
  <2> QED
    BY <2>1, FailingProceeds, EndComponentProceeds
<1> QED
  BY <1>1, <1>2

LEMMA FailuresProceed ==
    ASSUME DeliveryInv, NEW j \in Jobs, RunFails(j) \/ WriteFails(j)
    PROVE  Proceeds(j)
  BY FailingProceeds DEF RunFails, WriteFails

LEMMA AnswersProceed ==
    ASSUME DeliveryInv, NEW p \in posts, Arrive(p) \/ Answer(p) \/ FailPost(p) \/ Drop(p)
    PROVE  p.job \in Jobs /\ Proceeds(p.job)
<1>1. p.job \in Jobs
  BY DEF DeliveryInv, IsPost
<1>2. \/ UNCHANGED job
      \/ \E how : Step(p.job, Failing(job[p.job], how))
      \/ Step(p.job, GroupDone(job[p.job]))
  BY DEF Arrive, Answer, FailPost, Drop, AnswerPost
<1> QED
  BY <1>1, <1>2, FailingProceeds, GroupDoneProceeds DEF Proceeds

(* All steps together.                                                     *)
LEMMA StepsProceed ==
    ASSUME DeliveryInv, Next
    PROVE  /\ setup' = setup
           /\ \E j \in Jobs : \/ Begin(j) \/ HeadObject(j) \/ PutObject(j)
                              \/ objects' = objects /\ Proceeds(j)
<1>1. ASSUME NEW j \in Jobs, Advance(j)
      PROVE  \/ Begin(j) \/ HeadObject(j) \/ PutObject(j)
             \/ objects' = objects /\ Proceeds(j)
  <2>1. CASE Load(j) \/ LoadRest(j) \/ Receive(j) \/ Run(j)
    <3>1. objects' = objects
      BY <2>1 DEF Load, LoadRest, Receive, Run, stores
    <3> QED
      BY <2>1, <3>1, LoadingProceeds, ReceiveProceeds, RunProceeds
  <2>2. CASE BeginTransaction(j) \/ EndTransaction(j) \/ OpenFile(j) \/ CloseFile(j) \/ Return(j)
    <3>1. objects' = objects
      BY <2>2 DEF BeginTransaction, EndTransaction, OpenFile, CloseFile, Return, stores
    <3> QED
      BY <2>2, <3>1, SendingProceeds
  <2>3. CASE LaunchRest(j) \/ LaunchKafka(j)
    <3>1. objects' = objects
      BY <2>3 DEF LaunchRest, LaunchKafka, stores
    <3> QED
      BY <2>3, <3>1, LaunchProceeds
  <2>4. CASE StartComponents(j) \/ RunComponent(j)
    <3>1. objects' = objects
      BY <2>4 DEF StartComponents, RunComponent, stores
    <3> QED
      BY <2>4, <3>1, ComponentsProceed
  <2> QED
    BY <1>1, <2>1, <2>2, <2>3, <2>4 DEF Advance
<1>2. ASSUME NEW j \in Jobs, RunFails(j) \/ WriteFails(j) \/ ComponentFails(j)
      PROVE  objects' = objects /\ Proceeds(j)
  <2>1. objects' = objects
    BY <1>2 DEF RunFails, WriteFails, ComponentFails, stores
  <2> QED
    BY <1>2, <2>1, FailuresProceed, ComponentsProceed
<1>3. ASSUME NEW p \in posts, Arrive(p) \/ Answer(p) \/ FailPost(p) \/ Drop(p)
      PROVE  p.job \in Jobs /\ objects' = objects /\ Proceeds(p.job)
  <2>1. objects' = objects
    BY <1>3 DEF Arrive, Answer, FailPost, Drop, AnswerPost, stores
  <2> QED
    BY <1>3, <2>1, AnswersProceed
<1>4. setup' = setup
  <2>1. ASSUME NEW j \in Jobs, Begin(j) \/ Load(j) \/ LoadRest(j) \/ Receive(j) \/ Run(j)
        PROVE  setup' = setup
    BY <2>1 DEF Begin, Load, LoadRest, Receive, Run
  <2>2. ASSUME NEW j \in Jobs, \/ BeginTransaction(j) \/ EndTransaction(j) \/ OpenFile(j)
                               \/ CloseFile(j) \/ HeadObject(j) \/ PutObject(j) \/ Return(j)
        PROVE  setup' = setup
    BY <2>2 DEF BeginTransaction, EndTransaction, OpenFile, CloseFile, HeadObject, PutObject, Return
  <2>3. ASSUME NEW j \in Jobs, \/ LaunchRest(j) \/ LaunchKafka(j)
                               \/ StartComponents(j) \/ RunComponent(j)
        PROVE  setup' = setup
    BY <2>3 DEF LaunchRest, LaunchKafka, StartComponents, RunComponent
  <2>4. ASSUME NEW j \in Jobs, RunFails(j) \/ WriteFails(j) \/ ComponentFails(j)
        PROVE  setup' = setup
    BY <2>4 DEF RunFails, WriteFails, ComponentFails
  <2>5. ASSUME NEW p \in posts, Arrive(p) \/ Answer(p) \/ FailPost(p) \/ Drop(p)
        PROVE  setup' = setup
    BY <2>5 DEF Arrive, Answer, FailPost, Drop, AnswerPost
  <2>6. ASSUME NEW j \in Jobs, Advance(j) PROVE setup' = setup
    BY <2>1, <2>2, <2>3, <2>6 DEF Advance
  <2> QED
    BY <2>4, <2>5, <2>6 DEF Next
<1> QED
  BY <1>1, <1>2, <1>3, <1>4 DEF Next

(* A wiring refused or that cannot be resolved leaves the execution        *)
(* without one; otherwise its first group of inputs is next.               *)
LEMMA BeginComesTo ==
    ASSUME DeliveryInv, NEW j \in Jobs, Begin(j)
    PROVE  LET ins == AcceptedWirings(Task(j).inputs)
               outs == AcceptedWirings(Task(j).outputs)
           IN  \E s :
                /\ Step(j, s)
                /\ IsWritingObject(s) => IsWritingObject(job[j])
                /\ \/ s.wirings = job[j].wirings
                   \/ /\ ins # None /\ outs # None
                      /\ \E in \in Resolutions(ins, setup.entries),
                            out \in Resolutions(outs, setup.entries) :
                            /\ in.error = "no" /\ out.error = "no"
                            /\ s.wirings.in = in.wirings /\ s.wirings.out = out.wirings
<1> DEFINE ins == AcceptedWirings(Task(j).inputs)
           outs == AcceptedWirings(Task(j).outputs)
           r == job[j]
           Found(s) == \E in \in Resolutions(ins, setup.entries),
                         out \in Resolutions(outs, setup.entries) :
                            /\ in.error = "no" /\ out.error = "no"
                            /\ s.wirings.in = in.wirings /\ s.wirings.out = out.wirings
           Fine(s) == /\ IsWritingObject(s) => IsWritingObject(r)
                      /\ s.wirings = r.wirings \/ (ins # None /\ outs # None /\ Found(s))
<1>1. IsExecution(r) /\ IsList(Task(j).inputs) /\ IsList(Task(j).outputs)
  BY ExecutionsAre, WiredAssumption DEF DeliveryInv, Jobs, Task
<1>2. Fine(Refused(r)) /\ \A how : Fine(Failing(r, how))
  BY <1>1, RefusedFields, FailingContinues DEF Continues, IsWritingObject
<1>3. ASSUME NEW in \in Resolutions(ins, setup.entries),
             NEW out \in Resolutions(outs, setup.entries),
             ins # None, outs # None, in.error = "no", out.error = "no"
      PROVE  Fine(Enter(Supplied(r, in.wirings, out.wirings), "load"))
  <2> DEFINE x == Supplied(r, in.wirings, out.wirings)
             s == Staged(x, "load")
  <2>1. DOMAIN in.wirings \subseteq Nat /\ DOMAIN out.wirings \subseteq Nat
    <3>1. DOMAIN in.wirings = DOMAIN ins /\ DOMAIN out.wirings = DOMAIN outs
      BY <1>3, ResolvedPlaces
    <3>2. DOMAIN ins = DOMAIN Task(j).inputs /\ DOMAIN outs = DOMAIN Task(j).outputs
      BY <1>3, AcceptedPlaces
    <3> QED
      BY <1>1, <3>1, <3>2 DEF IsList
  <2>2. IsExecution(x) /\ x.wirings.in = in.wirings /\ x.wirings.out = out.wirings
    BY <1>1, <2>1, SuppliedFields
  <2>3. Enter(x, "load") = NextGroup(s, Places(s))
    BY Zenon DEF Enter, Staged
  <2> HIDE DEF x
  <2>4. IsExecution(s) /\ s.wirings = x.wirings
    BY <2>2, StageFields
  <2> HIDE DEF s
  <2> DEFINE n == NextGroup(s, Places(s))
  <2>5. n.wirings = x.wirings /\ ~ IsWritingObject(n)
    BY <2>4, NextGroupContinues DEF Continues
  <2> HIDE DEF n
  <2>6. Found(n)
    BY <1>3, <2>2, <2>5
  <2>7. Fine(n)
    BY <1>3, <2>5, <2>6
  <2> QED
    BY <2>3, <2>7 DEF x, n
<1>4. \/ Step(j, Refused(r))
      \/ \E how : Step(j, Failing(r, how))
      \/ /\ ins # None /\ outs # None
         /\ \E in \in Resolutions(ins, setup.entries), out \in Resolutions(outs, setup.entries) :
                /\ in.error = "no" /\ out.error = "no"
                /\ Step(j, Enter(Supplied(r, in.wirings, out.wirings), "load"))
  BY DEF Begin, Refused, Supplied
<1> HIDE DEF ins, outs, Fine
<1>5. \E s : Step(j, s) /\ Fine(s)
  BY <1>2, <1>3, <1>4
<1> QED
  BY <1>5 DEF Fine, ins, outs

LEMMA BeginResolves ==
    ASSUME DeliveryInv, NEW j \in Jobs, Begin(j),
           FewVirtual(Task(j).inputs), FewVirtual(Task(j).outputs)
    PROVE  \E s : /\ Step(j, s)
                  /\ \/ s.wirings = job[j].wirings
                     \/ /\ IsOwn(Task(j).inputs, s.wirings.in)
                        /\ IsOwn(Task(j).outputs, s.wirings.out)
<1>1. IsList(Task(j).inputs) /\ IsList(Task(j).outputs)
  BY WiredAssumption DEF DeliveryInv, Jobs, Task
<1>2. PICK s : /\ Step(j, s)
               /\ \/ s.wirings = job[j].wirings
                  \/ /\ AcceptedWirings(Task(j).inputs) # None
                     /\ AcceptedWirings(Task(j).outputs) # None
                     /\ \E in \in Resolutions(AcceptedWirings(Task(j).inputs), setup.entries),
                           out \in Resolutions(AcceptedWirings(Task(j).outputs), setup.entries) :
                           /\ in.error = "no" /\ out.error = "no"
                           /\ s.wirings.in = in.wirings /\ s.wirings.out = out.wirings
  BY BeginComesTo
<1> QED
  BY <1>1, <1>2, ResolvedAreOwn

(* No execution has more virtual sources, or sinks, than there are batches *)
(* for them: 500.                                                          *)
FewVirtualWirings ==
    \A j \in Jobs : FewVirtual(Task(j).inputs) /\ FewVirtual(Task(j).outputs)

LEMMA NextResolves ==
    ASSUME FewVirtualWirings, DeliveryInv, ResolvedWiringsAreTheirOwn, Next
    PROVE  ResolvedWiringsAreTheirOwn'
<1> DEFINE Own(k, s) == IsOwn(Task(k).inputs, s.wirings.in) /\ IsOwn(Task(k).outputs, s.wirings.out)
<1>1. setup' = setup /\ Jobs' = Jobs /\ DOMAIN job = Jobs /\ setup \in Setups
  BY StepsProceed DEF Jobs, DeliveryInv
<1>2. \A k \in Jobs : Own(k, job[k])
  BY DEF ResolvedWiringsAreTheirOwn
<1>3. PICK j \in Jobs : UNCHANGED job \/ \E s : Step(j, s) /\ Own(j, s)
  <2>1. PICK j \in Jobs : \/ Begin(j) \/ HeadObject(j) \/ PutObject(j) \/ Proceeds(j)
    BY StepsProceed
  <2>2. CASE Begin(j)
    <3>1. FewVirtual(Task(j).inputs) /\ FewVirtual(Task(j).outputs)
      BY DEF FewVirtualWirings
    <3> QED
      BY <1>2, <2>2, <3>1, BeginResolves
  <2>3. CASE HeadObject(j) \/ PutObject(j)
    <3>1. \/ \E how : Step(j, Failing(job[j], how))
          \/ \E places : Step(j, Without(job[j], places))
          \/ \E what : Step(j, Doing(job[j], what))
      BY <2>3 DEF HeadObject, PutObject, Write, Doing
    <3>2. IsExecution(job[j])
      BY ExecutionsAre
    <3>3. /\ \A how : Failing(job[j], how).wirings = job[j].wirings
          /\ \A places : Without(job[j], places).wirings = job[j].wirings
          /\ \A what : Doing(job[j], what).wirings = job[j].wirings
      BY <3>2, FailingContinues, WithoutContinues, WritingFields DEF Continues
    <3> QED
      BY <1>2, <3>1, <3>3
  <2>4. CASE Proceeds(j)
    BY <1>2, <2>4 DEF Proceeds, Continues
  <2> QED
    BY <2>1, <2>2, <2>3, <2>4
<1>4. ASSUME NEW k \in Jobs PROVE Own(k, job'[k])
  <2>1. CASE UNCHANGED job
    BY <1>2, <2>1
  <2>2. CASE \E s : Step(j, s) /\ Own(j, s)
    <3>1. PICK s : job' = [job EXCEPT ![j] = s] /\ Own(j, s)
      BY <2>2 DEF Step
    <3>2. job'[k] = IF k = j THEN s ELSE job[k]
      BY <1>1, <3>1
    <3> QED
      BY <1>2, <3>1, <3>2
  <2> QED
    BY <1>3, <2>1, <2>2
<1>5. \A k \in Jobs : /\ IsOwn(Task(k).inputs, job[k].wirings.in)'
                      /\ IsOwn(Task(k).outputs, job[k].wirings.out)'
  BY <1>1, <1>4 DEF IsOwn, Task
<1> QED
  BY <1>1, <1>5 DEF ResolvedWiringsAreTheirOwn

(* An execution with at most 500 virtual sources and 500 virtual sinks     *)
(* loads and sends each of them where its own id points to, although the   *)
(* rows fetched are matched by position (resolve_wirings.py 63-79).        *)
THEOREM VirtualWiringsAreTheirOwn ==
    Spec /\ FewVirtualWirings => []ResolvedWiringsAreTheirOwn
<1>1. Init => ResolvedWiringsAreTheirOwn
  <2> SUFFICES ASSUME Init, NEW j \in Jobs
               PROVE  /\ IsOwn(Task(j).inputs, job[j].wirings.in)
                      /\ IsOwn(Task(j).outputs, job[j].wirings.out)
    BY DEF ResolvedWiringsAreTheirOwn
  <2>1. job[j].wirings.in = <<>> /\ job[j].wirings.out = <<>>
    BY DEF Init, Idle
  <2> QED
    BY <2>1 DEF IsOwn
<1>2. FewVirtualWirings /\ DeliveryInv /\ ResolvedWiringsAreTheirOwn /\ [Next]_vars
        => ResolvedWiringsAreTheirOwn'
  <2>1. ASSUME ResolvedWiringsAreTheirOwn, UNCHANGED vars PROVE ResolvedWiringsAreTheirOwn'
    BY <2>1 DEF vars, ResolvedWiringsAreTheirOwn, IsOwn, Jobs, Task
  <2> QED
    BY <2>1, NextResolves
<1>3. FewVirtualWirings /\ DeliveryInv /\ [Next]_vars => FewVirtualWirings'
  <2>1. ASSUME DeliveryInv, [Next]_vars PROVE setup' = setup
    BY <2>1, StepsProceed DEF vars
  <2> QED
    BY <2>1 DEF FewVirtualWirings, FewVirtual, Jobs, Task
<1>4. QED
  BY <1>1, <1>2, <1>3, DeliveryInvHolds, PTL DEF Spec

-----------------------------------------------------------------------------
(* Objects.  Where an object is to be put there is none, and no two        *)
(* executions are putting it there; custom objects never lie in a bucket   *)
(* without their model.                                                    *)

ModelKey(k) == [k EXCEPT !.extension = "h5"]

CustomObjectsHaveModels(buckets) ==
    \A b \in DOMAIN buckets : \A k \in DOMAIN buckets[b] :
        Blob!IsKey(k) /\ k.extension = "custom_objects_pkl" => ModelKey(k) \in DOMAIN buckets[b]

IsKeyOf(key, extension) ==
    key = [name |-> key.name, time |-> key.time, job |-> key.job, extension |-> extension]

IsPlace(w) == w = [bucket |-> w.bucket, key |-> w.key, part |-> w.part]

(* r is the record of execution j, value the one it writes.                *)
PlaceIsFree(r, value, buckets) ==
    LET w == r.writing
    IN  /\ w = [bucket |-> w.bucket, key |-> w.key, part |-> w.part]
        /\ w.bucket \in DOMAIN buckets
        /\ \/ /\ w.part = "object" /\ IsKeyOf(w.key, Blob!ExtensionOf(value))
              /\ w.key \notin DOMAIN buckets[w.bucket]
           \/ /\ w.part = "custom objects" /\ IsKeyOf(w.key, "h5")
              /\ w.key \in DOMAIN buckets[w.bucket]
              /\ Blob!CustomObjectsKey(w.key) \notin DOMAIN buckets[w.bucket]

AtOnePlace(r, s) ==
    /\ IsWritingObject(r) /\ IsWritingObject(s)
    /\ r.writing.bucket = s.writing.bucket /\ r.writing.key = s.writing.key

ObjectsInv ==
    /\ CustomObjectsHaveModels(objects)
    /\ \A j \in Jobs : IsWritingObject(job[j]) =>
            job[j].stage = "send" /\ PlaceIsFree(job[j], CurrentValue(j), objects)
    /\ \A j, k \in Jobs : AtOnePlace(job[j], job[k]) => j = k

(* Executions of different processes are not writing one object at a time. *)
ProcessesKeepApart ==
    \A j, k \in Jobs : AtOnePlace(job[j], job[k]) => Task(j).process = Task(k).process

LEMMA CustomKeys ==
    ASSUME NEW key, IsKeyOf(key, "h5")
    PROVE  /\ Blob!IsKey(Blob!CustomObjectsKey(key))
           /\ Blob!CustomObjectsKey(key).extension = "custom_objects_pkl"
           /\ ModelKey(Blob!CustomObjectsKey(key)) = key
<1> DEFINE Made(extension) ==
               [name |-> key.name, time |-> key.time, job |-> key.job, extension |-> extension]
<1>1. key = Made("h5")
  BY DEF IsKeyOf
<1>2. Blob!CustomObjectsKey(Made("h5")) = Made("custom_objects_pkl")
  BY DEF Blob!CustomObjectsKey
<1>3. ModelKey(Made("custom_objects_pkl")) = Made("h5")
  BY DEF ModelKey
<1>4. Blob!IsKey(Made("custom_objects_pkl"))
      /\ Made("custom_objects_pkl").extension = "custom_objects_pkl"
  BY DEF Blob!IsKey
<1>5. Blob!CustomObjectsKey(key) = Made("custom_objects_pkl")
  BY <1>1, <1>2, Zenon
<1>6. ModelKey(Made("custom_objects_pkl")) = key
  BY <1>1, <1>3, Zenon
<1> HIDE DEF Made
<1> QED
  BY <1>4, <1>5, <1>6

LEMMA KeysHaveExtensions ==
    ASSUME NEW key, NEW extension, IsKeyOf(key, extension)
    PROVE  key.extension = extension
  BY DEF IsKeyOf

LEMMA WrittenExtensions ==
    ASSUME NEW value
    PROVE  Blob!ExtensionOf(value) \in {"h5", "pkl"}
  BY DEF Blob!ExtensionOf

(* The key the next object of r goes to, and what is there already.        *)
PutKey(r) == IF r.writing.part = "object" THEN r.writing.key
             ELSE Blob!CustomObjectsKey(r.writing.key)

LEMMA PlacesAreFree ==
    ASSUME NEW r, NEW value, NEW buckets, PlaceIsFree(r, value, buckets),
           CustomObjectsHaveModels(buckets)
    PROVE  /\ PutKey(r) \notin DOMAIN buckets[r.writing.bucket]
           /\ \/ PutKey(r).extension # "custom_objects_pkl"
              \/ ModelKey(PutKey(r)) \in DOMAIN buckets[r.writing.bucket]
<1> DEFINE w == r.writing
<1>1. CASE /\ w.part = "object" /\ IsKeyOf(w.key, Blob!ExtensionOf(value))
           /\ w.key \notin DOMAIN buckets[w.bucket]
  <2>1. PutKey(r) = w.key
    BY <1>1 DEF PutKey
  <2>2. w.key.extension \in {"h5", "pkl"}
    BY <1>1, KeysHaveExtensions, WrittenExtensions
  <2> QED
    BY <1>1, <2>1, <2>2
<1>2. CASE /\ w.part = "custom objects" /\ IsKeyOf(w.key, "h5")
           /\ w.key \in DOMAIN buckets[w.bucket]
           /\ Blob!CustomObjectsKey(w.key) \notin DOMAIN buckets[w.bucket]
  <2>1. PutKey(r) = Blob!CustomObjectsKey(w.key)
    BY <1>2 DEF PutKey
  <2> QED
    BY <1>2, <2>1, CustomKeys
<1> QED
  BY <1>1, <1>2 DEF PlaceIsFree

(* What is put elsewhere leaves a place free.                              *)
LEMMA FreePlacesStay ==
    ASSUME NEW r, NEW value, NEW old, NEW new, PlaceIsFree(r, value, old),
           \A b \in DOMAIN old : /\ b \in DOMAIN new /\ DOMAIN old[b] \subseteq DOMAIN new[b],
           r.writing.key \in DOMAIN new[r.writing.bucket] => r.writing.key \in DOMAIN old[r.writing.bucket],
           IsKeyOf(r.writing.key, "h5") => LET custom == Blob!CustomObjectsKey(r.writing.key) IN
                custom \in DOMAIN new[r.writing.bucket] => custom \in DOMAIN old[r.writing.bucket]
    PROVE  PlaceIsFree(r, value, new)
  BY DEF PlaceIsFree

(* Two executions that write at different places put at different ones.    *)
LEMMA PutsAreApart ==
    ASSUME NEW r, NEW value, NEW s, NEW other, NEW buckets,
           PlaceIsFree(r, value, buckets), PlaceIsFree(s, other, buckets),
           s.writing.key # r.writing.key
    PROVE  /\ PutKey(r) # s.writing.key
           /\ IsKeyOf(s.writing.key, "h5") => PutKey(r) # Blob!CustomObjectsKey(s.writing.key)
<1> DEFINE w == r.writing
           x == s.writing
<1>1. x.key.extension \in {"h5", "pkl"}
  BY KeysHaveExtensions, WrittenExtensions DEF PlaceIsFree
<1>2. CASE w.part = "object" /\ IsKeyOf(w.key, Blob!ExtensionOf(value))
  <2>1. PutKey(r) = w.key
    BY <1>2 DEF PutKey
  <2>2. w.key.extension \in {"h5", "pkl"}
    BY <1>2, KeysHaveExtensions, WrittenExtensions
  <2> QED
    BY <2>1, <2>2, CustomKeys
<1>3. CASE w.part = "custom objects" /\ IsKeyOf(w.key, "h5")
  <2>1. PutKey(r) = Blob!CustomObjectsKey(w.key)
    BY <1>3 DEF PutKey
  <2>2. PutKey(r).extension = "custom_objects_pkl" /\ ModelKey(PutKey(r)) = w.key
    BY <1>3, <2>1, CustomKeys
  <2>3. IsKeyOf(x.key, "h5") => ModelKey(Blob!CustomObjectsKey(x.key)) = x.key
    BY CustomKeys
  <2> QED
    BY <1>1, <2>2, <2>3
<1> QED
  BY <1>2, <1>3 DEF PlaceIsFree

LEMMA TargetsAreKeys ==
    ASSUME NEW node, NEW mk, NEW suffix, NEW extension, extension \in {"h5", "pkl"},
           NEW by, NEW now,
           Blob!Target(node, mk, suffix, extension, by, now).error = "no"
    PROVE  IsKeyOf(Blob!Target(node, mk, suffix, extension, by, now).key, extension)
<1> DEFINE target == Blob!Target(node, mk, suffix, extension, by, now)
           m == Blob!Suffixed(node, mk, suffix)
           key == Blob!KeyOf(node, m, extension)
<1>1. extension # None
  BY WiredAssumption
<1>2. \/ target = [error |-> "no", key |-> Blob!Key(node, now, by, extension)]
      \/ target = [error |-> "no", key |-> key] /\ key # None
      \/ target = [error |-> "handling"] \/ target = [error |-> "raised"]
  BY DEF Blob!Target, Blob!Failed
<1>3. key # None => key = Blob!Key(node, m.time, m.job, extension)
  BY <1>1 DEF Blob!KeyOf
<1> HIDE DEF target, key
<1>4. CASE target = [error |-> "no", key |-> Blob!Key(node, now, by, extension)]
  <2>1. target.key = Blob!Key(node, now, by, extension)
    BY <1>4
  <2> QED
    BY <2>1 DEF IsKeyOf, Blob!Key, target
<1>5. CASE target = [error |-> "no", key |-> key] /\ key # None
  <2>1. target.key = Blob!Key(node, m.time, m.job, extension)
    BY <1>3, <1>5
  <2> QED
    BY <2>1 DEF IsKeyOf, Blob!Key, target
<1>6. target.error = "no"
  BY DEF target
<1> QED
  BY <1>2, <1>4, <1>5, <1>6

(* Nothing is replaced.                                                    *)
NothingReplaced(old, new) ==
    \A b \in DOMAIN old : \A k \in DOMAIN old[b] :
        b \in DOMAIN new /\ k \in DOMAIN new[b] /\ new[b][k] = old[b][k]

LEMMA PutKeeps ==
    ASSUME NEW old, NEW b \in DOMAIN old, NEW key, key \notin DOMAIN old[b], NEW content,
           CustomObjectsHaveModels(old),
           key.extension # "custom_objects_pkl" \/ ModelKey(key) \in DOMAIN old[b]
    PROVE  LET new == Blob!Put(old, b, key, content) IN
               /\ DOMAIN new = DOMAIN old
               /\ DOMAIN new[b] = DOMAIN old[b] \cup {key} /\ new[b][key] = content
               /\ \A x \in DOMAIN old \ {b} : new[x] = old[x]
               /\ NothingReplaced(old, new)
               /\ CustomObjectsHaveModels(new)
<1> DEFINE new == Blob!Put(old, b, key, content)
           bucket == [k \in DOMAIN old[b] \cup {key} |-> IF k = key THEN content ELSE old[b][k]]
<1>1. new = [old EXCEPT ![b] = bucket]
  BY Zenon DEF Blob!Put
<1>2. /\ DOMAIN bucket = DOMAIN old[b] \cup {key}
      /\ bucket[key] = content
      /\ \A k \in DOMAIN old[b] : bucket[k] = old[b][k]
  OBVIOUS
<1> HIDE DEF new, bucket
<1>3. DOMAIN new = DOMAIN old /\ new[b] = bucket /\ \A x \in DOMAIN old \ {b} : new[x] = old[x]
  BY <1>1
<1>4. NothingReplaced(old, new)
  BY <1>2, <1>3 DEF NothingReplaced
<1>5. CustomObjectsHaveModels(new)
  <2> SUFFICES ASSUME NEW x \in DOMAIN new, NEW k \in DOMAIN new[x], Blob!IsKey(k),
                      k.extension = "custom_objects_pkl"
               PROVE  ModelKey(k) \in DOMAIN new[x]
    BY DEF CustomObjectsHaveModels
  <2>1. CASE x # b
    BY <1>3, <2>1 DEF CustomObjectsHaveModels
  <2>2. CASE x = b /\ k = key
    BY <1>2, <1>3, <2>2
  <2>3. CASE x = b /\ k # key
    BY <1>2, <1>3, <2>3 DEF CustomObjectsHaveModels
  <2> QED
    BY <2>1, <2>2, <2>3
<1> QED
  BY <1>2, <1>3, <1>4, <1>5 DEF new

LEMMA BucketIsEnsured ==
    ASSUME NEW old, NEW b, Blob!WithBucket(old, b) # None, CustomObjectsHaveModels(old)
    PROVE  LET new == Blob!WithBucket(old, b) IN
               /\ b \in DOMAIN new /\ NothingReplaced(old, new) /\ CustomObjectsHaveModels(new)
               /\ \A x \in DOMAIN old : x \in DOMAIN new /\ new[x] = old[x]
<1> DEFINE new == Blob!WithBucket(old, b)
           more == [x \in DOMAIN old \cup {b} |-> IF x = b THEN <<>> ELSE old[x]]
<1>1. CASE b \in DOMAIN old
  <2>1. new = old
    BY <1>1 DEF Blob!WithBucket
  <2> QED
    BY <1>1, <2>1 DEF NothingReplaced
<1>2. CASE b \notin DOMAIN old
  <2>1. new = more
    BY <1>2 DEF Blob!WithBucket
  <2>2. /\ DOMAIN more = DOMAIN old \cup {b} /\ DOMAIN more[b] = {}
        /\ \A x \in DOMAIN old : more[x] = old[x]
    BY <1>2
  <2> HIDE DEF new, more
  <2>3. NothingReplaced(old, more) /\ CustomObjectsHaveModels(more)
    BY <2>2 DEF NothingReplaced, CustomObjectsHaveModels
  <2> QED
    BY <2>1, <2>2, <2>3 DEF new
<1> QED
  BY <1>1, <1>2

(* What a step comes to: nothing is replaced, and the invariant holds.     *)
ObjectsStep == ObjectsInv' /\ NothingReplaced(objects, objects')

WritesSoundly(r, value, buckets) ==
    IsWritingObject(r) => r.stage = "send" /\ PlaceIsFree(r, value, buckets)

ValueOf(r) == r.values[WiringsOf(r)[Min(GroupOf(r, r.left))].name]

LEMMA ValueIsCurrent ==
    ASSUME NEW j
    PROVE  CurrentValue(j) = ValueOf(job[j]) /\ CurrentValue(j)' = ValueOf(job'[j])
  BY DEF CurrentValue, ValueOf, Current, Wiring, CurrentPlace, AtWork

(* A step of execution j that leaves the others their free places.         *)
LEMMA WriterSteps ==
    ASSUME DeliveryInv, ObjectsInv, setup' = setup, NEW j \in Jobs, NEW s, Step(j, s),
           \A k \in Jobs \ {j} : IsWritingObject(job[k]) =>
                /\ PlaceIsFree(job[k], CurrentValue(k), objects')
                /\ ~ AtOnePlace(s, job[k]),
           CustomObjectsHaveModels(objects'), NothingReplaced(objects, objects'),
           WritesSoundly(s, ValueOf(s), objects')
    PROVE  ObjectsStep
<1>1. Jobs' = Jobs /\ DOMAIN job = Jobs
  BY DEF Jobs, DeliveryInv
<1>2. job'[j] = s /\ \A k \in Jobs \ {j} : job'[k] = job[k]
  BY <1>1 DEF Step
<1>3. ASSUME NEW k \in Jobs, IsWritingObject(job'[k])
      PROVE  job'[k].stage = "send" /\ PlaceIsFree(job'[k], CurrentValue(k)', objects')
  <2>1. CASE k = j
    BY <1>2, <1>3, <2>1, ValueIsCurrent DEF WritesSoundly
  <2>2. CASE k # j
    <3>1. job'[k] = job[k] /\ CurrentValue(k)' = CurrentValue(k)
      BY <1>2, <2>2, ValueIsCurrent
    <3> QED
      BY <1>3, <2>2, <3>1 DEF ObjectsInv
  <2> QED
    BY <2>1, <2>2
<1>4. ASSUME NEW k \in Jobs, NEW l \in Jobs, AtOnePlace(job'[k], job'[l])
      PROVE  k = l
  <2>1. IsWritingObject(job'[k]) /\ IsWritingObject(job'[l]) /\ AtOnePlace(job'[l], job'[k])
    BY <1>4 DEF AtOnePlace
  <2>2. CASE k # j /\ l # j
    BY <1>2, <1>4, <2>2 DEF ObjectsInv
  <2>3. CASE k = j /\ l # j
    BY <1>2, <1>4, <2>1, <2>3
  <2>4. CASE k # j /\ l = j
    BY <1>2, <2>1, <2>4
  <2> QED
    BY <2>2, <2>3, <2>4
<1>5. \A k \in Jobs : IsWritingObject(job[k])' = IsWritingObject(job'[k])
  OBVIOUS
<1>6. \A k, l \in Jobs : AtOnePlace(job[k], job[l])' = AtOnePlace(job'[k], job'[l])
  OBVIOUS
<1>7. ObjectsInv'
  BY <1>1, <1>3, <1>4, <1>5, <1>6 DEF ObjectsInv
<1> QED
  BY <1>7 DEF ObjectsStep

LEMMA SameObjects ==
    ASSUME objects' = objects
    PROVE  NothingReplaced(objects, objects')
  BY DEF NothingReplaced

(* A step of execution j that writes no object.                            *)
LEMMA QuietStepsKeepObjects ==
    ASSUME DeliveryInv, ObjectsInv, setup' = setup, objects' = objects, NEW j \in Jobs,
           NEW s, Step(j, s), ~ IsWritingObject(s)
    PROVE  ObjectsStep
<1>1. WritesSoundly(s, ValueOf(s), objects')
  BY DEF WritesSoundly
<1>2. ASSUME NEW k \in Jobs, IsWritingObject(job[k])
      PROVE  PlaceIsFree(job[k], CurrentValue(k), objects') /\ ~ AtOnePlace(s, job[k])
  BY <1>2 DEF ObjectsInv, AtOnePlace
<1>3. CustomObjectsHaveModels(objects')
  BY DEF ObjectsInv
<1> QED
  BY <1>1, <1>2, <1>3, SameObjects, WriterSteps

LEMMA StutteringKeepsObjects ==
    ASSUME ObjectsInv, setup' = setup, objects' = objects, job' = job
    PROVE  ObjectsStep
<1>1. Jobs' = Jobs /\ \A k \in Jobs : CurrentValue(k)' = CurrentValue(k)
  BY ValueIsCurrent DEF Jobs
<1>2. \A k \in Jobs : IsWritingObject(job[k])' = IsWritingObject(job[k])
  BY DEF IsWritingObject
<1>3. \A k, l \in Jobs : AtOnePlace(job[k], job[l])' = AtOnePlace(job[k], job[l])
  BY DEF AtOnePlace, IsWritingObject
<1>4. ObjectsInv'
  BY <1>1, <1>2, <1>3 DEF ObjectsInv
<1> QED
  BY <1>4, SameObjects DEF ObjectsStep

(* An execution that may run is not kept waiting by one writing an object. *)
LEMMA NobodyElseWrites ==
    ASSUME DeliveryInv, ObjectsInv, NEW j \in Jobs, MayRun(j),
           NEW k \in Jobs \ {j}, Task(k).process = Task(j).process
    PROVE  ~ IsWritingObject(job[k])
<1> SUFFICES ASSUME IsWritingObject(job[k]) PROVE FALSE
  OBVIOUS
<1>1. job[k].stage = "send" /\ job[k].writing # None /\ GroupKind(k) = BlobKey
  BY DEF ObjectsInv, IsWritingObject, GroupKind
<1>2. BlobKey \notin Awaiting
  BY DEF BlobKey, Awaiting, Posting, ComponentKey
<1>3. Blocks(k)
  BY <1>1, <1>2 DEF Blocks
<1> QED
  BY <1>3 DEF MayRun

LEMMA HeadObjectStep ==
    ASSUME DeliveryInv, ObjectsInv, ProcessesKeepApart', NEW j \in Jobs, HeadObject(j)
    PROVE  ObjectsStep
<1> DEFINE w == Current(j)
           suffix == IF "object_key_suffix" \in DOMAIN w.filters THEN w.filters.object_key_suffix
                     ELSE None
           extension == Blob!ExtensionOf(CurrentValue(j))
           target == Blob!Target(w.ref_id, w.ref_key, suffix, extension, j, Task(j).time)
           bucket == w.ref_id.bucket
           ready == Blob!WithBucket(objects, bucket)
           what == [bucket |-> bucket, key |-> target.key, part |-> "object"]
           r == job[j]
<1>1. setup' = setup /\ r.stage = "send" /\ MayRun(j) /\ IsExecution(r)
  BY ExecutionsAre DEF HeadObject, Sending
<1>2. ASSUME NEW s, Step(j, s), NEW k \in Jobs \ {j}, AtOnePlace(s, job[k])
      PROVE  FALSE
  <2>1. Jobs' = Jobs /\ DOMAIN job = Jobs
    BY <1>1 DEF Jobs, DeliveryInv
  <2>2. job'[j] = s /\ job'[k] = job[k]
    BY <1>2, <2>1 DEF Step
  <2>3. Task(j)' = Task(j) /\ Task(k)' = Task(k)
    BY <1>1 DEF Task
  <2>4. AtOnePlace(job[j], job[k])' = AtOnePlace(job'[j], job'[k])
    OBVIOUS
  <2>5. Task(j).process = Task(k).process
    BY <1>2, <2>1, <2>2, <2>3, <2>4 DEF ProcessesKeepApart
  <2> QED
    BY <1>1, <1>2, <2>5, NobodyElseWrites DEF AtOnePlace
<1>3. \/ objects' = objects /\ \E how : Step(j, Failing(r, how))
      \/ /\ target.error = "no" /\ ready # None /\ objects' = ready
         /\ \/ Step(j, Failing(r, "handling"))
            \/ target.key \notin DOMAIN ready[bucket] /\ Step(j, Doing(r, what))
  BY DEF HeadObject, Write, Doing
<1>4. extension \in {"h5", "pkl"}
  BY DEF Blob!ExtensionOf
<1>5. target.error = "no" => IsKeyOf(target.key, extension)
  BY <1>4, TargetsAreKeys
<1>6. ready # None => /\ bucket \in DOMAIN ready /\ NothingReplaced(objects, ready)
                      /\ CustomObjectsHaveModels(ready)
                      /\ \A x \in DOMAIN objects : x \in DOMAIN ready /\ ready[x] = objects[x]
  BY BucketIsEnsured DEF ObjectsInv
<1>7. CurrentValue(j) = ValueOf(r)
  BY ValueIsCurrent
<1>8. \A how : ~ IsWritingObject(Failing(r, how))
  BY <1>1, FailingContinues DEF Continues
<1>9. /\ Doing(r, what).stage = "send" /\ Doing(r, what).writing = what
      /\ ValueOf(Doing(r, what)) = CurrentValue(j)
  <2> HIDE DEF what
  <2>1. LET s == Doing(r, what) IN
            /\ s.stage = r.stage /\ s.wirings = r.wirings /\ s.group = r.group
            /\ s.left = r.left /\ s.values = r.values /\ s.writing = what
    BY <1>1, WritingFields
  <2>2. ValueOf(Doing(r, what)) = ValueOf(r)
    BY <2>1 DEF ValueOf, WiringsOf, GroupOf
  <2> QED
    BY <1>1, <1>7, <2>1, <2>2
<1>10. what.bucket = bucket /\ what.key = target.key /\ what.part = "object"
       /\ what = [bucket |-> what.bucket, key |-> what.key, part |-> what.part]
  OBVIOUS
<1> HIDE DEF target, bucket, ready, what, extension
<1>11. ASSUME ready # None, objects' = ready, NEW k \in Jobs, IsWritingObject(job[k])
       PROVE  PlaceIsFree(job[k], CurrentValue(k), objects')
  <2>1. PlaceIsFree(job[k], CurrentValue(k), objects)
    BY <1>11 DEF ObjectsInv
  <2>2. job[k].writing.bucket \in DOMAIN objects
    BY <2>1 DEF PlaceIsFree
  <2> QED
    BY <1>6, <1>11, <2>1, <2>2 DEF PlaceIsFree
<1>12. CASE objects' = objects /\ \E how : Step(j, Failing(r, how))
  BY <1>1, <1>8, <1>12, QuietStepsKeepObjects
<1>13. CASE ready # None /\ objects' = ready /\ Step(j, Failing(r, "handling"))
  <2>1. WritesSoundly(Failing(r, "handling"), ValueOf(Failing(r, "handling")), objects')
    BY <1>8 DEF WritesSoundly
  <2> QED
    BY <1>1, <1>2, <1>6, <1>13, <1>11, <2>1, WriterSteps
<1>14. CASE /\ target.error = "no" /\ ready # None /\ objects' = ready
            /\ target.key \notin DOMAIN ready[bucket] /\ Step(j, Doing(r, what))
  <2> DEFINE s == Doing(r, what)
  <2>1. PlaceIsFree(s, ValueOf(s), ready)
    BY <1>5, <1>6, <1>9, <1>10, <1>14 DEF PlaceIsFree, extension
  <2>2. WritesSoundly(s, ValueOf(s), objects')
    BY <1>9, <1>14, <2>1 DEF WritesSoundly
  <2> HIDE DEF s
  <2> QED
    BY <1>1, <1>2, <1>6, <1>14, <1>11, <2>2, WriterSteps DEF s
<1> QED
  BY <1>3, <1>12, <1>13, <1>14

LEMMA PartChanges ==
    ASSUME NEW w, w = [bucket |-> w.bucket, key |-> w.key, part |-> w.part], NEW part
    PROVE  [w EXCEPT !.part = part] = [bucket |-> w.bucket, key |-> w.key, part |-> part]
<1>1. ASSUME NEW b, NEW k, NEW q
      PROVE  [[bucket |-> b, key |-> k, part |-> q] EXCEPT !.part = part]
             = [bucket |-> b, key |-> k, part |-> part]
  OBVIOUS
<1>2. [[bucket |-> w.bucket, key |-> w.key, part |-> w.part] EXCEPT !.part = part]
      = [bucket |-> w.bucket, key |-> w.key, part |-> part]
  BY <1>1
<1> QED
  BY <1>2, Zenon

LEMMA PutObjectStep ==
    ASSUME DeliveryInv, ObjectsInv, NEW j \in Jobs, PutObject(j)
    PROVE  ObjectsStep
<1> DEFINE r == job[j]
           w == r.writing
           value == CurrentValue(j)
           custom == Blob!CustomObjectsKey(w.key)
           key == PutKey(r)
           second == w.part = "object" /\ Blob!HasCustomObjects(value)
           new == Blob!Put(objects, w.bucket, key, value)
           next == [w EXCEPT !.part = "custom objects"]
<1>1. setup' = setup /\ r.stage = "send" /\ IsExecution(r) /\ IsWritingObject(r)
  BY ExecutionsAre DEF PutObject, IsWritingObject, GroupKind
<1>2. /\ CustomObjectsHaveModels(objects) /\ PlaceIsFree(r, value, objects)
  BY <1>1 DEF ObjectsInv
<1>3. /\ objects' = new
      /\ \/ second /\ Step(j, Doing(r, next))
         \/ ~ second /\ \E places : Step(j, Without(r, places))
  BY DEF PutObject, Write, Doing, PutKey
<1>4. w.bucket \in DOMAIN objects /\ w = [bucket |-> w.bucket, key |-> w.key, part |-> w.part]
  BY <1>2 DEF PlaceIsFree
<1>5. /\ key \notin DOMAIN objects[w.bucket]
      /\ key.extension # "custom_objects_pkl" \/ ModelKey(key) \in DOMAIN objects[w.bucket]
  BY <1>2, PlacesAreFree
<1> HIDE DEF key
<1>6. /\ DOMAIN new = DOMAIN objects /\ DOMAIN new[w.bucket] = DOMAIN objects[w.bucket] \cup {key}
      /\ NothingReplaced(objects, new) /\ CustomObjectsHaveModels(new)
      /\ \A x \in DOMAIN objects \ {w.bucket} : new[x] = objects[x]
  BY <1>2, <1>4, <1>5, PutKeeps
<1> HIDE DEF new
<1>7. ASSUME NEW k \in Jobs \ {j}, IsWritingObject(job[k])
      PROVE  PlaceIsFree(job[k], CurrentValue(k), new) /\ ~ AtOnePlace(r, job[k])
  <2> DEFINE x == job[k].writing
             customX == Blob!CustomObjectsKey(x.key)
  <2>1. PlaceIsFree(job[k], CurrentValue(k), objects) /\ ~ AtOnePlace(r, job[k])
    BY <1>7 DEF ObjectsInv
  <2>2. x.bucket \in DOMAIN objects
    BY <2>1 DEF PlaceIsFree
  <2>3. x.bucket # w.bucket \/ x.key # w.key
    BY <1>1, <1>7, <2>1 DEF AtOnePlace
  <2>4. ASSUME x.bucket = w.bucket
        PROVE  key # x.key /\ (IsKeyOf(x.key, "h5") => key # customX)
    BY <1>2, <2>1, <2>3, <2>4, PutsAreApart DEF key
  <2>5. \A b \in DOMAIN objects : b \in DOMAIN new /\ DOMAIN objects[b] \subseteq DOMAIN new[b]
    BY <1>6
  <2>6. /\ x.key \in DOMAIN new[x.bucket] => x.key \in DOMAIN objects[x.bucket]
        /\ IsKeyOf(x.key, "h5") =>
                (customX \in DOMAIN new[x.bucket] => customX \in DOMAIN objects[x.bucket])
    BY <1>6, <2>2, <2>4
  <2> QED
    BY <2>1, <2>5, <2>6, FreePlacesStay
<1>8. CASE ~ second /\ \E places : Step(j, Without(r, places))
  <2>1. PICK places : Step(j, Without(r, places))
    BY <1>8
  <2> DEFINE s == Without(r, places)
  <2>2. WritesSoundly(s, ValueOf(s), objects')
    BY <1>1, WithoutContinues DEF Continues, WritesSoundly
  <2>3. ~ IsWritingObject(s)
    BY <1>1, WithoutContinues DEF Continues
  <2> HIDE DEF s
  <2>4. Step(j, s)
    BY <2>1 DEF s
  <2> QED
    BY <1>1, <1>3, <1>6, <1>7, <2>2, <2>3, <2>4, WriterSteps DEF AtOnePlace
<1>9. CASE second /\ Step(j, Doing(r, next))
  <2>1. w.part = "object" /\ key = w.key /\ Blob!ExtensionOf(value) = "h5"
    BY <1>9 DEF Blob!HasCustomObjects, key, PutKey
  <2>2. IsKeyOf(w.key, "h5") /\ w.key \notin DOMAIN objects[w.bucket]
    BY <1>2, <2>1 DEF PlaceIsFree
  <2>3. Blob!IsKey(custom) /\ custom.extension = "custom_objects_pkl" /\ ModelKey(custom) = w.key
        /\ custom # w.key
    BY <2>2, CustomKeys, KeysHaveExtensions
  <2>4. custom \notin DOMAIN new[w.bucket]
    BY <1>2, <1>4, <1>6, <2>1, <2>2, <2>3 DEF CustomObjectsHaveModels
  <2>5. next = [bucket |-> w.bucket, key |-> w.key, part |-> "custom objects"]
    BY <1>4, PartChanges
  <2>6. next.bucket = w.bucket /\ next.key = w.key /\ next.part = "custom objects"
        /\ next = [bucket |-> next.bucket, key |-> next.key, part |-> next.part]
    BY <2>5
  <2> DEFINE s == Doing(r, next)
  <2> HIDE DEF next
  <2>7. s.stage = "send" /\ s.writing = next
    BY <1>1, WritingFields
  <2> HIDE DEF s
  <2>8. PlaceIsFree(s, ValueOf(s), new)
    BY <1>4, <1>6, <2>1, <2>2, <2>4, <2>6, <2>7 DEF PlaceIsFree
  <2>9. WritesSoundly(s, ValueOf(s), objects')
    BY <1>3, <2>7, <2>8 DEF WritesSoundly
  <2>10. Step(j, s)
    BY <1>9 DEF s
  <2>11. ASSUME NEW k \in Jobs \ {j}, AtOnePlace(s, job[k]) PROVE FALSE
    BY <1>1, <1>7, <2>6, <2>7, <2>11 DEF AtOnePlace
  <2> QED
    BY <1>1, <1>3, <1>6, <1>7, <2>9, <2>10, <2>11, WriterSteps
<1> QED
  BY <1>3, <1>8, <1>9

LEMMA BeginStep ==
    ASSUME DeliveryInv, ObjectsInv, NEW j \in Jobs, Begin(j)
    PROVE  ObjectsStep
<1>1. setup' = setup /\ objects' = objects
  BY DEF Begin, stores
<1>2. ~ IsWritingObject(job[j])
  BY DEF Begin, ObjectsInv
<1>3. \E s : Step(j, s) /\ (IsWritingObject(s) => IsWritingObject(job[j]))
  BY BeginComesTo
<1> QED
  BY <1>1, <1>2, <1>3, QuietStepsKeepObjects

LEMMA NextObjectsStep ==
    ASSUME DeliveryInv, ObjectsInv, ProcessesKeepApart', Next
    PROVE  ObjectsStep
<1>1. setup' = setup
  BY StepsProceed
<1>2. PICK j \in Jobs : \/ Begin(j) \/ HeadObject(j) \/ PutObject(j)
                        \/ objects' = objects /\ Proceeds(j)
  BY StepsProceed
<1>3. CASE objects' = objects /\ Proceeds(j)
  <2>1. CASE UNCHANGED job
    BY <1>1, <1>3, <2>1, StutteringKeepsObjects
  <2>2. CASE \E s : Step(j, s) /\ Continues(job[j], s)
    <3>1. PICK s : Step(j, s) /\ ~ IsWritingObject(s)
      BY <2>2 DEF Continues
    <3> QED
      BY <1>1, <1>3, <3>1, QuietStepsKeepObjects
  <2> QED
    BY <1>3, <2>1, <2>2 DEF Proceeds
<1> QED
  BY <1>2, <1>3, BeginStep, HeadObjectStep, PutObjectStep

LEMMA InitKeepsObjects == Init /\ CustomObjectsHaveModels(objects) => ObjectsInv
<1> SUFFICES ASSUME Init, CustomObjectsHaveModels(objects) PROVE ObjectsInv
  OBVIOUS
<1>1. \A k \in Jobs : job[k].writing = None
  BY DEF Init, Idle
<1>2. \A k \in Jobs : ~ IsWritingObject(job[k])
  BY <1>1 DEF IsWritingObject
<1> QED
  BY <1>2 DEF ObjectsInv, AtOnePlace

LEMMA ObjectsStepHolds ==
    DeliveryInv /\ ObjectsInv /\ ProcessesKeepApart' /\ [Next]_vars => ObjectsStep
<1>1. ASSUME ObjectsInv, UNCHANGED vars PROVE ObjectsStep
  BY <1>1, StutteringKeepsObjects DEF vars, stores
<1> QED
  BY <1>1, NextObjectsStep

(* The blob storage adapter replaces no object (write_blob.py 258-303)     *)
(* unless executions of two processes are writing it at a time, and if     *)
(* buckets hold custom objects beside their model only at the start:       *)
(* head_object looks for the model and not for them.                       *)
THEOREM ObjectsAreKept ==
    Spec /\ []ProcessesKeepApart /\ CustomObjectsHaveModels(objects) => ObjectsAreNeverOverwritten
<1>1. DeliveryInv /\ ObjectsInv /\ ProcessesKeepApart' /\ [Next]_vars => ObjectsInv'
  BY ObjectsStepHolds DEF ObjectsStep
<1>2. DeliveryInv /\ ObjectsInv /\ ProcessesKeepApart' /\ [Next]_vars
        => [\A b \in DOMAIN objects : \A k \in DOMAIN objects[b] :
                b \in DOMAIN objects' /\ k \in DOMAIN objects'[b]
                    /\ objects'[b][k] = objects[b][k]]_objects
  BY ObjectsStepHolds DEF ObjectsStep, NothingReplaced
<1>3. QED
  BY <1>1, <1>2, InitKeepsObjects, DeliveryInvHolds, PTL DEF Spec, ObjectsAreNeverOverwritten

-----------------------------------------------------------------------------
(* What has been written can be loaded.  It is stated of one execution j,  *)
(* whose record is r: what has reached the blob storage lies under a key   *)
(* of its thing node and stays there, and names tell its outputs apart.    *)

IsFoundKey(key, node, extension) ==
    /\ node \in Blob!ThingNodes /\ node.key # <<>>
    /\ IsKeyOf(key, extension) /\ key.name = node.key

IsStoredAs(key, node, value, buckets) ==
    /\ IsFoundKey(key, node, Blob!ExtensionOf(value))
    /\ node.bucket \in DOMAIN buckets /\ key \in DOMAIN buckets[node.bucket]
    /\ buckets[node.bucket][key] = value
    /\ Blob!HasCustomObjects(value) => Blob!CustomObjectsKey(key) \in DOMAIN buckets[node.bucket]

IsStored(node, value, buckets) == \E key : IsStoredAs(key, node, value, buckets)

NodeOf(r) == WiringsOf(r)[Min(GroupOf(r, r.left))].ref_id

(* The object being written goes where it will be looked for.              *)
OnItsWay(r, node, value, buckets) ==
    LET w == r.writing
    IN  /\ w.bucket = node.bucket /\ IsFoundKey(w.key, node, Blob!ExtensionOf(value))
        /\ w.part = "custom objects" =>
                w.key \in DOMAIN buckets[w.bucket] /\ buckets[w.bucket][w.key] = value

NamedOnce(ws) == \A i, k \in DOMAIN ws : ws[i].name = ws[k].name => i = k

(* n names an output that goes somewhere else.                             *)
NamesOther(r, n) ==
    /\ r.stage \in {"send", "done"}
    /\ \E i \in DOMAIN r.wirings.out :
            r.wirings.out[i].name = n /\ Kind(r.wirings.out[i]) # BlobKey

ReachedIsStored(j, r, reached, buckets) ==
    \A i \in DOMAIN r.wirings.out :
        LET w == r.wirings.out[i]
        IN  Kind(w) = BlobKey /\ <<j, w.name>> \in reached
                => IsStored(w.ref_id, r.values[w.name], buckets)

Lasts(j, r, reached, buckets) ==
    /\ NamedOnce(r.wirings.out)
    /\ \A n : <<j, n>> \in reached => r.stage \in {"send", "done"}
    /\ ReachedIsStored(j, r, reached, buckets)
    /\ IsWritingObject(r) => OnItsWay(r, NodeOf(r), ValueOf(r), buckets)

StoredInv ==
    /\ \A j \in Jobs : Lasts(j, job[j], arrived, objects)
    /\ \A p \in posts : \A n \in p.names : NamesOther(job[p.job], n)

(* Names stay in what is made of the wirings.                              *)
LEMMA AcceptedNames ==
    ASSUME NEW given, "name" \in DOMAIN given, Accepted(given) # None
    PROVE  "name" \in DOMAIN Accepted(given) /\ Accepted(given).name = given.name
<1> DEFINE c == Complete(given)
           w == [c EXCEPT !.filters = WithoutNulls(@)]
           path == IF w.uri.host \in DOMAIN Shortcuts THEN Shortcuts[w.uri.host][2] ELSE w.uri.path
           a == CASE w.uri.host = None -> w.adapter
                  [] w.uri.host \in DOMAIN Shortcuts -> Shortcuts[w.uri.host][1]
                  [] OTHER -> w.uri.host
           b == IF path = None THEN w.ref_id ELSE path
           f == w.uri.query @@ w.filters
           expanded == FromUri(w, w.uri)
<1>1. "name" \in DOMAIN c /\ c.name = given.name
  BY DEF Complete
<1> HIDE DEF c
<1>2. "name" \in DOMAIN w /\ w.name = given.name
  BY <1>1
<1>3. expanded = [[[w EXCEPT !.adapter = a] EXCEPT !.ref_id = b] EXCEPT !.filters = f]
  BY DEF FromUri
<1> HIDE DEF w
<1>4. "name" \in DOMAIN expanded /\ expanded.name = given.name
  <2> HIDE DEF a, b, f
  <2> QED
    BY <1>2, <1>3
<1>5. Accepted(given) = w \/ Accepted(given) = expanded
  BY DEF Accepted, w, c
<1> QED
  BY <1>2, <1>4, <1>5

LEMMA ResolvedNames ==
    ASSUME NEW given, AreNamed(given), AcceptedWirings(given) # None, NEW entries,
           NEW result \in Resolutions(AcceptedWirings(given), entries), result.error = "no"
    PROVE  NamedOnce(result.wirings)
<1> DEFINE ws == [i \in DOMAIN given |-> Accepted(given[i])]
           places == VirtualPlaces(ws)
           row(order, i) == entries[ws[order[Turn(places, i)]].ref_id]
           resolved(order) ==
            [i \in DOMAIN ws |-> IF i \in places THEN Referenced(ws[i], row(order, i)) ELSE ws[i]]
<1>1. /\ AcceptedWirings(given) = ws
      /\ \A i \in DOMAIN given : Accepted(given[i]) # None
      /\ \A i, k \in DOMAIN given : i # k => given[i].name # given[k].name
  BY DEF AcceptedWirings
<1>2. ASSUME NEW i \in DOMAIN ws
      PROVE  "name" \in DOMAIN ws[i] /\ ws[i].name = given[i].name
  BY <1>1, AcceptedNames DEF AreNamed
<1>3. \/ result.wirings = ws
      \/ \E order : result.wirings = resolved(order)
  <2>1. CASE places = {}
    BY <1>1, <2>1 DEF Resolutions
  <2>2. CASE places # {}
    <3>1. PICK order \in FetchedOrders(ws, DOMAIN entries) :
            result = IF order = <<>> THEN [error |-> "handling"]
                     ELSE IF DOMAIN order # 1..Cardinality(places) THEN [error |-> "raised"]
                     ELSE [error |-> "no", wirings |-> resolved(order)]
      BY <1>1, <2>2 DEF Resolutions
    <3> HIDE DEF resolved, ws, places
    <3> QED
      BY <3>1
  <2> QED
    BY <2>1, <2>2
<1>4. ASSUME NEW i \in DOMAIN ws, NEW entry
      PROVE  Referenced(ws[i], entry).name = given[i].name
  <2> DEFINE w == ws[i]
  <2>1. \A a, b, c, d, e, f :
            [w EXCEPT !.adapter = a, !.ref_id = b, !.ref_key = c, !.ref_id_type = d,
                      !.filters = e, !.attrs = f].name = w.name
    <3> SUFFICES ASSUME NEW a, NEW b, NEW c, NEW d, NEW e, NEW f
                 PROVE  [w EXCEPT !.adapter = a, !.ref_id = b, !.ref_key = c, !.ref_id_type = d,
                                  !.filters = e, !.attrs = f].name = w.name
      OBVIOUS
    <3> HIDE DEF w
    <3>1. "name" \in DOMAIN w
      BY <1>2 DEF w
    <3> QED
      BY <3>1
  <2> QED
    BY <1>2, <2>1 DEF Referenced
<1>5. /\ DOMAIN ws = DOMAIN given
      /\ \A order : /\ DOMAIN resolved(order) = DOMAIN given
                    /\ \A i \in DOMAIN given : resolved(order)[i].name = given[i].name
  BY <1>2, <1>4
<1> HIDE DEF ws, resolved
<1> QED
  BY <1>1, <1>2, <1>3, <1>5 DEF NamedOnce

(* The group at work while an execution sends.                             *)
LEMMA WorkingPlaces ==
    ASSUME DeliveryInv, NEW j \in Jobs, job[j].stage = "send"
    PROVE  /\ CurrentPlace(j) \in AtWork(j)
           /\ \A i \in AtWork(j) : /\ i \in DOMAIN job[j].wirings.out
                                   /\ Wiring(j, i) = job[j].wirings.out[i]
                                   /\ Kind(job[j].wirings.out[i]) = GroupKind(j)
<1> DEFINE r == job[j]
<1>1. IsExecution(r) /\ SendingIsSound(j, r, arrived, posts)
  BY DEF DeliveryInv, Sound
<1>2. r.left \subseteq DOMAIN r.wirings.out /\ DOMAIN r.wirings.out \subseteq Nat
      /\ GroupOf(r, r.left) # {}
  BY <1>1 DEF SendingIsSound, IsExecution
<1>3. WiringsOf(r) = r.wirings.out
  BY DEF WiringsOf
<1>4. AtWork(j) = GroupOf(r, r.left) /\ AtWork(j) \subseteq r.left
      /\ \A i \in AtWork(j) : r.wirings.out[i].adapter = r.group
  BY <1>3 DEF AtWork, GroupOf
<1>5. Min(AtWork(j)) \in AtWork(j)
  BY <1>2, <1>4, LeastNumber
<1> QED
  BY <1>2, <1>3, <1>4, <1>5 DEF CurrentPlace, Wiring, Kind, GroupKind

LEMMA OthersAreNamed ==
    ASSUME DeliveryInv, NEW j \in Jobs, job[j].stage = "send", GroupKind(j) # BlobKey,
           NEW i \in AtWork(j)
    PROVE  NamesOther(job[j], Wiring(j, i).name)
  BY WorkingPlaces DEF NamesOther

(* Requests are made for outputs of the group at work.                     *)
LEMMA GatheredAreGiven ==
    ASSUME NEW ws, Kafka!Gathered(ws).error = "no",
           NEW m \in Kafka!Gathered(ws).messages, NEW w \in m.wirings
    PROVE  \E i \in DOMAIN ws : w = ws[i]
<1> DEFINE Message(group) == [part |-> Kafka!Part(group[CHOOSE k \in DOMAIN group : TRUE]),
                              wirings |-> {group[k] : k \in DOMAIN group}]
           messages == {Message(group) : group \in Kafka!Together(ws)}
<1>1. Kafka!Gathered(ws) = [error |-> "no", messages |-> messages]
  BY DEF Kafka!Gathered, Kafka!Failed
<1>2. PICK group \in Kafka!Together(ws) : m = Message(group)
  <2>1. Kafka!Gathered(ws).messages = messages
    <3> HIDE DEF messages
    <3> QED
      BY <1>1
  <2> QED
    BY <2>1
<1>3. m.wirings = {group[k] : k \in DOMAIN group}
  BY <1>2
<1>4. PICK part : group = [i \in {n \in DOMAIN ws : Kafka!Part(ws[n]) = part} |-> ws[i]]
  BY DEF Kafka!Together
<1> QED
  BY <1>3, <1>4

NamesOfGroup(j, new) ==
    \A p \in new : p.job = j /\ \A n \in p.names : \E i \in AtWork(j) : n = Wiring(j, i).name

LEMMA RestNames ==
    ASSUME NEW j \in Jobs, LaunchRest(j)
    PROVE  \E new : NamesOfGroup(j, new) /\ posts' \subseteq posts \cup new
<1> DEFINE ws == Range(Group(j))
           fitting == {w \in ws : Rest!Fits(w.type, job[j].values[w.name])}
           new == {Post(j, {w.name}, Rest!Place(w), job[j].values[w.name]) :
                    w \in {v \in fitting : Rest!HasEndpoint(v.type)}}
<1>1. ASSUME NEW p \in new
      PROVE  p.job = j /\ \A n \in p.names : \E i \in AtWork(j) : n = Wiring(j, i).name
  <2>1. PICK w \in ws : p = Post(j, {w.name}, Rest!Place(w), job[j].values[w.name])
    OBVIOUS
  <2>2. p.job = j /\ p.names = {w.name}
    <3> DEFINE place == Rest!Place(w)
               value == job[j].values[w.name]
    <3>1. p = Post(j, {w.name}, place, value)
      BY <2>1
    <3> HIDE DEF place, value, new
    <3> QED
      BY <3>1 DEF Post
  <2>3. PICK i \in AtWork(j) : w = Wiring(j, i)
    BY DEF Range, Group
  <2> QED
    BY <2>2, <2>3
<1>2. UNCHANGED posts \/ posts' = posts \cup new
  BY DEF LaunchRest, Launch
<1> HIDE DEF new
<1>3. NamesOfGroup(j, new)
  BY <1>1 DEF NamesOfGroup
<1> QED
  BY <1>2, <1>3

LEMMA KafkaNames ==
    ASSUME NEW j \in Jobs, LaunchKafka(j)
    PROVE  \E new : NamesOfGroup(j, new) /\ posts' \subseteq posts \cup new
<1> DEFINE gathered == Kafka!Gathered(Group(j))
           sent == {m \in gathered.messages : ~Kafka!CreationFails(m)}
           new == {Post(j, {w.name : w \in m.wirings}, m.part,
                        Kafka!Created(m, j, job[j].values)) : m \in sent}
<1>1. ASSUME gathered.error = "no", NEW p \in new
      PROVE  p.job = j /\ \A n \in p.names : \E i \in AtWork(j) : n = Wiring(j, i).name
  <2>1. PICK m \in sent : p = Post(j, {w.name : w \in m.wirings}, m.part,
                                   Kafka!Created(m, j, job[j].values))
    OBVIOUS
  <2>2. p.job = j /\ p.names = {w.name : w \in m.wirings}
    <3> DEFINE place == m.part
               names == {w.name : w \in m.wirings}
               value == Kafka!Created(m, j, job[j].values)
    <3>1. p = Post(j, names, place, value)
      BY <2>1
    <3> HIDE DEF place, value, names, new
    <3>2. p.job = j /\ p.names = names
      BY <3>1 DEF Post
    <3> QED
      BY <3>2 DEF names
  <2>3. ASSUME NEW w \in m.wirings PROVE \E i \in AtWork(j) : w = Wiring(j, i)
    <3>1. PICK i \in DOMAIN Group(j) : w = Group(j)[i]
      BY <1>1, GatheredAreGiven
    <3> QED
      BY <3>1 DEF Group
  <2> HIDE DEF new, sent
  <2> QED
    BY <2>2, <2>3
<1>2. \/ UNCHANGED posts
      \/ gathered.error = "no" /\ posts' = posts \cup new
  BY DEF LaunchKafka, Launch
<1> HIDE DEF new, gathered
<1>3. gathered.error = "no" => NamesOfGroup(j, new)
  BY <1>1 DEF NamesOfGroup
<1>4. NamesOfGroup(j, {})
  BY DEF NamesOfGroup
<1> QED
  BY <1>2, <1>3, <1>4

(* Where the names of requests and of what arrives come from.              *)
InSomePost(j, n) == \E q \in posts : q.job = j /\ n \in q.names

LEMMA NewPosts ==
    ASSUME DeliveryInv, Next, NEW p \in posts', NEW n \in p.names
    PROVE  InSomePost(p.job, n) \/ (p.job \in Jobs /\ NamesOther(job[p.job], n))
<1>1. ASSUME posts' \subseteq posts PROVE InSomePost(p.job, n)
  BY <1>1 DEF InSomePost
<1>2. ASSUME NEW j \in Jobs, LaunchRest(j) \/ LaunchKafka(j)
      PROVE  InSomePost(p.job, n) \/ (p.job \in Jobs /\ NamesOther(job[p.job], n))
  <2>1. PICK new : NamesOfGroup(j, new) /\ posts' \subseteq posts \cup new
    BY <1>2, RestNames, KafkaNames
  <2>2. job[j].stage = "send" /\ GroupKind(j) # BlobKey
    BY <1>2 DEF LaunchRest, LaunchKafka, Sending, BlobKey
  <2>3. CASE p \in new
    BY <2>1, <2>2, <2>3, OthersAreNamed DEF NamesOfGroup
  <2>4. CASE p \in posts
    BY <2>4 DEF InSomePost
  <2> QED
    BY <2>1, <2>3, <2>4
<1>3. ASSUME NEW q \in posts, Arrive(q) PROVE InSomePost(p.job, n)
  <2> DEFINE x == [q EXCEPT !.arrived = TRUE]
  <2>1. posts' = (posts \ {q}) \cup {x}
    BY <1>3 DEF Arrive
  <2>2. x.job = q.job /\ x.names = q.names
    <3>1. {"job", "names"} \subseteq DOMAIN q
      BY DEF DeliveryInv, IsPost
    <3> QED
      BY <3>1
  <2> HIDE DEF x
  <2> QED
    BY <2>1, <2>2 DEF InSomePost
<1>4. ASSUME NEW q \in posts, Answer(q) \/ FailPost(q) \/ Drop(q) PROVE posts' \subseteq posts
  BY <1>4 DEF Answer, FailPost, Drop, AnswerPost
<1>5. ASSUME NEW j \in Jobs, \/ Begin(j) \/ Load(j) \/ LoadRest(j) \/ Receive(j) \/ Run(j)
                             \/ RunFails(j) \/ WriteFails(j) \/ ComponentFails(j)
      PROVE  posts' = posts
  BY <1>5 DEF Begin, Load, LoadRest, Receive, Run, RunFails, WriteFails, ComponentFails
<1>6. ASSUME NEW j \in Jobs, \/ BeginTransaction(j) \/ EndTransaction(j) \/ OpenFile(j)
                             \/ CloseFile(j) \/ HeadObject(j) \/ PutObject(j) \/ Return(j)
                             \/ StartComponents(j) \/ RunComponent(j)
      PROVE  posts' = posts
  BY <1>6 DEF BeginTransaction, EndTransaction, OpenFile, CloseFile, HeadObject, PutObject,
     Return, StartComponents, RunComponent
<1> QED
  BY <1>1, <1>2, <1>3, <1>4, <1>5, <1>6 DEF Next, Advance

(* Outputs that reach something else than the blob storage.                *)
OthersArrive ==
    \A k \in Jobs : \A n : <<k, n>> \in arrived' =>
        <<k, n>> \in arrived \/ NamesOther(job[k], n) \/ InSomePost(k, n)

LEMMA OneArrives ==
    ASSUME DeliveryInv, NEW j \in Jobs, job[j].stage = "send", GroupKind(j) # BlobKey,
           NEW i \in AtWork(j), arrived' = arrived \cup {<<j, Wiring(j, i).name>>}
    PROVE  OthersArrive
<1>1. NamesOther(job[j], Wiring(j, i).name)
  BY OthersAreNamed
<1> QED
  BY <1>1 DEF OthersArrive

LEMMA NewArrivals ==
    ASSUME DeliveryInv, Next
    PROVE  (\E j \in Jobs : PutObject(j)) \/ OthersArrive
<1>1. ASSUME arrived' = arrived PROVE OthersArrive
  BY <1>1 DEF OthersArrive
<1>2. ASSUME NEW j \in Jobs, EndTransaction(j) \/ CloseFile(j) PROVE OthersArrive
  <2>1. /\ job[j].stage = "send" /\ GroupKind(j) # BlobKey
        /\ arrived' = arrived \cup {<<j, Wiring(j, CurrentPlace(j)).name>>}
    BY <1>2 DEF EndTransaction, CloseFile, SqlKey, FileKey, BlobKey, Current
  <2> QED
    BY <2>1, WorkingPlaces, OneArrives
<1>3. ASSUME NEW j \in Jobs, RunComponent(j) PROVE OthersArrive
  <2>1. PICK i \in AtWork(j) :
            /\ GroupKind(j) = ComponentKey
            /\ arrived' = IF job[j].stage = "send" THEN arrived \cup {<<j, Wiring(j, i).name>>}
                          ELSE arrived
    BY <1>3 DEF RunComponent, IsRunning
  <2>2. GroupKind(j) # BlobKey
    BY <2>1 DEF ComponentKey, BlobKey
  <2> QED
    BY <1>1, <2>1, <2>2, OneArrives
<1>4. ASSUME NEW p \in posts, Arrive(p) PROVE OthersArrive
  <2>1. arrived' = arrived \cup {<<p.job, n>> : n \in p.names}
    BY <1>4 DEF Arrive
  <2> QED
    BY <2>1 DEF OthersArrive, InSomePost
<1>5. ASSUME NEW q \in posts, Answer(q) \/ FailPost(q) \/ Drop(q) PROVE arrived' = arrived
  BY <1>5 DEF Answer, FailPost, Drop, AnswerPost
<1>6. ASSUME NEW j \in Jobs, \/ Begin(j) \/ Load(j) \/ LoadRest(j) \/ Receive(j) \/ Run(j)
                             \/ RunFails(j) \/ WriteFails(j) \/ ComponentFails(j)
      PROVE  arrived' = arrived
  BY <1>6 DEF Begin, Load, LoadRest, Receive, Run, RunFails, WriteFails, ComponentFails
<1>7. ASSUME NEW j \in Jobs, \/ BeginTransaction(j) \/ OpenFile(j) \/ HeadObject(j) \/ Return(j)
                             \/ LaunchRest(j) \/ LaunchKafka(j) \/ StartComponents(j)
      PROVE  arrived' = arrived
  BY <1>7 DEF BeginTransaction, OpenFile, HeadObject, Return, LaunchRest, LaunchKafka,
     StartComponents
<1> QED
  BY <1>1, <1>2, <1>3, <1>4, <1>5, <1>6, <1>7 DEF Next, Advance

(* An execution keeps its wirings once it has begun, and its values once   *)
(* it sends.                                                               *)
Remains(r, s) == Stays(r, s) /\ (r.stage # "waiting" => s.wirings = r.wirings)

LEMMA StepsRemain ==
    ASSUME DeliveryInv, Next, NEW k \in Jobs
    PROVE  Remains(job[k], job'[k])
<1>1. DOMAIN job = Jobs
  BY DEF DeliveryInv
<1>2. Remains(job[k], job[k])
  BY DEF Remains, Stays
<1>3. ASSUME NEW j \in Jobs, NEW s, Step(j, s), Remains(job[j], s)
      PROVE  Remains(job[k], job'[k])
  <2>1. job'[k] = IF k = j THEN s ELSE job[k]
    BY <1>1, <1>3 DEF Step
  <2> QED
    BY <1>2, <1>3, <2>1
<1>4. PICK j \in Jobs : Begin(j) \/ HeadObject(j) \/ PutObject(j) \/ Proceeds(j)
  BY StepsProceed
<1>5. CASE Begin(j)
  <2>1. PICK s : Step(j, s)
    BY <1>5, BeginComesTo
  <2>2. Remains(job[j], s)
    BY <1>5 DEF Begin, Remains, Stays
  <2> QED
    BY <1>3, <2>1, <2>2
<1>6. CASE HeadObject(j) \/ PutObject(j)
  <2>1. \/ \E how : Step(j, Failing(job[j], how))
        \/ \E places : Step(j, Without(job[j], places))
        \/ \E what : Step(j, Doing(job[j], what))
    BY <1>6 DEF HeadObject, PutObject, Write, Doing
  <2>2. /\ \A how : Remains(job[j], Failing(job[j], how))
        /\ \A places : Remains(job[j], Without(job[j], places))
        /\ \A what : Remains(job[j], Doing(job[j], what))
    BY ExecutionsAre, FailingContinues, WithoutContinues, WritingFields
    DEF Continues, Remains, Stays
  <2> QED
    BY <1>3, <2>1, <2>2
<1>7. CASE Proceeds(j)
  BY <1>2, <1>3, <1>7 DEF Proceeds, Continues, Remains
<1> QED
  BY <1>4, <1>5, <1>6, <1>7

LEMMA NamesRemain ==
    ASSUME NEW r, NEW s, Remains(r, s), NEW n, NamesOther(r, n)
    PROVE  NamesOther(s, n)
  BY DEF Remains, Stays, NamesOther

(* Under the key an object is to be written under, it will be looked for   *)
(* below its thing node.                                                   *)
LEMMA TargetsAreFound ==
    ASSUME NEW node, NEW mk, NEW suffix, NEW extension, extension \in {"h5", "pkl"},
           NEW by, NEW now,
           Blob!Target(node, mk, suffix, extension, by, now).error = "no"
    PROVE  IsFoundKey(Blob!Target(node, mk, suffix, extension, by, now).key, node, extension)
<1> DEFINE target == Blob!Target(node, mk, suffix, extension, by, now)
           m == Blob!Suffixed(node, mk, suffix)
           key == Blob!KeyOf(node, m, extension)
           next == Blob!Key(node, now, by, extension)
<1>1. extension # None
  BY WiredAssumption
<1>2. key # None => key = Blob!Key(node, m.time, m.job, extension) /\ node.key # <<>>
  BY <1>1 DEF Blob!KeyOf
<1>3. Blob!SinkByMetadataKey(node, m) # None => node \in Blob!SinkNodes
  BY DEF Blob!SinkByMetadataKey
<1>4. \/ target = [error |-> "no", key |-> next] /\ node \in Blob!SinkNodes
      \/ target = [error |-> "no", key |-> key] /\ key # None /\ node \in Blob!ThingNodes
      \/ target = [error |-> "handling"] \/ target = [error |-> "raised"]
  BY <1>3 DEF Blob!Target, Blob!Failed
<1>5. IsKeyOf(target.key, extension)
  BY TargetsAreKeys
<1>6. target.error = "no"
  OBVIOUS
<1> HIDE DEF target, key, next
<1>7. CASE target = [error |-> "no", key |-> next] /\ node \in Blob!SinkNodes
  <2>1. target.key = next
    BY <1>7
  <2>2. target.key.name = node.key
    BY <2>1 DEF next, Blob!Key
  <2>3. node \in Blob!ThingNodes /\ node.key # <<>>
    BY <1>7, HierarchyIsValid DEF Blob!SinkNodes, Blob!ThingNodes
  <2> QED
    BY <1>5, <2>2, <2>3 DEF IsFoundKey, target
<1>8. CASE target = [error |-> "no", key |-> key] /\ key # None /\ node \in Blob!ThingNodes
  <2>1. target.key = key
    BY <1>8
  <2>2. target.key.name = node.key /\ node.key # <<>>
    BY <1>2, <1>8, <2>1 DEF Blob!Key
  <2> QED
    BY <1>5, <1>8, <2>2 DEF IsFoundKey, target
<1> QED
  BY <1>4, <1>6, <1>7, <1>8

(* What is stored, or under way, stays so.                                 *)
LEMMA StoredStays ==
    ASSUME NEW node, NEW value, NEW old, NEW new, IsStored(node, value, old),
           NothingReplaced(old, new)
    PROVE  IsStored(node, value, new)
  BY DEF IsStored, IsStoredAs, NothingReplaced

LEMMA OnItsWayStays ==
    ASSUME NEW r, NEW node, NEW value, NEW old, NEW new, OnItsWay(r, node, value, old),
           r.writing.bucket \in DOMAIN old, NothingReplaced(old, new)
    PROVE  OnItsWay(r, node, value, new)
  BY DEF OnItsWay, NothingReplaced

(* What is named otherwise is none of the blob storage's outputs.          *)
LEMMA NotAnOther ==
    ASSUME NEW r, NamedOnce(r.wirings.out), NEW i \in DOMAIN r.wirings.out,
           Kind(r.wirings.out[i]) = BlobKey
    PROVE  ~ NamesOther(r, r.wirings.out[i].name)
  BY DEF NamedOnce, NamesOther

LEMMA LastsAfter ==
    ASSUME NEW j, NEW r, NEW s, NEW reached, NEW more, NEW old, NEW new,
           Lasts(j, r, reached, old), s.wirings = r.wirings, Stays(r, s),
           NothingReplaced(old, new),
           \A n : <<j, n>> \in more => <<j, n>> \in reached \/ NamesOther(r, n),
           IsWritingObject(s) => OnItsWay(s, NodeOf(s), ValueOf(s), new)
    PROVE  Lasts(j, s, more, new)
<1>1. NamedOnce(s.wirings.out)
  BY DEF Lasts
<1>2. ASSUME NEW n, <<j, n>> \in more PROVE r.stage \in {"send", "done"}
  BY <1>2 DEF Lasts, NamesOther
<1>3. ASSUME NEW i \in DOMAIN s.wirings.out, Kind(s.wirings.out[i]) = BlobKey,
             <<j, s.wirings.out[i].name>> \in more
      PROVE  IsStored(s.wirings.out[i].ref_id, s.values[s.wirings.out[i].name], new)
  <2>1. <<j, r.wirings.out[i].name>> \in reached
    BY <1>3, NotAnOther DEF Lasts
  <2>2. s.values = r.values
    BY <1>2, <1>3 DEF Stays
  <2>3. IsStored(r.wirings.out[i].ref_id, r.values[r.wirings.out[i].name], old)
    BY <1>3, <2>1 DEF Lasts, ReachedIsStored
  <2> QED
    BY <2>2, <2>3, StoredStays
<1>4. \A n : <<j, n>> \in more => s.stage \in {"send", "done"}
  BY <1>2 DEF Stays
<1>5. ReachedIsStored(j, s, more, new)
  BY <1>3 DEF ReachedIsStored
<1> QED
  BY <1>1, <1>4, <1>5 DEF Lasts

LEMMA HeadIsOnItsWay ==
    ASSUME DeliveryInv, NEW j \in Jobs, HeadObject(j)
    PROVE  \E s : /\ Step(j, s) /\ s.wirings = job[j].wirings /\ Stays(job[j], s)
                  /\ IsWritingObject(s) =>
                        /\ s.stage = "send" /\ IsPlace(s.writing)
                        /\ OnItsWay(s, NodeOf(s), ValueOf(s), objects')
<1> DEFINE w == Current(j)
           suffix == IF "object_key_suffix" \in DOMAIN w.filters THEN w.filters.object_key_suffix
                     ELSE None
           extension == Blob!ExtensionOf(CurrentValue(j))
           target == Blob!Target(w.ref_id, w.ref_key, suffix, extension, j, Task(j).time)
           what == [bucket |-> w.ref_id.bucket, key |-> target.key, part |-> "object"]
           r == job[j]
           s == Doing(r, what)
<1>1. IsExecution(r) /\ r.stage = "send"
  BY ExecutionsAre DEF HeadObject, Sending
<1>2. \/ \E how : Step(j, Failing(r, how))
      \/ target.error = "no" /\ Step(j, s)
  BY DEF HeadObject, Write, Doing
<1>3. \A how : Failing(r, how).wirings = r.wirings /\ Stays(r, Failing(r, how))
               /\ ~ IsWritingObject(Failing(r, how))
  BY <1>1, FailingContinues DEF Continues
<1>4. what.bucket = w.ref_id.bucket /\ what.key = target.key /\ what.part = "object"
      /\ IsPlace(what)
  BY DEF IsPlace
<1>5. extension \in {"h5", "pkl"}
  BY DEF Blob!ExtensionOf
<1>6. target.error = "no" => IsFoundKey(target.key, w.ref_id, extension)
  BY <1>5, TargetsAreFound
<1>7. NodeOf(r) = w.ref_id /\ ValueOf(r) = CurrentValue(j)
  BY ValueIsCurrent DEF NodeOf, Current, Wiring, CurrentPlace, AtWork
<1> HIDE DEF what, target, extension
<1>8. /\ s.stage = r.stage /\ s.wirings = r.wirings /\ s.group = r.group
      /\ s.left = r.left /\ s.values = r.values /\ s.writing = what
  BY <1>1, WritingFields
<1>9. NodeOf(s) = w.ref_id /\ ValueOf(s) = CurrentValue(j)
  <2> HIDE DEF s
  <2> QED
    BY <1>7, <1>8 DEF NodeOf, ValueOf, WiringsOf, GroupOf
<1>10. target.error = "no" => OnItsWay(s, NodeOf(s), ValueOf(s), objects')
  <2> HIDE DEF s
  <2> QED
    BY <1>4, <1>6, <1>8, <1>9 DEF OnItsWay, extension
<1>11. Stays(r, s)
  BY <1>8 DEF Stays
<1> QED
  BY <1>1, <1>2, <1>3, <1>4, <1>8, <1>10, <1>11

(* The object of an output lies where it goes.                             *)
LEMMA PutStores ==
    ASSUME DeliveryInv, ObjectsInv, StoredInv, ObjectsStep, NEW j \in Jobs, PutObject(j)
    PROVE  Lasts(j, job'[j], arrived', objects')
<1> DEFINE r == job[j]
           w == r.writing
           value == CurrentValue(j)
           node == NodeOf(r)
           key == PutKey(r)
           second == w.part = "object" /\ Blob!HasCustomObjects(value)
           new == Blob!Put(objects, w.bucket, key, value)
           next == [w EXCEPT !.part = "custom objects"]
<1>1. /\ r.stage = "send" /\ IsExecution(r) /\ IsWritingObject(r) /\ DOMAIN job = Jobs
      /\ Lasts(j, r, arrived, objects) /\ NothingReplaced(objects, objects')
  BY ExecutionsAre DEF PutObject, IsWritingObject, GroupKind, StoredInv, ObjectsStep, DeliveryInv
<1>2. CustomObjectsHaveModels(objects) /\ PlaceIsFree(r, value, objects) /\ ValueOf(r) = value
  BY <1>1, ValueIsCurrent DEF ObjectsInv
<1>3. OnItsWay(r, node, value, objects)
  BY <1>1, <1>2 DEF Lasts
<1>4. /\ objects' = new
      /\ \/ second /\ Step(j, Doing(r, next)) /\ arrived' = arrived
         \/ /\ ~ second /\ arrived' = arrived \cup {<<j, Current(j).name>>}
            /\ \E places : Step(j, Without(r, places))
  BY DEF PutObject, Write, Doing, PutKey
<1>5. w.bucket \in DOMAIN objects /\ w = [bucket |-> w.bucket, key |-> w.key, part |-> w.part]
  BY <1>2 DEF PlaceIsFree
<1>6. /\ key \notin DOMAIN objects[w.bucket]
      /\ key.extension # "custom_objects_pkl" \/ ModelKey(key) \in DOMAIN objects[w.bucket]
  BY <1>2, PlacesAreFree
<1> HIDE DEF key
<1>7. /\ DOMAIN new = DOMAIN objects /\ DOMAIN new[w.bucket] = DOMAIN objects[w.bucket] \cup {key}
      /\ new[w.bucket][key] = value
  BY <1>2, <1>5, <1>6, PutKeeps
<1> HIDE DEF new
<1>8. w.bucket = node.bucket /\ IsFoundKey(w.key, node, Blob!ExtensionOf(value))
  BY <1>3 DEF OnItsWay
<1>9. /\ w.part \in {"object", "custom objects"}
      /\ w.part = "object" => key = w.key
      /\ w.part = "custom objects" => key = Blob!CustomObjectsKey(w.key)
  BY <1>2 DEF PlaceIsFree, PutKey, key
<1>10. w.key \in DOMAIN new[w.bucket] /\ new[w.bucket][w.key] = value
  <2>1. CASE w.part = "object"
    BY <1>7, <1>9, <2>1
  <2>2. CASE w.part = "custom objects"
    <3>1. w.key \in DOMAIN objects[w.bucket] /\ objects[w.bucket][w.key] = value
      BY <1>3, <2>2 DEF OnItsWay
    <3> QED
      BY <1>1, <1>4, <1>5, <3>1 DEF NothingReplaced
  <2> QED
    BY <1>9, <2>1, <2>2
<1>11. CASE second /\ Step(j, Doing(r, next)) /\ arrived' = arrived
  <2> DEFINE s == Doing(r, next)
  <2>1. next = [bucket |-> w.bucket, key |-> w.key, part |-> "custom objects"]
    BY <1>5, PartChanges
  <2>2. next.bucket = w.bucket /\ next.key = w.key
    BY <2>1
  <2> HIDE DEF next
  <2>3. /\ s.stage = r.stage /\ s.wirings = r.wirings /\ s.group = r.group
        /\ s.left = r.left /\ s.values = r.values /\ s.writing = next
    BY <1>1, WritingFields
  <2>4. job'[j] = s
    BY <1>1, <1>11 DEF Step
  <2> HIDE DEF s
  <2>5. NodeOf(s) = node /\ ValueOf(s) = value /\ Stays(r, s)
    BY <1>2, <2>3 DEF NodeOf, ValueOf, WiringsOf, GroupOf, Stays
  <2>6. OnItsWay(s, NodeOf(s), ValueOf(s), objects')
    BY <1>4, <1>8, <1>10, <2>2, <2>3, <2>5 DEF OnItsWay
  <2>7. Lasts(j, s, arrived', objects')
    BY <1>1, <1>11, <2>3, <2>5, <2>6, LastsAfter
  <2> QED
    BY <2>4, <2>7
<1>12. ASSUME ~ second, NEW places, Step(j, Without(r, places)),
              arrived' = arrived \cup {<<j, Current(j).name>>}
       PROVE  Lasts(j, job'[j], arrived', objects')
  <2> DEFINE s == Without(r, places)
             c == CurrentPlace(j)
  <2>1. s.wirings = r.wirings /\ Stays(r, s) /\ ~ IsWritingObject(s)
    BY <1>1, WithoutContinues DEF Continues
  <2>2. job'[j] = s
    BY <1>1, <1>12 DEF Step
  <2> HIDE DEF s
  <2>3. c \in DOMAIN r.wirings.out /\ Current(j) = r.wirings.out[c] /\ Kind(Current(j)) = BlobKey
    BY <1>1, WorkingPlaces DEF Current, IsWritingObject, GroupKind
  <2>4. node = Current(j).ref_id /\ value = r.values[Current(j).name]
    BY DEF NodeOf, Current, Wiring, CurrentPlace, AtWork, CurrentValue
  <2>5. IsStored(node, value, objects')
    <3>1. Blob!HasCustomObjects(value) => Blob!CustomObjectsKey(w.key) \in DOMAIN new[w.bucket]
      BY <1>7, <1>9, <1>12
    <3>2. IsStoredAs(w.key, node, value, objects')
      BY <1>4, <1>5, <1>7, <1>8, <1>10, <3>1 DEF IsStoredAs
    <3> QED
      BY <3>2 DEF IsStored
  <2>6. /\ NamedOnce(r.wirings.out) /\ ReachedIsStored(j, r, arrived, objects)
        /\ \A n : <<j, n>> \in arrived => r.stage \in {"send", "done"}
    BY <1>1 DEF Lasts
  <2>7. s.values = r.values /\ s.stage \in {"send", "done"}
    BY <1>1, <2>1 DEF Stays
  <2>8. ASSUME NEW i \in DOMAIN s.wirings.out, Kind(s.wirings.out[i]) = BlobKey,
               <<j, s.wirings.out[i].name>> \in arrived'
        PROVE  IsStored(s.wirings.out[i].ref_id, s.values[s.wirings.out[i].name], objects')
    <3> DEFINE x == r.wirings.out[i]
    <3>1. CASE <<j, x.name>> \in arrived
      <4>1. IsStored(x.ref_id, r.values[x.name], objects)
        BY <2>1, <2>6, <2>8, <3>1 DEF ReachedIsStored
      <4> QED
        BY <1>1, <2>1, <2>7, <4>1, StoredStays
    <3>2. CASE x.name = Current(j).name
      <4>1. i = c
        BY <2>1, <2>3, <2>6, <2>8, <3>2 DEF NamedOnce
      <4> QED
        BY <2>1, <2>3, <2>4, <2>5, <2>7, <4>1
    <3> QED
      BY <1>12, <2>1, <2>8, <3>1, <3>2
  <2>9. ReachedIsStored(j, s, arrived', objects')
    BY <2>8 DEF ReachedIsStored
  <2> QED
    BY <2>1, <2>2, <2>6, <2>7, <2>9 DEF Lasts
<1> QED
  BY <1>4, <1>11, <1>12

LEMMA BeginLasts ==
    ASSUME DeliveryInv, ObjectsInv, StoredInv, NEW j \in Jobs, Begin(j)
    PROVE  Lasts(j, job'[j], arrived', objects')
<1> DEFINE outs == AcceptedWirings(Task(j).outputs)
           r == job[j]
<1>1. /\ DOMAIN job = Jobs /\ arrived' = arrived /\ r.stage = "waiting"
      /\ AreNamed(Task(j).outputs) /\ Lasts(j, r, arrived, objects)
  BY WiredAssumption DEF Begin, DeliveryInv, Jobs, Task, StoredInv
<1>2. ~ IsWritingObject(r)
  BY <1>1 DEF ObjectsInv
<1>3. PICK s : /\ Step(j, s)
               /\ IsWritingObject(s) => IsWritingObject(r)
               /\ \/ s.wirings = r.wirings
                  \/ /\ outs # None
                     /\ \E out \in Resolutions(outs, setup.entries) :
                            out.error = "no" /\ s.wirings.out = out.wirings
  BY BeginComesTo
<1>4. job'[j] = s
  BY <1>1, <1>3 DEF Step
<1>5. NamedOnce(s.wirings.out)
  BY <1>1, <1>3, ResolvedNames DEF Lasts
<1>6. \A n : <<j, n>> \notin arrived'
  BY <1>1 DEF Lasts
<1> QED
  BY <1>2, <1>3, <1>4, <1>5, <1>6 DEF Lasts, ReachedIsStored

(* Executions that take no part in a step.                                 *)
LEMMA OthersLast ==
    ASSUME ObjectsInv, StoredInv, ObjectsStep, NEW k \in Jobs, job'[k] = job[k],
           \A n : <<k, n>> \in arrived' => <<k, n>> \in arrived \/ NamesOther(job[k], n)
    PROVE  Lasts(k, job'[k], arrived', objects')
<1> DEFINE r == job[k]
<1>1. Lasts(k, r, arrived, objects) /\ NothingReplaced(objects, objects')
  BY DEF StoredInv, ObjectsStep
<1>2. Stays(r, r)
  BY DEF Stays
<1>3. ASSUME IsWritingObject(r) PROVE OnItsWay(r, NodeOf(r), ValueOf(r), objects')
  <2>1. r.writing.bucket \in DOMAIN objects
    BY <1>3 DEF ObjectsInv, PlaceIsFree
  <2> QED
    BY <1>1, <1>3, <2>1, OnItsWayStays DEF Lasts
<1> HIDE DEF r
<1>4. Lasts(k, r, arrived', objects')
  BY <1>1, <1>2, <1>3, LastsAfter DEF r
<1> QED
  BY <1>4 DEF r

LEMMA NextLasts ==
    ASSUME DeliveryInv, ObjectsInv, StoredInv, ObjectsStep, Next, NEW k \in Jobs
    PROVE  Lasts(k, job'[k], arrived', objects')
<1>1. DOMAIN job = Jobs
  BY DEF DeliveryInv
<1>2. CASE \E j \in Jobs : PutObject(j)
  <2>1. PICK j \in Jobs : PutObject(j)
    BY <1>2
  <2>2. CASE k = j
    BY <2>1, <2>2, PutStores
  <2>3. CASE k # j
    <3>1. job'[k] = job[k]
      BY <1>1, <2>1, <2>3 DEF PutObject, Write, Step
    <3>2. arrived' \subseteq arrived \cup {<<j, Current(j).name>>}
      BY <2>1 DEF PutObject
    <3>3. \A n : <<k, n>> \in arrived' => <<k, n>> \in arrived
      BY <2>3, <3>2
    <3> QED
      BY <3>1, <3>3, OthersLast
  <2> QED
    BY <2>2, <2>3
<1>3. CASE ~ \E j \in Jobs : PutObject(j)
  <2>1. \A i \in Jobs : \A n :
            <<i, n>> \in arrived' => <<i, n>> \in arrived \/ NamesOther(job[i], n)
    BY <1>3, NewArrivals DEF OthersArrive, InSomePost, StoredInv
  <2>2. PICK j \in Jobs : Begin(j) \/ HeadObject(j) \/ Proceeds(j)
    BY <1>3, StepsProceed
  <2>3. ASSUME NEW s, Step(j, s), k # j PROVE Lasts(k, job'[k], arrived', objects')
    <3>1. job'[k] = job[k]
      BY <1>1, <2>3 DEF Step
    <3> QED
      BY <2>1, <3>1, OthersLast
  <2>4. CASE Begin(j)
    BY <2>3, <2>4, BeginComesTo, BeginLasts
  <2>5. ASSUME NEW s, Step(j, s), s.wirings = job[j].wirings, Stays(job[j], s),
               IsWritingObject(s) => OnItsWay(s, NodeOf(s), ValueOf(s), objects')
        PROVE  Lasts(k, job'[k], arrived', objects')
    <3>1. CASE k = j
      <4>1. job'[j] = s
        BY <1>1, <2>5 DEF Step
      <4>2. Lasts(j, job[j], arrived, objects) /\ NothingReplaced(objects, objects')
        BY DEF StoredInv, ObjectsStep
      <4>3. Lasts(j, s, arrived', objects')
        BY <2>1, <2>5, <4>2, LastsAfter
      <4> QED
        BY <3>1, <4>1, <4>3
    <3> QED
      BY <2>3, <2>5, <3>1
  <2>6. CASE HeadObject(j)
    BY <2>5, <2>6, HeadIsOnItsWay
  <2>7. CASE UNCHANGED job
    BY <2>1, <2>7, OthersLast
  <2>8. CASE \E s : Step(j, s) /\ Continues(job[j], s)
    BY <2>5, <2>8 DEF Continues
  <2> QED
    BY <2>2, <2>4, <2>6, <2>7, <2>8 DEF Proceeds
<1> QED
  BY <1>2, <1>3

LEMMA NextStored ==
    ASSUME DeliveryInv, ObjectsInv, StoredInv, ObjectsStep, Next
    PROVE  StoredInv'
<1>1. Jobs' = Jobs
  BY StepsProceed DEF Jobs
<1>2. \A k \in Jobs : Lasts(k, job[k], arrived, objects)'
  BY NextLasts
<1>3. ASSUME NEW p \in posts', NEW n \in p.names PROVE NamesOther(job'[p.job], n)
  <2>1. InSomePost(p.job, n) \/ (p.job \in Jobs /\ NamesOther(job[p.job], n))
    BY <1>3, NewPosts
  <2>2. p.job \in Jobs /\ NamesOther(job[p.job], n)
    BY <2>1 DEF InSomePost, StoredInv, DeliveryInv, IsPost
  <2> QED
    BY <2>2, StepsRemain, NamesRemain
<1>4. \A p \in posts' : \A n \in p.names : NamesOther(job[p.job], n)'
  BY <1>3
<1> QED
  BY <1>1, <1>2, <1>4 DEF StoredInv

-----------------------------------------------------------------------------
(* Loading what is stored.                                                 *)

(* None is no thing node, no key, no source and no file.                   *)
NoneIsNoRecord ==
    \A r : DOMAIN r \in {{"bucket", "key"}, {"name", "time", "job", "extension"},
                         {"id", "node", "metadataKey"}, {"path", "writable", "loadable"}} => r # None

(* The first page of list_objects_v2 holds all keys of a bucket.           *)
BucketsAreListed == \A b \in DOMAIN objects : Blob!KeysIn(objects, b) = DOMAIN objects[b]

IsProper(key) ==
    /\ key = [name |-> key.name, time |-> key.time, job |-> key.job, extension |-> key.extension]
    /\ key.name # <<>> /\ key.extension \in Blob!Extensions

(* The metadata key of an object is read as the object's key.              *)
LEMMA KeysAreRead ==
    ASSUME NEW key, IsProper(key), NEW node \in Blob!ThingNodes, key.name = node.key
    PROVE  Blob!KeyOf(node, Blob!MetadataKey(key), None) = key
<1> DEFINE mk == Blob!MetadataKey(key)
<1>1. mk = [name |-> Blob!LastName(node), time |-> key.time, job |-> key.job, extension |-> key.extension]
  BY DEF Blob!MetadataKey, Blob!LastName
<1>2. /\ mk.name = Blob!LastName(node) /\ mk.time = key.time /\ mk.job = key.job
      /\ mk.extension = key.extension /\ Blob!IsKey(mk)
  BY <1>1 DEF Blob!IsKey
<1>3. mk.name \in Ends[Blob!LastName(node)]
  BY <1>2, HierarchyIsValid DEF IsProper
<1>4. Blob!Key(node, mk.time, mk.job, key.extension) = key
  BY <1>2, Zenon DEF Blob!Key, IsProper
<1> HIDE DEF mk
<1>5. Blob!KeyOf(node, mk, None) = key
  BY <1>2, <1>3, <1>4 DEF Blob!KeyOf, IsProper
<1> QED
  BY <1>5 DEF mk

LEMMA StoredIsLoaded ==
    ASSUME NoneIsNoRecord, NEW buckets, NEW node, NEW value, IsStored(node, value, buckets),
           Blob!KeysIn(buckets, node.bucket) = DOMAIN buckets[node.bucket]
    PROVE  \E s \in Blob!SourcesBelow(buckets, node) :
              Blob!LoadBlob(buckets, node, s.metadataKey) = [error |-> "no", frame |-> value]
<1>1. PICK key : IsStoredAs(key, node, value, buckets)
  BY DEF IsStored
<1> DEFINE b == node.bucket
           e == Blob!ExtensionOf(value)
           mk == Blob!MetadataKey(key)
           s == Blob!SourceOf(b, key)
<1>2. /\ node \in Blob!ThingNodes /\ node.key # <<>> /\ key.name = node.key
      /\ key = [name |-> key.name, time |-> key.time, job |-> key.job, extension |-> e]
      /\ key \in DOMAIN buckets[b] /\ buckets[b][key] = value
      /\ Blob!HasCustomObjects(value) => Blob!CustomObjectsKey(key) \in DOMAIN buckets[b]
  BY <1>1 DEF IsStoredAs, IsFoundKey, IsKeyOf
<1>3. key.extension = e /\ Blob!IsKey(key)
  BY <1>2 DEF Blob!IsKey
<1>4. e \in {"h5", "pkl"} /\ (e = "h5" => HasTensorflow)
      /\ (e = "h5" /\ value.custom # None => Blob!HasCustomObjects(value))
  BY DEF Blob!ExtensionOf, Blob!HasCustomObjects
<1>5. node = [bucket |-> b, key |-> node.key]
  <2>1. PICK p \in HierarchyNodes : node = Blob!NodeId(p)
    BY <1>2 DEF Blob!ThingNodes
  <2>2. \E x, y : node = [bucket |-> x, key |-> y]
    BY <2>1, Zenon DEF Blob!NodeId
  <2> QED
    BY <2>2
<1>6. /\ s.id = [bucket |-> b, key |-> key] /\ s.metadataKey = mk
      /\ s.node = [bucket |-> b, key |-> key.name] /\ DOMAIN s = {"id", "node", "metadataKey"}
  BY DEF Blob!SourceOf
<1>7. /\ mk.name = Blob!LastName(node) /\ mk.time = key.time /\ mk.job = key.job
      /\ mk.extension = e /\ Blob!IsKey(mk)
  BY <1>2, <1>3 DEF Blob!MetadataKey, Blob!LastName, Blob!IsKey
<1> HIDE DEF s, mk, e
<1>8. s \in Blob!SourcesBelow(buckets, node)
  BY <1>2, <1>3, <1>5, <1>6 DEF Blob!SourcesBelow, Blob!SourcesIn, s
<1>9. node # None /\ mk # None /\ key # None /\ s # None
  BY <1>3, <1>5, <1>6, <1>7 DEF NoneIsNoRecord, Blob!IsKey
<1>10. Blob!KeyOf(node, mk, None) = key
  BY <1>2, <1>3, <1>4, KeysAreRead DEF IsProper, Blob!Extensions, mk
<1>11. Blob!SourceByMetadataKey(buckets, node, mk) = s
  BY <1>2, <1>9, <1>10 DEF Blob!SourceByMetadataKey, s
<1>12. s.id.key = key
  BY <1>6
<1>13. Blob!LoadBlob(buckets, node, mk) = [error |-> "no", frame |-> value]
  BY <1>2, <1>3, <1>4, <1>9, <1>11, <1>12 DEF Blob!LoadBlob
<1> QED
  BY <1>6, <1>8, <1>13

(* What an execution answered with ok has written to the blob storage is   *)
(* found again below its thing node and loads as it was written: the keys  *)
(* write_blob.py makes are those load_blob.py and structure.py take apart, *)
(* and later writes leave the object alone.  It is so for any hierarchy,   *)
(* executions and failures, as long as all keys of a bucket are on the     *)
(* first page listed and processes do not write one object at a time.      *)
THEOREM WrittenIsLoaded ==
    ASSUME NoneIsNoRecord
    PROVE  /\ Spec /\ CustomObjectsHaveModels(objects)
           /\ []ProcessesKeepApart /\ []BucketsAreListed
           => []WrittenObjectsCanBeLoaded
<1>1. Init => StoredInv
  <2> SUFFICES ASSUME Init PROVE StoredInv
    OBVIOUS
  <2>1. posts = {} /\ arrived = {}
        /\ \A k \in Jobs : job[k].writing = None /\ job[k].wirings.out = <<>>
    BY DEF Init, Idle
  <2>2. \A k \in Jobs : Lasts(k, job[k], arrived, objects)
    BY <2>1 DEF Lasts, NamedOnce, ReachedIsStored, IsWritingObject
  <2> QED
    BY <2>1, <2>2 DEF StoredInv
<1>2. DeliveryInv /\ ObjectsInv /\ StoredInv /\ ProcessesKeepApart' /\ [Next]_vars
        => ObjectsInv' /\ StoredInv'
  <2>1. ASSUME StoredInv, UNCHANGED vars PROVE StoredInv'
    <3>1. objects' = objects /\ job' = job /\ posts' = posts /\ arrived' = arrived /\ Jobs' = Jobs
      BY <2>1 DEF vars, stores, Jobs
    <3>2. \A k \in Jobs : Lasts(k, job[k], arrived, objects)'
      BY <2>1, <3>1 DEF StoredInv
    <3>3. \A p \in posts' : \A n \in p.names : NamesOther(job[p.job], n)'
      BY <2>1, <3>1 DEF StoredInv
    <3> QED
      BY <3>1, <3>2, <3>3 DEF StoredInv
  <2> QED
    BY <2>1, ObjectsStepHolds, NextStored DEF ObjectsStep
<1>3. DeliveryInv /\ StoredInv /\ BucketsAreListed => WrittenObjectsCanBeLoaded
  <2> SUFFICES ASSUME DeliveryInv, StoredInv, BucketsAreListed, NEW j \in Jobs,
                      job[j].answer = "ok", NEW w \in Outputs(j), Kind(w) = BlobKey
               PROVE  \E s \in Blob!SourcesBelow(objects, w.ref_id) :
                        Blob!LoadBlob(objects, w.ref_id, s.metadataKey)
                            = [error |-> "no", frame |-> job[j].values[w.name]]
    BY DEF WrittenObjectsCanBeLoaded
  <2>1. PICK i \in DOMAIN job[j].wirings.out : w = job[j].wirings.out[i]
    BY DEF Outputs, ToSet
  <2>2. Delivered(j, w, arrived)
    BY <2>1 DEF DeliveryInv, Sound, OkIsDelivered, OthersDelivered
  <2>3. <<j, w.name>> \in arrived
    BY <2>2 DEF Delivered, NoEndpoint, BlobKey
  <2>4. IsStored(w.ref_id, job[j].values[w.name], objects)
    BY <2>1, <2>3 DEF StoredInv, Lasts, ReachedIsStored
  <2>5. Blob!KeysIn(objects, w.ref_id.bucket) = DOMAIN objects[w.ref_id.bucket]
    BY <2>4 DEF IsStored, IsStoredAs, BucketsAreListed
  <2> QED
    BY <2>4, <2>5, StoredIsLoaded
<1>4. QED
  BY <1>1, <1>2, <1>3, InitKeepsObjects, DeliveryInvHolds, PTL DEF Spec

-----------------------------------------------------------------------------
(* What is offered is found.  Keys in the buckets, and those about to be,  *)
(* have a name and an extension of ours.                                   *)

KeysAreProper(buckets) ==
    \A b \in DOMAIN buckets : \A k \in DOMAIN buckets[b] : Blob!IsKey(k) => IsProper(k)

KeysInv ==
    /\ KeysAreProper(objects)
    /\ \A j \in Jobs : IsWritingObject(job[j]) =>
            job[j].stage = "send" /\ IsPlace(job[j].writing) /\ IsProper(job[j].writing.key)

LEMMA CustomKeysAreProper ==
    ASSUME NEW key, IsProper(key)
    PROVE  IsProper(Blob!CustomObjectsKey(key))
<1> DEFINE Made(n, t, j, e) == [name |-> n, time |-> t, job |-> j, extension |-> e]
           custom == Made(key.name, key.time, key.job, "custom_objects_pkl")
<1>1. \A n, t, j, e : Blob!CustomObjectsKey(Made(n, t, j, e)) = Made(n, t, j, "custom_objects_pkl")
  BY DEF Blob!CustomObjectsKey
<1>2. key = Made(key.name, key.time, key.job, key.extension)
  BY DEF IsProper
<1>3. IsProper(custom)
  BY DEF IsProper, Blob!Extensions
<1>4. Blob!CustomObjectsKey(Made(key.name, key.time, key.job, key.extension)) = custom
  BY <1>1
<1> HIDE DEF Made, custom
<1>5. Blob!CustomObjectsKey(key) = custom
  BY <1>2, <1>4, Zenon
<1> QED
  BY <1>3, <1>5

LEMMA FoundKeysAreProper ==
    ASSUME NEW key, NEW node, NEW extension \in {"h5", "pkl"}, IsFoundKey(key, node, extension)
    PROVE  IsProper(key)
  BY DEF IsFoundKey, IsKeyOf, IsProper, Blob!Extensions

LEMMA PutIsProper ==
    ASSUME NEW old, KeysAreProper(old), NEW b, NEW key, IsProper(key), NEW content
    PROVE  KeysAreProper(Blob!Put(old, b, key, content))
<1> DEFINE bucket == [k \in DOMAIN old[b] \cup {key} |-> IF k = key THEN content ELSE old[b][k]]
           new == Blob!Put(old, b, key, content)
<1>1. new = [old EXCEPT ![b] = bucket]
  BY Zenon DEF Blob!Put
<1>2. DOMAIN bucket = DOMAIN old[b] \cup {key}
  OBVIOUS
<1> HIDE DEF bucket, new
<1>3. DOMAIN new = DOMAIN old /\ \A x \in DOMAIN old : new[x] = IF x = b THEN bucket ELSE old[x]
  BY <1>1
<1>4. KeysAreProper(new)
  BY <1>2, <1>3 DEF KeysAreProper
<1> QED
  BY <1>4 DEF new

LEMMA HeadKeepsKeys ==
    ASSUME KeysInv, NEW j \in Jobs, HeadObject(j)
    PROVE  KeysAreProper(objects')
<1> DEFINE b == Current(j).ref_id.bucket
           more == [x \in DOMAIN objects \cup {b} |-> IF x = b THEN <<>> ELSE objects[x]]
<1>1. objects' = objects \/ (objects' = Blob!WithBucket(objects, b) /\ objects' # None)
  BY DEF HeadObject
<1>2. objects' = objects \/ objects' = more
  BY <1>1 DEF Blob!WithBucket
<1>3. /\ DOMAIN more = DOMAIN objects \cup {b} /\ DOMAIN more[b] = {}
      /\ \A x \in DOMAIN objects \ {b} : more[x] = objects[x]
  OBVIOUS
<1> HIDE DEF more
<1> QED
  BY <1>2, <1>3 DEF KeysInv, KeysAreProper

LEMMA NextKeepsKeys ==
    ASSUME DeliveryInv, KeysInv, Next
    PROVE  KeysInv'
<1> DEFINE Fine(s) == IsWritingObject(s) =>
                        s.stage = "send" /\ IsPlace(s.writing) /\ IsProper(s.writing.key)
<1>1. Jobs' = Jobs /\ DOMAIN job = Jobs /\ \A k \in Jobs : Fine(job[k])
  BY StepsProceed DEF Jobs, DeliveryInv, KeysInv
<1>2. KeysAreProper(objects') /\ (UNCHANGED job \/ \E j \in Jobs : \E s : Step(j, s) /\ Fine(s))
  <2>1. PICK j \in Jobs : \/ Begin(j) \/ HeadObject(j) \/ PutObject(j)
                          \/ objects' = objects /\ Proceeds(j)
    BY StepsProceed
  <2>2. CASE Begin(j)
    <3>1. ~ IsWritingObject(job[j]) /\ objects' = objects
      BY <1>1, <2>2 DEF Begin, stores
    <3>2. PICK s : Step(j, s) /\ (IsWritingObject(s) => IsWritingObject(job[j]))
      BY <2>2, BeginComesTo
    <3> QED
      BY <3>1, <3>2 DEF KeysInv
  <2>3. CASE HeadObject(j)
    <3>1. PICK s : /\ Step(j, s)
                   /\ IsWritingObject(s) => /\ s.stage = "send" /\ IsPlace(s.writing)
                                            /\ OnItsWay(s, NodeOf(s), ValueOf(s), objects')
      BY <2>3, HeadIsOnItsWay
    <3>2. IsWritingObject(s) => IsProper(s.writing.key)
      BY <3>1, FoundKeysAreProper, WrittenExtensions DEF OnItsWay
    <3> QED
      BY <2>3, <3>1, <3>2, HeadKeepsKeys
  <2>4. CASE PutObject(j)
    <3> DEFINE r == job[j]
               w == r.writing
               next == [w EXCEPT !.part = "custom objects"]
    <3>1. IsExecution(r) /\ r.stage = "send" /\ IsWritingObject(r)
      BY <2>4, ExecutionsAre DEF PutObject, IsWritingObject, GroupKind
    <3>2. IsPlace(w) /\ IsProper(w.key) /\ IsProper(PutKey(r))
      BY <1>1, <3>1, CustomKeysAreProper DEF PutKey
    <3>3. /\ objects' = Blob!Put(objects, w.bucket, PutKey(r), CurrentValue(j))
          /\ Step(j, Doing(r, next)) \/ \E places : Step(j, Without(r, places))
      BY <2>4 DEF PutObject, Write, Doing, PutKey
    <3>4. next = [bucket |-> w.bucket, key |-> w.key, part |-> "custom objects"]
      BY <3>2, PartChanges DEF IsPlace
    <3>5. IsPlace(next) /\ next.key = w.key
      BY <3>4 DEF IsPlace
    <3> HIDE DEF next
    <3>6. Fine(Doing(r, next)) /\ \A places : Fine(Without(r, places))
      BY <3>1, <3>2, <3>5, WritingFields, WithoutContinues DEF Continues
    <3>7. KeysAreProper(objects')
      BY <3>2, <3>3, PutIsProper DEF KeysInv
    <3> QED
      BY <3>3, <3>6, <3>7
  <2>5. CASE objects' = objects /\ Proceeds(j)
    BY <2>5 DEF KeysInv, Proceeds, Continues
  <2> QED
    BY <2>1, <2>2, <2>3, <2>4, <2>5
<1>3. ASSUME NEW k \in Jobs PROVE Fine(job'[k])
  <2>1. CASE UNCHANGED job
    BY <1>1, <2>1
  <2>2. CASE \E j \in Jobs : \E s : Step(j, s) /\ Fine(s)
    <3>1. PICK j \in Jobs : \E s : Step(j, s) /\ Fine(s)
      BY <2>2
    <3>2. PICK s : Step(j, s) /\ Fine(s)
      BY <3>1
    <3>3. job'[k] = IF k = j THEN s ELSE job[k]
      BY <1>1, <3>2 DEF Step
    <3> QED
      BY <1>1, <3>2, <3>3
  <2> QED
    BY <1>2, <2>1, <2>2
<1>4. \A k \in Jobs : (IsWritingObject(job[k]) =>
            job[k].stage = "send" /\ IsPlace(job[k].writing) /\ IsProper(job[k].writing.key))'
  BY <1>3
<1>5. KeysAreProper(objects)'
  BY <1>2
<1> QED
  BY <1>1, <1>4, <1>5 DEF KeysInv

(* A settings file says whether its data file is written: writable is not  *)
(* null in it.                                                             *)
SettingsSayWritable == \A p \in DOMAIN Settings : Settings[p].writable # None

(* None is no set of one category.                                         *)
NoneIsNoCategory == \A c : {c} # None

LEMMA SqlOfferedAreFound ==
    /\ \A id \in Sql!Sources(tables) : Sql!SourceFound(id)
    /\ \A id \in Sql!Sinks : Sql!SinkFound(id)
<1>1. ASSUME NEW id \in Sql!Sources(tables) PROVE Sql!SourceFound(id)
  <2>1. PICK k \in DOMAIN Databases :
            \/ id = <<k, "query">>
            \/ \E t : id = <<k, "table", t>>
            \/ \E t : id = <<k, "ts_table", t>>
    BY Zenon DEF Sql!Sources
  <2> QED
    BY <2>1 DEF Sql!SourceFound
<1>2. ASSUME NEW id \in Sql!Sinks PROVE Sql!SinkFound(id)
  <2>1. PICK k \in DOMAIN Databases :
            \/ \E t \in Databases[k].append_tables : id = <<k, "append_table", t>>
            \/ \E t \in Databases[k].replace_tables : id = <<k, "replace_table", t>>
            \/ \E t \in DOMAIN Databases[k].timeseries_tables :
                    /\ Databases[k].timeseries_tables[t].appendable
                    /\ id = <<k, "appendable_ts_table", t>>
    BY Zenon DEF Sql!Sinks
  <2>2. CASE \E t \in Databases[k].append_tables : id = <<k, "append_table", t>>
    <3>1. PICK t \in Databases[k].append_tables : id = <<k, "append_table", t>>
      BY <2>2
    <3>2. Len(id) = 3 /\ id[1] = k /\ id[2] = "append_table" /\ id[3] = t
      BY <3>1
    <3> QED
      BY <3>2 DEF Sql!SinkFound, Sql!WriteTableValid, Sql!Modes
  <2>3. CASE \E t \in Databases[k].replace_tables : id = <<k, "replace_table", t>>
    <3>1. PICK t \in Databases[k].replace_tables : id = <<k, "replace_table", t>>
      BY <2>3
    <3>2. Len(id) = 3 /\ id[1] = k /\ id[2] = "replace_table" /\ id[3] = t
      BY <3>1
    <3> QED
      BY <3>2 DEF Sql!SinkFound, Sql!WriteTableValid, Sql!Modes
  <2>4. CASE \E t \in DOMAIN Databases[k].timeseries_tables :
                    /\ Databases[k].timeseries_tables[t].appendable
                    /\ id = <<k, "appendable_ts_table", t>>
    <3>1. PICK t \in DOMAIN Databases[k].timeseries_tables :
                    /\ Databases[k].timeseries_tables[t].appendable
                    /\ id = <<k, "appendable_ts_table", t>>
      BY <2>4
    <3>2. Len(id) = 3 /\ id[1] = k /\ id[2] = "appendable_ts_table" /\ id[3] = t
      BY <3>1
    <3> QED
      BY <3>1, <3>2 DEF Sql!SinkFound, Sql!WriteTableValid, Sql!Modes
  <2> QED
    BY <2>1, <2>2, <2>3, <2>4
<1> QED
  BY <1>1, <1>2

LEMMA BlobOfferedAreFound ==
    ASSUME NoneIsNoRecord, KeysAreProper(objects)
    PROVE  /\ \A s \in Blob!Sources(objects) :
                /\ s = Blob!SourceById(objects, s.id)
                /\ s = Blob!SourceByMetadataKey(objects, s.node, s.metadataKey)
           /\ \A s \in Blob!Sinks : s = Blob!SinkByMetadataKey(s.node, s.metadataKey)
<1>1. ASSUME NEW s \in Blob!Sources(objects)
      PROVE  /\ s = Blob!SourceById(objects, s.id)
             /\ s = Blob!SourceByMetadataKey(objects, s.node, s.metadataKey)
  <2>1. PICK b \in Blob!Buckets : \E key \in Blob!KeysIn(objects, b) :
            /\ Blob!IsKey(key) /\ [bucket |-> b, key |-> key.name] \in Blob!ThingNodes
            /\ s = Blob!SourceOf(b, key)
    BY Zenon DEF Blob!Sources, Blob!SourcesIn
  <2>2. PICK key \in Blob!KeysIn(objects, b) :
            /\ Blob!IsKey(key) /\ [bucket |-> b, key |-> key.name] \in Blob!ThingNodes
            /\ s = Blob!SourceOf(b, key)
    BY <2>1
  <2> DEFINE node == [bucket |-> b, key |-> key.name]
             id == [bucket |-> b, key |-> key]
  <2>3. b \in DOMAIN objects /\ key \in DOMAIN objects[b]
    BY <2>2 DEF Blob!KeysIn, Blob!Listed
  <2>4. IsProper(key) /\ key # None
    BY <2>2, <2>3 DEF KeysAreProper, NoneIsNoRecord, Blob!IsKey
  <2>5. s.id = id /\ s.node = node /\ s.metadataKey = Blob!MetadataKey(key)
    BY <2>2 DEF Blob!SourceOf
  <2>6. node.bucket = b /\ node.key = key.name /\ id.bucket = b /\ id.key = key
    OBVIOUS
  <2>7. node \in Blob!ThingNodes
    BY <2>2
  <2> HIDE DEF node, id
  <2>8. Blob!KeyOf(node, Blob!MetadataKey(key), None) = key
    BY <2>4, <2>6, <2>7, KeysAreRead
  <2>9. s = Blob!SourceByMetadataKey(objects, node, Blob!MetadataKey(key))
    BY <2>2, <2>4, <2>6, <2>7, <2>8 DEF Blob!SourceByMetadataKey
  <2>10. [bucket |-> id.bucket, key |-> id.key.name] = node
    BY <2>6 DEF node
  <2>11. s = Blob!SourceById(objects, id)
    BY <2>2, <2>6, <2>7, <2>10 DEF Blob!SourceById
  <2> QED
    BY <2>5, <2>9, <2>11
<1>2. ASSUME NEW s \in Blob!Sinks PROVE s = Blob!SinkByMetadataKey(s.node, s.metadataKey)
  <2>1. PICK n \in Blob!SinkNodes : s = Blob!SinkOf(n)
    BY DEF Blob!Sinks
  <2>2. s.node = n /\ s.metadataKey = Blob!NextObject(n)
    BY <2>1 DEF Blob!SinkOf
  <2> QED
    BY <2>1, <2>2 DEF Blob!SinkByMetadataKey
<1> QED
  BY <1>1, <1>2

LEMMA FilesOfferedAreFound ==
    ASSUME NoneIsNoRecord, SettingsSayWritable
    PROVE  /\ \A path \in Files!Sources(files) : Files!SourceFound(files, path)
           /\ \A id \in Files!Sinks(files) \cup UNION {Files!SinksAt(files, dir) : dir \in LocalDirs} :
                Files!SinkFound(files, id)
<1> DEFINE Same(f, q) == /\ f.path = q /\ f.writable = Files!FromDataFile(q).writable
                         /\ Files!Loadable(f) => Files!Loadable(Files!FromDataFile(q))
<1>1. \A q : /\ Files!FromDataFile(q).path = q /\ Files!FromDataFile(q).writable = Files!ParsedSettings(q).writable
             /\ Files!FromDataFile(q) # None
  <2> TAKE q
  <2> DEFINE d == Files!FromDataFile(q)
  <2>1. /\ DOMAIN d = {"path", "writable", "loadable"} /\ d.path = q
        /\ d.writable = Files!ParsedSettings(q).writable
    BY DEF Files!FromDataFile
  <2> HIDE DEF d
  <2>2. d # None
    BY <2>1 DEF NoneIsNoRecord
  <2> QED
    BY <2>1, <2>2 DEF d
<1>2. ASSUME NEW q \in DOMAIN Settings PROVE Same(Files!FromSettingsFile(q), q)
  <2> DEFINE f == Files!FromSettingsFile(q)
             d == Files!FromDataFile(q)
  <2>1. Settings[q].writable # None
    BY DEF SettingsSayWritable
  <2>2. /\ f.path = q /\ f.writable = Settings[q].writable
        /\ f.loadable = IF Settings[q].loadable = None THEN FALSE ELSE Settings[q].loadable
    BY <2>1 DEF Files!FromSettingsFile, Files!ParsedSettings
  <2>3. /\ d.path = q /\ d.writable = Settings[q].writable
        /\ d.loadable = IF Settings[q].loadable = None THEN TRUE ELSE Settings[q].loadable
    BY <2>1 DEF Files!FromDataFile, Files!ParsedSettings
  <2> HIDE DEF f, d
  <2>4. Files!Loadable(f) => Files!Loadable(d)
    BY <2>2, <2>3 DEF Files!Loadable, Files!HasHandler
  <2> QED
    BY <2>2, <2>3, <2>4 DEF f, d
<1>3. \A q : Same(Files!FromDataFile(q), q)
  BY <1>1
<1> HIDE DEF Same
<1>4. ASSUME NEW dirs, dirs \subseteq LocalDirs, NEW f \in Files!FilesIn(files, dirs)
      PROVE  /\ Same(f, f.path) /\ f.path.dir \in LocalDirs
             /\ f.path \in DOMAIN files \cup DOMAIN Settings
  <2>1. \/ \E q \in DOMAIN files : q.dir \in dirs /\ f = Files!FromDataFile(q)
        \/ \E q \in DOMAIN Settings : q.dir \in dirs /\ f = Files!FromSettingsFile(q)
    BY DEF Files!FilesIn
  <2>2. PICK q : q.dir \in dirs /\ q \in DOMAIN files \cup DOMAIN Settings /\ Same(f, q)
    BY <2>1, <1>2, <1>3
  <2>3. f.path = q
    BY <2>2 DEF Same
  <2> QED
    BY <1>4, <2>2, <2>3
<1>5. ASSUME NEW dirs, dirs \subseteq LocalDirs, NEW f \in Files!FilesIn(files, dirs)
      PROVE  /\ Files!Loadable(f) => Files!SourceFound(files, f.path)
             /\ Files!Writable(f) => Files!SinkFound(files, f.path)
  <2> DEFINE d == Files!FromDataFile(f.path)
  <2>1. /\ d # None /\ d.path = f.path /\ d.writable = f.writable
        /\ Files!Loadable(f) => Files!Loadable(d)
    BY <1>1, <1>4, <1>5 DEF Same
  <2>2. Files!HasHandler(f.path) => Files!FileFor(files, f.path, TRUE) = d
    BY <1>4, <1>5 DEF Files!FileFor
  <2> HIDE DEF d
  <2> QED
    BY <2>1, <2>2 DEF Files!SourceFound, Files!SinkFound, Files!Loadable, Files!Writable
<1>6. \A path \in Files!Sources(files) : Files!SourceFound(files, path)
  BY <1>5 DEF Files!Sources
<1>7. \A id \in Files!Sinks(files) : Files!SinkFound(files, id)
  BY <1>5 DEF Files!Sinks
<1>8. ASSUME NEW dir \in LocalDirs, NEW id \in Files!SinksAt(files, dir)
      PROVE  Files!SinkFound(files, id)
  <2>1. CASE \E kind : id = Files!GenericSink(kind, dir)
    BY <2>1 DEF Files!GenericSink, Files!SinkFound, Files!IsGeneric
  <2>2. CASE \E f \in Files!FilesIn(files, {dir}) : Files!Writable(f) /\ id = f.path
    BY <1>5, <2>2
  <2> QED
    BY <2>1, <2>2 DEF Files!SinksAt
<1> QED
  BY <1>6, <1>7, <1>8

LEMMA KafkaOfferedAreFound ==
    /\ \A id \in Kafka!Sources : Kafka!SourceFound(id)
    /\ \A id \in Kafka!Sinks : Kafka!SinkFound(id)
<1>1. ASSUME NEW flags \in SUBSET DOMAIN KafkaConfigs, NEW id \in Kafka!Offered(flags)
      PROVE  Kafka!Parses(id) /\ id[1] \in flags
  <2>1. PICK key \in flags : \E type \in Kafka!TypesOf(key) : id = <<key, type>>
    BY Zenon DEF Kafka!Offered
  <2> QED
    BY <2>1 DEF Kafka!Parses
<1> QED
  BY <1>1 DEF Kafka!Sources, Kafka!Sinks, Kafka!SourceFound, Kafka!SinkFound

LEMMA ComponentsOfferedAreFound ==
    ASSUME NoneIsNoCategory
    PROVE  /\ \A id \in Comp!Sources : Comp!SourceFound(id) /\ Comp!ValidSource(id)
           /\ \A id \in Comp!Sinks : Comp!SinkFound(id) /\ Comp!ValidSink(id)
           /\ Comp!Sources = UNION {Comp!SourcesIn(c) : c \in
                    {d \in Comp!Categories : Comp!Allows(SourceCategories, d)}}
           /\ Comp!Sinks = UNION {Comp!SinksIn(c) : c \in
                    {d \in Comp!Categories : Comp!Allows(SinkCategories, d)}}
           /\ \A id \in Comp!Sources : Comp!NeedsNoTimestamps(id) =>
                    Comp!WiringFits(id, DOMAIN Comp!Filters(id, FALSE))
           /\ \A id \in Comp!Sinks : Comp!NeedsNoTimestamps(id) =>
                    Comp!WiringFits(id, DOMAIN Comp!Filters(id, TRUE) \cup {"data"})
<1> DEFINE Usable(categories, id) ==
                /\ id \in DOMAIN Components /\ Components[id].type = "COMPONENT"
                /\ Components[id].state \in Comp!AllowedStates(FALSE)
                /\ Comp!Allows(categories, Components[id].category)
           IsSource(id) == Components[id].outputs = 1
           IsSink(id) == Components[id].outputs = 0 /\ Comp!HasData(id)
<1>1. \A categories, id :
        /\ id \in Comp!AllSources(categories, FALSE) <=> Usable(categories, id) /\ IsSource(id)
        /\ id \in Comp!AllSinks(categories, FALSE) <=> Usable(categories, id) /\ IsSink(id)
  BY DEF Comp!AllSources, Comp!AllSinks, Comp!Usable
<1>2. Comp!AllowedStates(FALSE) \subseteq Comp!AllowedStates(TRUE)
  BY DEF Comp!AllowedStates
<1>3. \A id \in Comp!Sources : Comp!SourceFound(id) /\ Comp!ValidSource(id)
  BY <1>1, <1>2 DEF Comp!Sources, Comp!SourceFound, Comp!ValidSource, Comp!Checked,
                    Comp!AllSources, Comp!Usable, Comp!Allows
<1>4. \A id \in Comp!Sinks : Comp!SinkFound(id) /\ Comp!ValidSink(id)
  BY <1>1, <1>2 DEF Comp!Sinks, Comp!SinkFound, Comp!ValidSink, Comp!Checked,
                    Comp!AllSinks, Comp!Usable, Comp!Allows
<1>5. ASSUME NEW categories \in {SourceCategories, SinkCategories}, NEW id, Usable(categories, id)
      PROVE  LET c == Components[id].category IN
                /\ c \in Comp!Categories /\ Comp!Shown(c) /\ Comp!Allows(categories, c)
                /\ Usable({c}, id)
  BY <1>5 DEF Comp!Categories, Comp!Shown, Comp!Allows
<1>6. ASSUME NEW categories, NEW c, Comp!Allows(categories, c), NEW id, Usable({c}, id)
      PROVE  Usable(categories, id)
  BY <1>6 DEF Comp!Allows, NoneIsNoCategory
<1> HIDE DEF Usable, IsSource, IsSink
<1>7. Comp!Sources = UNION {Comp!SourcesIn(c) : c \in
            {d \in Comp!Categories : Comp!Allows(SourceCategories, d)}}
  <2>1. ASSUME NEW id \in Comp!Sources
        PROVE  \E c \in Comp!Categories : Comp!Allows(SourceCategories, c) /\ id \in Comp!SourcesIn(c)
    BY <1>1, <1>5 DEF Comp!Sources, Comp!SourcesIn
  <2>2. ASSUME NEW c, Comp!Allows(SourceCategories, c), NEW id \in Comp!SourcesIn(c)
        PROVE  id \in Comp!Sources
    BY <1>1, <1>6, <2>2 DEF Comp!Sources, Comp!SourcesIn
  <2> QED
    BY <2>1, <2>2
<1>8. Comp!Sinks = UNION {Comp!SinksIn(c) : c \in
            {d \in Comp!Categories : Comp!Allows(SinkCategories, d)}}
  <2>1. ASSUME NEW id \in Comp!Sinks
        PROVE  \E c \in Comp!Categories : Comp!Allows(SinkCategories, c) /\ id \in Comp!SinksIn(c)
    BY <1>1, <1>5 DEF Comp!Sinks, Comp!SinksIn
  <2>2. ASSUME NEW c, Comp!Allows(SinkCategories, c), NEW id \in Comp!SinksIn(c)
        PROVE  id \in Comp!Sinks
    BY <1>1, <1>6, <2>2 DEF Comp!Sinks, Comp!SinksIn
  <2> QED
    BY <2>1, <2>2
<1>9. \A id : Comp!NeedsNoTimestamps(id) => Comp!WiringFits(id, DOMAIN Comp!Filters(id, FALSE))
  BY DEF Comp!NeedsNoTimestamps, Comp!WiringFits, Comp!Filters, Comp!Required
<1>10. ASSUME NEW id \in Comp!Sinks, Comp!NeedsNoTimestamps(id)
       PROVE  Comp!WiringFits(id, DOMAIN Comp!Filters(id, TRUE) \cup {"data"})
  <2>1. "data" \in DOMAIN Components[id].inputs
    BY <1>1 DEF Comp!Sinks, IsSink, Comp!HasData
  <2> QED
    BY <1>10, <2>1 DEF Comp!NeedsNoTimestamps, Comp!WiringFits, Comp!Filters, Comp!Required
<1> QED
  BY <1>3, <1>4, <1>7, <1>8, <1>9, <1>10

(* What an adapter lists as a source or sink in its structure it finds     *)
(* again by the id it lists, whatever executions have written since: the   *)
(* listings and the look-ups of the structure.py of each adapter agree.    *)
(* It is so for any databases, hierarchy, files, topics and components, as *)
(* long as a settings file says whether its file is written and the        *)
(* objects that were there had keys like those the runtime makes.          *)
THEOREM OfferedIsFound ==
    ASSUME NoneIsNoRecord, NoneIsNoCategory, SettingsSayWritable
    PROVE  Spec /\ KeysAreProper(objects) => []OfferedAreFound
<1>1. Init /\ KeysAreProper(objects) => KeysInv
  BY DEF Init, Idle, KeysInv, IsWritingObject
<1>2. DeliveryInv /\ KeysInv /\ [Next]_vars => KeysInv'
  <2>1. ASSUME KeysInv, UNCHANGED vars PROVE KeysInv'
    <3>1. objects' = objects /\ job' = job /\ Jobs' = Jobs
      BY <2>1 DEF vars, stores, Jobs
    <3> QED
      BY <2>1, <3>1 DEF KeysInv, IsWritingObject
  <2> QED
    BY <2>1, NextKeepsKeys
<1>3. KeysInv => OfferedAreFound
  <2> SUFFICES ASSUME KeysAreProper(objects) PROVE OfferedAreFound
    BY DEF KeysInv
  <2>1. /\ \A id \in Sql!Sources(tables) : Sql!SourceFound(id)
        /\ \A id \in Sql!Sinks : Sql!SinkFound(id)
    BY SqlOfferedAreFound
  <2>2. /\ \A s \in Blob!Sources(objects) :
                /\ s = Blob!SourceById(objects, s.id)
                /\ s = Blob!SourceByMetadataKey(objects, s.node, s.metadataKey)
        /\ \A s \in Blob!Sinks : s = Blob!SinkByMetadataKey(s.node, s.metadataKey)
    BY BlobOfferedAreFound
  <2>3. /\ \A path \in Files!Sources(files) : Files!SourceFound(files, path)
        /\ \A id \in Files!Sinks(files) \cup UNION {Files!SinksAt(files, dir) : dir \in LocalDirs} :
              Files!SinkFound(files, id)
    BY FilesOfferedAreFound
  <2>4. /\ \A id \in Kafka!Sources : Kafka!SourceFound(id)
        /\ \A id \in Kafka!Sinks : Kafka!SinkFound(id)
    BY KafkaOfferedAreFound
  <2>5. /\ \A id \in Comp!Sources : Comp!SourceFound(id) /\ Comp!ValidSource(id)
        /\ \A id \in Comp!Sinks : Comp!SinkFound(id) /\ Comp!ValidSink(id)
        /\ Comp!Sources = UNION {Comp!SourcesIn(c) : c \in
                {d \in Comp!Categories : Comp!Allows(SourceCategories, d)}}
        /\ Comp!Sinks = UNION {Comp!SinksIn(c) : c \in
                {d \in Comp!Categories : Comp!Allows(SinkCategories, d)}}
        /\ \A id \in Comp!Sources : Comp!NeedsNoTimestamps(id) =>
                Comp!WiringFits(id, DOMAIN Comp!Filters(id, FALSE))
        /\ \A id \in Comp!Sinks : Comp!NeedsNoTimestamps(id) =>
                Comp!WiringFits(id, DOMAIN Comp!Filters(id, TRUE) \cup {"data"})
    BY ComponentsOfferedAreFound DEF NoneIsNoCategory
  <2> QED
    BY <2>1, <2>2, <2>3, <2>4, <2>5, Zenon DEF OfferedAreFound
<1> QED
  BY <1>1, <1>2, <1>3, DeliveryInvHolds, PTL DEF Spec
=============================================================================
