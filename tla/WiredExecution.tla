-------------------------- MODULE WiredExecution --------------------------
(***************************************************************************)
(* Executions with their wirings (runtime/service.py, wiring/__init__.py,  *)
(* adapters): virtual sources and sinks are resolved, the inputs loaded    *)
(* adapter by adapter, the workflow run, the outputs sent adapter by       *)
(* adapter, and the execution answered.  Executions share tables, objects, *)
(* files, REST adapters and topics.                                        *)
(*                                                                         *)
(* The event loop of a process stands still while the SQL or file adapter  *)
(* loads or writes its group of wirings and while one object is written;   *)
(* other processes go on.  Posts to REST adapters and messages to Kafka    *)
(* are sent together.  One of them failing fails the execution while the   *)
(* others are still under way.  Components wired as sources or sinks are   *)
(* run side by side, each as an execution of its own; all of them end, or  *)
(* are cancelled, before the execution goes on or fails.                   *)
(***************************************************************************)
EXTENDS AdapterWiring, SequencesExt

CONSTANTS
    Setups,         \* the situations: executions and what the stores hold
    MaxFaults,      \* bound of the model: how often something fails
    Databases, Numerals, InferMetrics,
    HierarchyNodes, DefinesKeys, Lower, Ends, Rank, ListLimit, BucketCreation, HasTensorflow,
    LocalDirs, Settings, Handlers, GenericSinks,
    AdapterUrls, OwnAdapters,
    KafkaConfigs, ExternalTypes,
    Components, AllowDraft, SourceCategories, SinkCategories

Sql == INSTANCE SqlTables
Blob == INSTANCE BlobStorage
Files == INSTANCE LocalFiles
Rest == INSTANCE RestAdapter
Kafka == INSTANCE KafkaMessages
Comp == INSTANCE ComponentAdapter

(* Validated when the hierarchy is read: leaves are in a bucket.  A name   *)
(* ends with itself.                                                       *)
ASSUME HierarchyIsValid ==
    /\ Blob!HierarchyValid
    /\ \A node \in Blob!SinkNodes : node.key # <<>>
    /\ \A node \in Blob!ThingNodes : node.key # <<>> => Blob!LastName(node) \in Ends[Blob!LastName(node)]

(* The wirings of an execution are lists, each with a name, and None is    *)
(* nothing else.                                                           *)
IsList(f) == DOMAIN f \subseteq Nat /\ IsFiniteSet(DOMAIN f)
AreNamed(ws) == \A i \in DOMAIN ws : "name" \in DOMAIN ws[i]
ASSUME WiredAssumption ==
    /\ \A s \in Setups : \A j \in DOMAIN s.jobs :
        /\ IsList(s.jobs[j].inputs) /\ IsList(s.jobs[j].outputs)
        /\ AreNamed(s.jobs[j].inputs) /\ AreNamed(s.jobs[j].outputs)
    /\ None \notin {"posts", "h5", "pkl"}

VARIABLES
    setup,      \* the situation, which never changes
    tables, files, objects,
    held,       \* what the REST adapters hold: adapter -> place -> value
    topic,      \* the messages in Kafka
    urls,       \* process -> the REST adapters' urls it knows
    job,        \* the executions
    posts,      \* requests and messages under way
    arrived,    \* history: <<execution, output>> that have reached their sink
    overlapped, \* history: transactions on one table have overlapped
    faults

stores == <<tables, files, objects, held, topic>>
vars == <<setup, stores, urls, job, posts, arrived, overlapped, faults>>

AllJobs == UNION {DOMAIN s.jobs : s \in Setups}
Jobs == DOMAIN setup.jobs
Task(j) == setup.jobs[j]
Kind(w) == AdapterOf(w.adapter)

SqlKey == "sql-adapter"
FileKey == "local-file-adapter"
BlobKey == "blob-storage-adapter"
Sync == {SqlKey, FileKey}
ComponentKey == "component-adapter"
Posting == {"generic-rest", "kafka"}
Awaiting == Posting \cup {ComponentKey}    \* the loop goes on while their groups are awaited

(* A file that is written over holds nothing; so does, in writing, an      *)
(* execution that writes nothing.                                          *)
Idle == [stage |-> "waiting", wirings |-> [in |-> <<>>, out |-> <<>>], group |-> None, left |-> {},
         values |-> <<>>, writing |-> None, answer |-> "none"]

Init ==
    /\ setup \in Setups
    /\ tables = setup.tables /\ files = setup.files /\ objects = setup.objects
    /\ held = setup.held /\ topic = {}
    /\ urls = [p \in {Task(j).process : j \in Jobs} |-> <<>>]
    /\ job = [j \in Jobs |-> Idle]
    /\ posts = {} /\ arrived = {} /\ overlapped = FALSE /\ faults = 0

-----------------------------------------------------------------------------
(* From wiring to wiring, group to group and stage to stage.  The wirings  *)
(* left are places in the wiring.  The adapters take their turns in the    *)
(* order of their first wiring, each with its wirings in their order; an   *)
(* input that uses its default is not loaded.                              *)

WiringsOf(r) == IF r.stage = "load" THEN r.wirings.in ELSE r.wirings.out
Places(r) == {i \in DOMAIN WiringsOf(r) : r.stage = "load" => ~r.wirings.in[i].default}
GroupOf(r, places) == {i \in places : WiringsOf(r)[i].adapter = r.group}

NextGroup(r, left) ==
    CASE left # {} ->
            [r EXCEPT !.group = WiringsOf(r)[Min(left)].adapter, !.left = left, !.writing = None]
      [] left = {} /\ r.stage = "load" -> [r EXCEPT !.stage = "run", !.left = {}, !.writing = None]
      [] OTHER -> [r EXCEPT !.stage = "done", !.left = {}, !.writing = None, !.answer = "ok"]

Enter(r, stage) == LET s == [r EXCEPT !.stage = stage] IN NextGroup(s, Places(s))

(* Some of the wirings left are done with.                                 *)
Without(r, places) ==
    LET left == r.left \ places
    IN  IF GroupOf(r, left) # {} THEN [r EXCEPT !.left = left, !.writing = None]
        ELSE NextGroup(r, left)

GroupDone(r) == NextGroup(r, r.left \ GroupOf(r, r.left))

(* An AdapterHandlingException is answered; what else is raised is not.    *)
Failing(r, how) ==
    [r EXCEPT !.stage = "done", !.left = {}, !.writing = None,
              !.answer = IF how = "handling" THEN "failure" ELSE "raised"]

Step(j, r) == job' = [job EXCEPT ![j] = r]

(* The group at work: its places, its wirings and the first one's.         *)
AtWork(j) == GroupOf(job[j], job[j].left)
Wiring(j, i) == WiringsOf(job[j])[i]
Group(j) == [i \in AtWork(j) |-> Wiring(j, i)]
GroupKind(j) == AdapterOf(job[j].group)
CurrentPlace(j) == Min(AtWork(j))
Current(j) == Wiring(j, CurrentPlace(j))

Started(r) == GroupOf(r, Places(r) \ r.left) # {}

(* Whether the process of j stands still for it.                           *)
Blocks(j) ==
    LET r == job[j]
    IN  /\ r.stage \in {"load", "send"}
        /\ \/ r.writing # None /\ GroupKind(j) \notin Awaiting
           \/ GroupKind(j) \in Sync /\ Started(r)

\* Fault: the clients of all stores are asynchronous.
AlwaysRuns(j) == TRUE

MayRun(j) == \A k \in Jobs : k # j /\ Task(k).process = Task(j).process => ~Blocks(k)

-----------------------------------------------------------------------------
(* The backend accepts the wiring and resolves it.                         *)

Begin(j) ==
    /\ job[j].stage = "waiting"
    /\ \A k \in Task(j).after : job[k].stage = "done"
    /\ LET ins == AcceptedWirings(Task(j).inputs)
           outs == AcceptedWirings(Task(j).outputs)
       IN  IF ins = None \/ outs = None
           THEN Step(j, [job[j] EXCEPT !.stage = "done", !.answer = "refused"])
           ELSE \E in \in Resolutions(ins, setup.entries), out \in Resolutions(outs, setup.entries) :
                    CASE "handling" \in {in.error, out.error} -> Step(j, Failing(job[j], "handling"))
                      [] in.error = "no" /\ out.error = "no"
                            /\ Comp!ComponentsRefused(ToSet(in.wirings), ToSet(out.wirings)) ->
                            Step(j, [job[j] EXCEPT !.stage = "done", !.answer = "refused"])
                      [] in.error = "no" /\ out.error = "no"
                            /\ ~Comp!ComponentsRefused(ToSet(in.wirings), ToSet(out.wirings)) ->
                            Step(j, Enter([job[j] EXCEPT !.wirings = [in |-> in.wirings,
                                                                      out |-> out.wirings]], "load"))
                      [] OTHER -> Step(j, Failing(job[j], "raised"))
    /\ UNCHANGED <<setup, stores, urls, posts, arrived, overlapped, faults>>

-----------------------------------------------------------------------------
(* Loading.                                                                *)

NoFilters == [timestampFrom |-> None, timestampTo |-> None, metrics |-> None, sql_query |-> None]
IdOf(w) == IF w.ref_key # None THEN w.ref_key ELSE w.ref_id

Frame == [kind |-> "frame", dtype |-> "object", utc |-> TRUE, custom |-> None]
AsFrame(loaded) ==
    IF loaded.error # "no" THEN loaded ELSE [loaded EXCEPT !.frame = @ @@ Frame]
EmptyFor(w) ==
    [rows |-> <<>>, attrs |-> Sql!Plain]
        @@ [Frame EXCEPT !.kind = IF Rest!General(w.type) = "timeseries" THEN "series" ELSE @]

(* update_with_metdata_from_input_wiring                                   *)
WithAttrs(value, w) ==
    IF value = None \/ Kind(w) = "direct_provisioning" THEN value
    ELSE [value EXCEPT !.attrs = w.attrs @@ @]

Read(j, w) ==
    CASE Kind(w) = "direct_provisioning" ->
            IF "value" \in DOMAIN w.filters THEN [error |-> "no", frame |-> w.filters.value]
            ELSE Sql!Failed("handling")
      [] Kind(w) = SqlKey ->
            AsFrame(Sql!LoadTable(IdOf(w), w.filters @@ NoFilters, Task(j).interval, tables))
      [] Kind(w) = FileKey -> Files!LoadFile(files, IdOf(w), Sql!Plain)
      [] Kind(w) = BlobKey -> Blob!LoadBlob(objects, w.ref_id, w.ref_key)
      [] OTHER -> Sql!Failed("handling")

ReadRest(j, w) ==
    IF /\ Rest!General(w.type) \in {"timeseries", "multitsframe"}
       /\ Sql!Resolved(w.filters @@ NoFilters, Task(j).interval) = None
    THEN Rest!Failed("handling")
    ELSE Rest!LoadedFor(w, held[w.adapter], EmptyFor(w))

(* What was read at some places; the first failure fails the execution.    *)
Provide(j, places, read) ==
    LET failures == {read[i].error : i \in places} \ {"no"}
        names == {Wiring(j, i).name : i \in places}
        place(n) == CHOOSE i \in places : Wiring(j, i).name = n
    IN  IF failures # {} THEN \E how \in failures : Step(j, Failing(job[j], how))
        ELSE Step(j, Without([job[j] EXCEPT
                !.values = [n \in names |->
                                WithAttrs(read[place(n)].frame, Wiring(j, place(n)))] @@ @],
                places))

(* One wiring after the other.                                             *)
Load(j) ==
    /\ job[j].stage = "load" /\ MayRun(j) /\ GroupKind(j) \notin Awaiting
    /\ Provide(j, {CurrentPlace(j)}, [i \in {CurrentPlace(j)} |-> Read(j, Current(j))])
    /\ UNCHANGED <<setup, stores, urls, posts, arrived, overlapped, faults>>

(* The url of a REST adapter is known or the backend is asked for it.      *)
LookUp(p, adapter) ==
    \E answers \in BOOLEAN :
        /\ ~answers => adapter \notin DOMAIN urls[p] /\ faults < MaxFaults
        /\ faults' = IF answers THEN faults ELSE faults + 1
        /\ urls' = [urls EXCEPT ![p] = Rest!WithUrl(@, adapter, answers)]

(* Requests to a REST adapter are answered in any order.                   *)
LoadRest(j) ==
    /\ job[j].stage = "load" /\ MayRun(j) /\ GroupKind(j) = "generic-rest"
    /\ LET ws == Range(Group(j))
           adapter == job[j].group
           p == Task(j).process
       IN  IF \E w \in ws : ~Rest!Valid(w)
           THEN Step(j, Failing(job[j], "handling")) /\ UNCHANGED <<urls, faults>>
           ELSE /\ LookUp(p, adapter)
                /\ IF adapter \notin DOMAIN urls'[p] THEN Step(j, Failing(job[j], "handling"))
                   ELSE \E request \in Rest!Requests(ws) :
                            LET asked == {i \in AtWork(j) : Rest!RequestOf(Wiring(j, i)) = request}
                            IN  Provide(j, asked, [i \in asked |-> ReadRest(j, Wiring(j, i))])
    /\ UNCHANGED <<setup, stores, posts, arrived, overlapped>>

(* Messages come from the one the execution was started with or, as long   *)
(* as that takes, from the topic.                                          *)
Received(j, recipe) ==
    IF recipe.part.config \in DOMAIN Task(j).context THEN {Task(j).context[recipe.part.config]}
    ELSE {m \in topic \cup setup.incoming : m.config = recipe.part.config}

Receive(j) ==
    /\ job[j].stage = "load" /\ MayRun(j) /\ GroupKind(j) = "kafka"
    /\ LET ws == Group(j)
           gathered == Kafka!Gathered(ws)
       IN  IF gathered.error # "no" THEN Step(j, Failing(job[j], gathered.error))
           ELSE \E choice \in [gathered.messages -> topic \cup setup.incoming
                                                        \cup Range(Task(j).context)] :
                    LET taken == {Kafka!Taken(m, choice[m]) : m \in gathered.messages}
                    IN  /\ \A m \in gathered.messages : choice[m] \in Received(j, m)
                        /\ IF \/ \E t \in taken : t.error # "no"
                              \/ \E i \in DOMAIN ws : ~Kafka!TypesAgree(ws[i])
                           THEN Step(j, Failing(job[j], "handling"))
                           ELSE Step(j, GroupDone([job[j] EXCEPT !.values = @ @@
                                    [n \in {ws[i].name : i \in DOMAIN ws} |->
                                        (CHOOSE t \in taken : n \in DOMAIN t.values).values[n]]]))
    /\ UNCHANGED <<setup, stores, urls, posts, arrived, overlapped, faults>>

-----------------------------------------------------------------------------
(* The workflow: an output passes an input on or is a value of its own.    *)

Results(j) ==
    [o \in DOMAIN Task(j).flow |->
        IF "input" \in DOMAIN Task(j).flow[o] THEN job[j].values[Task(j).flow[o].input]
        ELSE Task(j).flow[o].value]

Run(j) ==
    /\ job[j].stage = "run" /\ MayRun(j)
    /\ Step(j, Enter([job[j] EXCEPT !.values = Results(j)], "send"))
    /\ UNCHANGED <<setup, stores, urls, posts, arrived, overlapped, faults>>

(* A store that cannot be read, inputs that do not parse, component code   *)
(* that raises, results of the wrong type.                                 *)
RunFails(j) ==
    /\ job[j].stage \in {"load", "run"} /\ MayRun(j) /\ faults < MaxFaults
    /\ Step(j, Failing(job[j], "handling"))
    /\ faults' = faults + 1
    /\ UNCHANGED <<setup, stores, urls, posts, arrived, overlapped>>

-----------------------------------------------------------------------------
(* Sending to tables, files and objects: one output after the other.       *)

CurrentValue(j) == job[j].values[Current(j).name]
Sending(j) == job[j].stage = "send" /\ MayRun(j) /\ job[j].writing = None

Write(j, what) == Step(j, [job[j] EXCEPT !.writing = what])

BeginTransaction(j) ==
    /\ Sending(j) /\ GroupKind(j) = SqlKey
    /\ LET id == IdOf(Current(j))
           frame == CurrentValue(j)
           refusal == Sql!Refusal(id, frame)
       IN  CASE refusal # "no" -> Step(j, Failing(job[j], refusal)) /\ UNCHANGED overlapped
             [] refusal = "no" /\ Sql!DeletionFails(id, frame) ->
                    Step(j, Failing(job[j], "handling")) /\ UNCHANGED overlapped
             [] OTHER ->
                    /\ Write(j, [id |-> id, doomed |-> Sql!Doomed(id, frame, tables[id[1]][id[3]])])
                    /\ overlapped' = (overlapped \/ \E k \in Jobs :
                            /\ job[k].writing # None /\ GroupKind(k) = SqlKey
                            /\ <<IdOf(Current(k))[1], IdOf(Current(k))[3]>> = <<id[1], id[3]>>)
    /\ UNCHANGED <<setup, stores, urls, posts, arrived, faults>>

EndTransaction(j) ==
    /\ job[j].stage = "send" /\ job[j].writing # None /\ GroupKind(j) = SqlKey
    /\ LET id == job[j].writing.id
       IN  tables' = [tables EXCEPT ![id[1]][id[3]] =
                        Sql!Written(id, CurrentValue(j), job[j].writing.doomed, @)]
    /\ arrived' = arrived \cup {<<j, Current(j).name>>}
    /\ Step(j, Without(job[j], {CurrentPlace(j)}))
    /\ UNCHANGED <<setup, files, objects, held, topic, urls, posts, overlapped, faults>>

(* A file is empty from its opening to the end of its writing.             *)
OpenFile(j) ==
    /\ Sending(j) /\ GroupKind(j) = FileKey
    /\ LET w == Current(j)
           name == IF "file_name" \in DOMAIN w.filters THEN w.filters.file_name ELSE None
           target == Files!WritePath(files, IdOf(w), name, j, Task(j).time)
       IN  IF target.error # "no" THEN Step(j, Failing(job[j], target.error)) /\ UNCHANGED files
           ELSE /\ Write(j, [path |-> target.path])
                /\ files' = (target.path :> None) @@ files
    /\ UNCHANGED <<setup, tables, objects, held, topic, urls, posts, arrived, overlapped, faults>>

CloseFile(j) ==
    /\ job[j].stage = "send" /\ job[j].writing # None /\ GroupKind(j) = FileKey
    /\ files' = [files EXCEPT ![job[j].writing.path] = CurrentValue(j)]
    /\ arrived' = arrived \cup {<<j, Current(j).name>>}
    /\ Step(j, Without(job[j], {CurrentPlace(j)}))
    /\ UNCHANGED <<setup, tables, objects, held, topic, urls, posts, overlapped, faults>>

(* ensure_bucket_exists and head_object: an object that is there is not    *)
(* written.                                                                *)
HeadObject(j) ==
    /\ Sending(j) /\ GroupKind(j) = BlobKey
    /\ LET w == Current(j)
           suffix == IF "object_key_suffix" \in DOMAIN w.filters THEN w.filters.object_key_suffix
                     ELSE None
           target == Blob!Target(w.ref_id, w.ref_key, suffix,
                                 Blob!ExtensionOf(CurrentValue(j)), j, Task(j).time)
           bucket == w.ref_id.bucket
           ready == Blob!WithBucket(objects, bucket)
       IN  CASE target.error # "no" -> Step(j, Failing(job[j], target.error)) /\ UNCHANGED objects
             [] target.error = "no" /\ ready = None ->
                    Step(j, Failing(job[j], "handling")) /\ UNCHANGED objects
             [] OTHER ->
                    /\ objects' = ready
                    /\ IF target.key \in DOMAIN ready[bucket] THEN Step(j, Failing(job[j], "handling"))
                       ELSE Write(j, [bucket |-> bucket, key |-> target.key, part |-> "object"])
    /\ UNCHANGED <<setup, tables, files, held, topic, urls, posts, arrived, overlapped, faults>>

PutObject(j) ==
    /\ job[j].stage = "send" /\ job[j].writing # None /\ GroupKind(j) = BlobKey
    /\ LET r == job[j].writing
           second == r.part = "object" /\ Blob!HasCustomObjects(CurrentValue(j))
           key == IF r.part = "object" THEN r.key ELSE Blob!CustomObjectsKey(r.key)
       IN  /\ objects' = Blob!Put(objects, r.bucket, key, CurrentValue(j))
           /\ IF second
              THEN Write(j, [r EXCEPT !.part = "custom objects"]) /\ UNCHANGED arrived
              ELSE /\ arrived' = arrived \cup {<<j, Current(j).name>>}
                   /\ Step(j, Without(job[j], {CurrentPlace(j)}))
    /\ UNCHANGED <<setup, tables, files, held, topic, urls, posts, overlapped, faults>>

(* A statement, a request or the process fails in between: a transaction   *)
(* is rolled back, a file or a first object stays.                         *)
WriteFails(j) ==
    /\ job[j].stage = "send" /\ job[j].writing # None /\ GroupKind(j) \notin Awaiting
    /\ faults < MaxFaults
    /\ \E how \in {"handling", "raised"} : Step(j, Failing(job[j], how))
    /\ faults' = faults + 1
    /\ UNCHANGED <<setup, stores, urls, posts, arrived, overlapped>>

(* Direct provisioning returns the values with the answer.                 *)
Return(j) ==
    /\ Sending(j) /\ GroupKind(j) \in {"direct_provisioning", "unknown"}
    /\ IF GroupKind(j) = "unknown" THEN Step(j, Failing(job[j], "handling"))
       ELSE Step(j, GroupDone(job[j]))
    /\ UNCHANGED <<setup, stores, urls, posts, arrived, overlapped, faults>>

-----------------------------------------------------------------------------
(* Sending to REST adapters and Kafka.                                     *)

Post(j, names, place, value) ==
    [job |-> j, adapter |-> job[j].group, names |-> names, place |-> place, value |-> value,
     arrived |-> FALSE]

\* Fault: answers are awaited even if nothing was sent.
LaunchAlways(j, new, allFit) ==
    /\ posts' = posts \cup new
    /\ IF allFit THEN Write(j, "posts") ELSE Step(j, Failing(job[j], "handling"))

(* The group's requests are launched: some fail their checks, what remains *)
(* is under way.                                                           *)
Launch(j, new, allFit) ==
    /\ posts' = posts \cup new
    /\ CASE ~allFit -> Step(j, Failing(job[j], "handling"))
         [] allFit /\ new = {} -> Step(j, GroupDone(job[j]))
         [] OTHER -> Write(j, "posts")

LaunchRest(j) ==
    /\ Sending(j) /\ GroupKind(j) = "generic-rest"
    /\ LET ws == Range(Group(j))
           adapter == job[j].group
           p == Task(j).process
           fitting == {w \in ws : Rest!Fits(w.type, job[j].values[w.name])}
           new == {Post(j, {w.name}, Rest!Place(w), job[j].values[w.name]) :
                    w \in {v \in fitting : Rest!HasEndpoint(v.type)}}
       IN  IF \E w \in ws : ~Rest!Valid(w)
           THEN Step(j, Failing(job[j], "handling")) /\ UNCHANGED <<urls, posts, faults>>
           ELSE /\ LookUp(p, adapter)
                /\ IF adapter \in DOMAIN urls'[p] THEN Launch(j, new, fitting = ws)
                   ELSE Step(j, Failing(job[j], "handling")) /\ UNCHANGED posts
    /\ UNCHANGED <<setup, stores, arrived, overlapped>>

LaunchKafka(j) ==
    /\ Sending(j) /\ GroupKind(j) = "kafka"
    /\ LET gathered == Kafka!Gathered(Group(j))
           sent == {m \in gathered.messages : ~Kafka!CreationFails(m)}
           new == {Post(j, {w.name : w \in m.wirings}, m.part,
                        Kafka!Created(m, j, job[j].values)) : m \in sent}
       IN  CASE gathered.error # "no" ->
                    Step(j, Failing(job[j], gathered.error)) /\ UNCHANGED posts
             [] gathered.error = "no" /\ sent # gathered.messages ->
                    Step(j, Failing(job[j], "raised")) /\ posts' = posts \cup new
             [] OTHER -> Launch(j, new, TRUE)
    /\ UNCHANGED <<setup, stores, urls, arrived, overlapped, faults>>

Awaited(p) == job[p.job].stage = "send" /\ job[p.job].group = p.adapter

Arrive(p) ==
    /\ ~p.arrived
    /\ posts' = (posts \ {p}) \cup {[p EXCEPT !.arrived = TRUE]}
    /\ arrived' = arrived \cup {<<p.job, n>> : n \in p.names}
    /\ IF p.adapter = "kafka" THEN topic' = topic \cup {p.value} /\ UNCHANGED held
       ELSE held' = [held EXCEPT ![p.adapter] = (p.place :> p.value) @@ @] /\ UNCHANGED topic
    /\ UNCHANGED <<setup, tables, files, objects, urls, job, overlapped, faults>>

\* Fault: what the requests raise is returned to nobody (return_exceptions).
AnswerAnything(p, ok) ==
    /\ Awaited(p) => MayRun(p.job)
    /\ posts' = posts \ {p}
    /\ IF ~Awaited(p) \/ \E q \in posts \ {p} : q.job = p.job /\ q.adapter = p.adapter
       THEN UNCHANGED job
       ELSE Step(p.job, GroupDone(job[p.job]))
    /\ UNCHANGED <<setup, stores, urls, arrived, overlapped>>

(* The first failure of those sent together fails the execution; answers   *)
(* that come later change nothing.                                         *)
AnswerPost(p, ok) ==
    /\ Awaited(p) => MayRun(p.job)
    /\ posts' = posts \ {p}
    /\ IF ~Awaited(p) THEN UNCHANGED job
       ELSE IF ~ok THEN Step(p.job, Failing(job[p.job], "handling"))
       ELSE IF \E q \in posts \ {p} : q.job = p.job /\ q.adapter = p.adapter THEN UNCHANGED job
       ELSE Step(p.job, GroupDone(job[p.job]))
    /\ UNCHANGED <<setup, stores, urls, arrived, overlapped>>

Answer(p) == p.arrived /\ AnswerPost(p, TRUE) /\ UNCHANGED faults

(* No connection, a status that says so, or no answer in time.             *)
FailPost(p) == faults < MaxFaults /\ faults' = faults + 1 /\ AnswerPost(p, FALSE)

(* A request given up with the execution's client.                         *)
Drop(p) ==
    /\ ~p.arrived /\ ~Awaited(p)
    /\ posts' = posts \ {p}
    /\ UNCHANGED <<setup, stores, urls, job, arrived, overlapped, faults>>

-----------------------------------------------------------------------------
(* Components as sources and sinks.                                        *)

(* None is run unless all of them can be.                                  *)
StartComponents(j) ==
    /\ job[j].stage \in {"load", "send"} /\ MayRun(j) /\ job[j].writing = None
    /\ GroupKind(j) = ComponentKey
    /\ LET provided == Comp!Provided(ToSet(job[j].wirings.in), ToSet(job[j].wirings.out))
           starts(w) == IF job[j].stage = "load" THEN Comp!SourceStarts(w, provided)
                        ELSE Comp!SinkStarts(w, provided)
       IN  IF \A w \in Range(Group(j)) : starts(w)
           THEN Write(j, [running |-> AtWork(j), failed |-> FALSE])
           ELSE Step(j, Failing(job[j], "handling"))
    /\ UNCHANGED <<setup, stores, urls, posts, arrived, overlapped, faults>>

\* Fault: errors in the results of the components are not looked for.
EndComponentUnread(j, i, ok) ==
    LET running == job[j].writing.running \ {i}
        read == [k \in AtWork(j) |->
                    [error |-> "no", frame |-> Components[Comp!IdOf(Wiring(j, k))].value]]
    IN  CASE running # {} -> Write(j, [running |-> running, failed |-> FALSE])
          [] running = {} /\ job[j].stage = "load" -> Provide(j, AtWork(j), read)
          [] OTHER -> Step(j, GroupDone(job[j]))

(* One of them has answered; the last one to answer ends the group.        *)
EndComponent(j, i, ok) ==
    LET running == job[j].writing.running \ {i}
        failed == job[j].writing.failed \/ ~ok
        read == [k \in AtWork(j) |->
                    [error |-> "no", frame |-> Components[Comp!IdOf(Wiring(j, k))].value]]
    IN  CASE running # {} -> Write(j, [running |-> running, failed |-> failed])
          [] running = {} /\ failed -> Step(j, Failing(job[j], "handling"))
          [] running = {} /\ ~failed /\ job[j].stage = "load" -> Provide(j, AtWork(j), read)
          [] OTHER -> Step(j, GroupDone(job[j]))

IsRunning(j, i) ==
    /\ job[j].stage \in {"load", "send"} /\ MayRun(j) /\ job[j].writing # None
    /\ GroupKind(j) = ComponentKey /\ i \in job[j].writing.running

RunComponent(j) ==
    /\ \E i \in AtWork(j) :
        /\ IsRunning(j, i) /\ EndComponent(j, i, TRUE)
        /\ arrived' = IF job[j].stage = "send" THEN arrived \cup {<<j, Wiring(j, i).name>>} ELSE arrived
    /\ UNCHANGED <<setup, stores, urls, posts, overlapped, faults>>

(* What is raised in a component is answered; anything else cancels the    *)
(* components still running.                                               *)
ComponentFails(j) ==
    /\ faults < MaxFaults /\ faults' = faults + 1
    /\ \E i \in AtWork(j) :
        IsRunning(j, i) /\ (EndComponent(j, i, FALSE) \/ Step(j, Failing(job[j], "handling")))
    /\ UNCHANGED <<setup, stores, urls, posts, arrived, overlapped>>

-----------------------------------------------------------------------------

Advance(j) ==
    \/ Begin(j) \/ Load(j) \/ LoadRest(j) \/ Receive(j) \/ Run(j)
    \/ BeginTransaction(j) \/ EndTransaction(j) \/ OpenFile(j) \/ CloseFile(j)
    \/ HeadObject(j) \/ PutObject(j) \/ Return(j) \/ LaunchRest(j) \/ LaunchKafka(j)
    \/ StartComponents(j) \/ RunComponent(j)

Next ==
    \/ \E j \in Jobs : Advance(j) \/ RunFails(j) \/ WriteFails(j) \/ ComponentFails(j)
    \/ \E p \in posts : Arrive(p) \/ Answer(p) \/ FailPost(p) \/ Drop(p)

(* Event loops go on, and a request is answered or times out.              *)
Fairness ==
    /\ \A j \in AllJobs : WF_vars(j \in Jobs /\ Advance(j))
    /\ WF_vars(\E p \in posts : Arrive(p) \/ Answer(p))

Spec == Init /\ [][Next]_vars /\ Fairness

-----------------------------------------------------------------------------

TypeOK ==
    /\ setup \in Setups
    /\ \A j \in Jobs :
        /\ job[j].stage \in {"waiting", "load", "run", "send", "done"}
        /\ job[j].answer \in {"none", "ok", "failure", "raised", "refused"}
        /\ (job[j].stage = "done") = (job[j].answer # "none")
        /\ (job[j].stage \in {"load", "send"}) = (job[j].left # {})
    /\ DOMAIN tables = DOMAIN Databases /\ DOMAIN held = DOMAIN setup.held
    /\ \A p \in posts : p.job \in Jobs /\ p.arrived \in BOOLEAN
    /\ arrived \subseteq Jobs \X UNION {DOMAIN Task(j).flow : j \in Jobs}
    /\ overlapped \in BOOLEAN /\ faults \in 0..MaxFaults

Outputs(j) == ToSet(job[j].wirings.out)

(* An execution is answered with ok only when every output wired to a sink *)
(* outside has reached it: resolve_and_send_data_from_wiring and send_data *)
(* pass every failure on, also one of several requests sent together.      *)
(* SERIES have no endpoint to be posted to (generic_rest/__init__.py 209). *)
OkMeansDelivered ==
    \A j \in Jobs : job[j].answer = "ok" =>
        \A w \in Outputs(j) :
            \/ Kind(w) = "direct_provisioning"
            \/ Kind(w) = "generic-rest" /\ ~Rest!HasEndpoint(w.type)
            \/ <<j, w.name>> \in arrived

(* An object once written is never replaced (write_blob.py 258-303, "only  *)
(* write if the object does not yet exist"), whatever executions of one    *)
(* process name the same key.                                              *)
ObjectsAreNeverOverwritten ==
    [][\A b \in DOMAIN objects : \A k \in DOMAIN objects[b] :
        b \in DOMAIN objects' /\ k \in DOMAIN objects'[b] /\ objects'[b][k] = objects[b][k]]_objects

(* What an execution answered with ok has written to the blob storage is   *)
(* offered as a source below the same thing node and loads as it was       *)
(* written (write_blob.py and load_blob.py take keys apart and put them    *)
(* together each in their own way).                                        *)
WrittenObjectsCanBeLoaded ==
    \A j \in Jobs : job[j].answer = "ok" =>
        \A w \in Outputs(j) : Kind(w) = BlobKey =>
            \E s \in Blob!SourcesBelow(objects, w.ref_id) :
                Blob!LoadBlob(objects, w.ref_id, s.metadataKey)
                    = [error |-> "no", frame |-> job[j].values[w.name]]

(* Executions that write the same span of a time series table again, one   *)
(* after the other, after failures or in any process, leave no row twice:  *)
(* what a frame is written over is deleted in its transaction              *)
(* (write_table.py 110-232).                                               *)
RepeatingDoesNotDuplicate ==
    ~overlapped => \A k \in DOMAIN tables : \A t \in DOMAIN tables[k] :
        t \in DOMAIN Databases[k].timeseries_tables =>
            \A r \in DOMAIN tables[k][t] : tables[k][t][r] = 1

(* A virtual input is loaded from the source, and an output sent to the    *)
(* sink, that its own id stands for (resolve_wirings.py 63-79 goes by      *)
(* position).                                                              *)
IsOwn(given, resolved) ==
    \A i \in DOMAIN resolved :
        LET w == Accepted(given[i])
        IN  Virtual(w) => resolved[i] = Referenced(w, setup.entries[w.ref_id])

ResolvedWiringsAreTheirOwn ==
    \A j \in Jobs : /\ IsOwn(Task(j).inputs, job[j].wirings.in)
                    /\ IsOwn(Task(j).outputs, job[j].wirings.out)

(* What an adapter lists as a source or sink in its structure it finds     *)
(* again by the id it lists, whatever executions have written since (the   *)
(* listings and the look-ups of each adapter's structure.py are separate). *)
OfferedAreFound ==
    /\ \A id \in Sql!Sources(tables) : Sql!SourceFound(id)
    /\ \A id \in Sql!Sinks : Sql!SinkFound(id)
    /\ \A s \in Blob!Sources(objects) :
        s = Blob!SourceById(objects, s.id) /\ s = Blob!SourceByMetadataKey(objects, s.node, s.metadataKey)
    /\ \A s \in Blob!Sinks : s = Blob!SinkByMetadataKey(s.node, s.metadataKey)
    /\ \A path \in Files!Sources(files) : Files!SourceFound(files, path)
    /\ \A id \in Files!Sinks(files) \cup UNION {Files!SinksAt(files, dir) : dir \in LocalDirs} :
        Files!SinkFound(files, id)
    /\ \A id \in Kafka!Sources : Kafka!SourceFound(id)
    /\ \A id \in Kafka!Sinks : Kafka!SinkFound(id)
    /\ \A id \in Comp!Sources : Comp!SourceFound(id) /\ Comp!ValidSource(id)
    /\ \A id \in Comp!Sinks : Comp!SinkFound(id) /\ Comp!ValidSink(id)
    /\ Comp!Sources = UNION {Comp!SourcesIn(c) : c \in
            {d \in Comp!Categories : Comp!Allows(SourceCategories, d)}}
    /\ Comp!Sinks = UNION {Comp!SinksIn(c) : c \in
            {d \in Comp!Categories : Comp!Allows(SinkCategories, d)}}
    /\ \A id \in Comp!Sources : Comp!NeedsNoTimestamps(id) =>
            Comp!WiringFits(id, DOMAIN Comp!Filters(id, FALSE))
    /\ \A id \in Comp!Sinks : Comp!NeedsNoTimestamps(id) =>
            Comp!WiringFits(id, DOMAIN Comp!Filters(id, TRUE) \cup {"data"})

(* Every execution ends: no failure of one of several requests and no      *)
(* process standing still for another execution keeps it waiting.          *)
EveryExecutionIsAnswered ==
    \A j \in AllJobs : <>(j \in Jobs => job[j].stage = "done")
=============================================================================
