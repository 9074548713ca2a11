# TLA+ models of hetida designer

hetida designer lets users compose *transformation revisions* (components with
Python code, workflows made of operators that instantiate other revisions),
release and deprecate them, and execute them over data that adapters provide.
This directory holds TLA+ modules that model its core logic, TLC
configurations that check them on small instances, and proofs that TLAPS
checks for instances of every size. All paths below are relative to the
repository's root (`src/` in `PROJECT.json`), and `runtime/hetdesrun/` is
abbreviated to `hd/`.

## 1. Inventory

| component | state it keeps | operations | hard because |
|---|---|---|---|
| Transformation store (`hd/persistence`, `hd/backend/service/transformation_router.py`) | tables `transformation_revisions` and `nestings` | POST, PUT, import, release, deprecate, delete | nestings are a closure that only one save at a time updates; payloads are made from views that may be outdated; revisions are frozen by convention only |
| Import, export, maintenance (`hd/exportimport`, `hd/trafoutils`) | none of their own; sequences of store transactions, files | import with filters and ordering by nesting level, deprecate older revisions, delete, purge, refill, export | order of dependencies, one of many steps failing, a crash between steps |
| Workflow editing (`hd/persistence/models/workflow.py`, `hd/trafoutils/upgrade_operators.py`, workflow editor of the frontend) | a draft workflow's operators, links, inputs, outputs and constants; the stored interface | edit, save, read, show and hide inputs, upgrade operators | validators change what they read, one after the other; upgrades are stored without them |
| Execution in the backend (`hd/backend/execution.py`) | process-wide caches of revisions | collect nested revisions and imports, build the runtime input, run | reads in transactions of their own; caches have no invalidation |
| Component code loading (`hd/component`) | modules in `sys.modules`, marks of running imports | hash, import, nested component imports | stale modules, import cycles, bookkeeping that survives a failure |
| Runtime engine (`hd/runtime/engine`, `hd/runtime/service.py`) | the computation graph of one execution | parse, evaluate nodes lazily, collect results | shared nodes awaited by several consumers, cycles, partial failure |
| Execution requests (`transformation_router.py`, `hd/backend/kafka`) | coroutines, consumer group position | execute over HTTP, asynchronously with a callback, or by message | restart, cancellation, commits in the background, failures of others |
| Outgoing authentication (`hd/webservice/auth_outgoing.py`) | the access and refresh tokens of a service | obtain, refresh, hand out | one token and one lock for all requests; expiry while answers are slow |
| Kafka consumption mode (`hd/adapters/kafka/consumption_mode`) | committed offset, position, executions in flight | consume, execute, commit | crash and redelivery, commit before or after, error handling flags |
| Structure service (`hd/structure`, virtual structure adapter) | element types, thing nodes, sources, sinks and their associations | upsert a complete structure, delete all, browse | partial upserts, ids of rows that exist already, delete and update in two transactions |
| Adapters (`hd/adapters/*`, `hd/runtime/service.py`, `hd/models/wiring.py`) | SQL tables, files, objects, data of other services, topics | list and find sources and sinks, resolve virtual ones, load, send | several adapters in one execution, repetition after a failure, two processes on one store |
| Base components for gaps (`runtime/transformations/components/data-quality`) | none: functions on series and tables of intervals | detect gaps, locate replacements | merging in passes over neighbours, open and closed ends, two components that must agree |
| Web service and authentication of requests (`hd/webservice`) | the identity provider's public key | routing, bearer token checks | pure request handling, but for the key's reloading |
| Dashboarding (`hd/backend/service/dashboarding*.py`) | none | renders HTML and JavaScript | formatting |
| Frontend (`frontend/`) | NgRx store of revisions, open tabs | edit, save, release, copy | asynchronous saves, views that become outdated |
| hdctl, demo adapter, deployment files | none / example data | command line, example REST adapter | scripts |

How they interact: the frontend and `hdctl` call the router of the store; the
import writes through the same transactions, one revision at a time; the
backend's execution reads revisions and nestings from the store through its
caches, builds one self-contained input and hands it, with a token, to the
runtime. The runtime resolves the wirings of the virtual structure adapter with
the structure service, loads data through the adapters, loads the component code,
evaluates the graph and sends results through the adapters. HTTP requests, the
Kafka execution consumer and the Kafka consumption mode call that execution; the
component adapter calls the engine again for components wired as sources and
sinks. PostgreSQL (or SQLite), Kafka, the identity provider and the services
behind adapters are outside of the repository.

What makes each component correct:

- *Store*: released and deprecated revisions keep their body; nothing released
  contains or imports a draft; nestings tell what contains what, so that cycles
  are refused, deprecation reaches every instance and execution finds every
  nested revision.
- *Import, export, maintenance*: dependencies before dependants, nothing half
  imported that the store does not allow, an interrupted or partly failed import can
  be completed by repeating it, a deletion that has begun is not refused half way,
  what is exported can be restored.
- *Editing*: reading a workflow does not change it again, what the editor shows is
  what an execution gets, upgrades keep what fits.
- *Execution and code loading*: what runs is what was asked for, at least as new;
  released revisions run with what was released; circles are reported only when there
  are circles.
- *Engine*: every function once, after its inputs, all that are needed; circles
  are found and reported; every execution ends.
- *Requests and tokens*: every request comes to an end; a handed out token is valid,
  and one caller's failure is not another's.
- *Kafka consumption*: the delivery guarantee that the options document.
- *Structure*: what is stored is the merge of the structures that were sent;
  uuids stay; every element can be browsed to.
- *Adapters*: "ok" means delivered; a repeated execution does not duplicate; objects are
  not overwritten; what is offered can be found and used.
- *Gap components*: reported gaps are those there are; data and replacements together
  are the whole rhythm.
- *Frontend*: the newest edit wins.

The hazards, each at its line, are listed in `PROJECT.json` with the properties
that would notice them going wrong.

## 2. Modules and plan

| module | models | builds on |
|---|---|---|
| `RevisionLifecycle` | abstract: one revision's life cycle | |
| `TransformationStore` | the store's transactions, nestings, marks | refines `RevisionLifecycle` |
| `RevisionImport` | packages, filters, order, transactions, deprecation, deletion, purge and refill | what the store accepts |
| `RevisionExport` | listing with dependencies, files, restoring them | extends `RevisionImport` |
| `RevisionImportProofs` | selections, the order of storing and deleting, what exports restore, for all packages | |
| `WorkflowContent` | a workflow's content and the validators that clean it up | |
| `OperatorUpgrade` | one operator put on another revision | extends `WorkflowContent` |
| `WorkflowEditing` | editor and backend around a draft workflow | extends `OperatorUpgrade` |
| `WorkflowEditingProofs` | what validators, edits and upgrades leave, for all operators and revisions | |
| `ComponentLoading` | modules by hash, running imports, failures | |
| `BackendExecution` | cached reads of a store that changes, the runtime's input | extends `ComponentLoading` |
| `BackendExecutionProofs` | what executions run, for all revisions and interleavings | |
| `ExecutionEngine` | evaluation of one workflow, and the link check before it | |
| `ExecutionEngineProofs` | order and outcome of evaluations, for all graphs | |
| `AccessTokens` | obtaining, refreshing and sharing a token | |
| `ExecutionRequests` | requests over HTTP and Kafka in one process | extends `AccessTokens` |
| `BackendServiceProofs` | the store's invariants and its refinement, for all instances; validity of tokens, for all lives and numbers of requests | `TransformationStore`, `ExecutionRequests` |
| `KafkaConsumption` | the consumption loop with commits and restarts | |
| `KafkaConsumptionProofs` | delivery guarantees, for all topics | |
| `VirtualStructure` | abstract: a forest with attachments that is merged | |
| `StructureService` | the tables, uuids and two transactions behind it | refines `VirtualStructure` |
| `StructureServiceProofs` | the tables' invariant and the refinement, for all structures | |
| `AdapterWiring` | validation and resolution of wirings, groups by adapter | |
| `SqlTables`, `BlobStorage`, `LocalFiles`, `RestAdapter`, `KafkaMessages`, `ComponentAdapter` | one adapter each: what it offers, finds, loads and writes | |
| `WiredExecution` | executions in several processes that load, run and send | extends `AdapterWiring`, instantiates the adapters |
| `WiredExecutionProofs` | what "ok" means, resolution by position, objects that stay and can be loaded, sources and sinks that are found, for all wirings and executions | |
| `GapIntervals` | intervals, processing ranges and their merging | |
| `GapReplacement` | gap detection and replacement, one after the other | extends `GapIntervals` |

`MC*` modules hold instances for TLC and nothing else. The suite has one run for
each distinct question; a new component is composed with a module there is, or
joins the run whose question is its own, so that the whole suite stays quick
enough to run on every change.

What the plan has left, in this order:

1. proofs about `GapIntervals`: what one pass of merging keeps;
2. of `WiredExecution`, a proof of `RepeatingDoesNotDuplicate`;
3. concurrent store transactions (read and write apart) and the browser's store of
   revisions, as modules of their own.

## 3. How the modules correspond to the code

**One action, one transaction.** The store's handlers (`session.begin()` around
all of their work), the imports and the structure service do everything in one
transaction, or in one after the other; an action is one of them, and a
transaction that raises changes nothing. In coroutines of one event loop an action
reaches from one `await` to the next.

**TransformationStore.** `state`, `content` and `imports` are the columns of
`transformation_revisions` that decide anything: the state, the operators of a
workflow (`id`, the revision they instantiate, the state they carry) and what a
component's code imports. `nestings` is the table of that name with its columns.
`Post`, `PutNew`, `Save`, `Release`, `Deprecate` and `Delete` are the ways through
`store_single_transformation_revision`,
`update_or_create_single_transformation_revision` and
`delete_single_transformation_revision`. Payloads are chosen by the client: operators
that are stored, or new ones at the places `Placements` allows, with the state
the client sees (`StaleClients`: or has ever seen). The order of rows in an
unordered select is chosen freely (`Merged`). Left out: names, tags, wirings,
documentation, io interfaces, timestamps and groups.

**RevisionImport, RevisionExport.** `package` is what is imported, its order
included; `Params` and `Matching` are `FilterParams` and `basic_trafo_filter_map`, with one
set standing for the criteria on type, name, category and group; `Passing`, `Levels` and
`Ordered` are the rest of `filter_and_order_trafos`; `Import` keeps of a save what decides
whether it succeeds, and `code` the state that the header of a component's code names.
`pc` tells which operation runs and where it is; one runs at a time, and `Crash` ends it
anywhere. The deletions take `delete_transformation_revisions`' order, one transaction
each. `Listed` is the listing endpoint with dependencies, `FileOf` and `Loaded` are the two
forms in which a revision is written to a file and read again, `Restored` is what imports
of the directory put into an empty store.

**WorkflowContent, OperatorUpgrade, WorkflowEditing.** Content is a record of sets:
operators with their inputs and outputs, links, inputs, outputs and constants of
the workflow. A connector is its name and a generation that stands for its uuid.
`Validated` is the chain of validators of `WorkflowContent` in their order, applied to
every request body and to every read; `seen` is what a read yields. `Fitted` and
`InterfaceOf` are `TransformationRevision`'s fitting of the interface to the content;
`interface` is the column with the interface stored, which lists of revisions show.
`UpgradeAll` and `ChangeRevision` are the two upgrade endpoints, which store without
validation. The edits are the frontend's handlers, each followed by its save.
Operators may instantiate drafts, whose inputs and outputs are edited meanwhile: `Revisions`
says which interfaces a revision can have, `current` which it has, and `EditDraft` is the edit.
The workflow is not told (`docs/versioning_in_hetida_designer.md:9`); its operator looks like
the draft did until it is upgraded (`upgrade_operators.py:727`). An operator made from an
outdated copy of the draft in the editor is one whose draft was edited right afterwards.

**BackendExecution, ComponentLoading.** One process with its three caches
(`rootCache`, `nestedCache`, `importCache`) and its modules; `db` is what other requests
save, release and deprecate between any two reads. `phase` is the place in
`prepare_execution_input`; `provided` is the runtime's input; `modules` is `sys.modules`
by hash of code, each with the hashes of what it imported when it was run. `Wrapped` is
the workflow around a component that is executed itself. Versions of content
stand for content; `Contents` fixes what each version contains and imports.
A request that releases brings a version of its own, an outdated or an unsaved one:
`Admitted` looks at the imports of that one, the stored one stays (`revision.py:547`, line
511). `sound` is a history: the revisions that were released when everything their stored
content uses was, and was sound.

**ExecutionEngine.** `provider` and `outs` are the node graph that
`recursively_parse_workflow_node` makes; a state has the stack of evaluations of
`result` and the flag `_in_computation`. The one task there is evaluates nodes on
demand, so its interleavings are the orders in which inputs are awaited. `Links`
and `LinksRemaining` are the check `links_acyclic_directed_graph` of the persistence
model, which workflows have passed before they come here, except those sent to the
runtime directly.

**AccessTokens, ExecutionRequests.** Coroutines of one process: those of HTTP requests
(waited for, in the background with a callback, for a revision or for the latest one
of a group) and the consumer of execution messages. `pc` is where each is; `queue` is the
lock of the token manager, `flight` the request to the identity provider of whoever
holds it. Tokens have the age the manager estimates and the true one. Time passes in
ticks. `AutoCommit`, `Stop`, `Crash` and `Start` are the Kafka client library and the
process.

**KafkaConsumption.** `cfg` has the attributes of `KafkaConfig` that the loop
reads; `pc` is the place in `start_consumption_mode`; `committed`, `position` and
the actions `Publish` and `AutoCommit` stand for the broker and aiokafka, as the
loop uses them. Exceptions, cancellation and crashes are actions of their own.

**StructureService.** `node` and `leaf` are rows by external id, with the uuid
and the references by uuid; sources and sinks follow the same code and are one set.
A payload gives every element a new uuid or, when it is a copy of what the service
returned, the stored one. `Replace` is deletion and update in two transactions.

**WiredExecution and the adapters.** A *situation* (`setup`) is two or three executions with
their wirings, the stores' contents and what the workflow computes of its inputs; it never
changes. `AdapterWiring` accepts or refuses a wiring field by field, resolves virtual
sources and sinks in batches. An execution goes through its wirings adapter by adapter:
`left` are the places in the wiring that are still to be loaded or sent, `group` is the key of
the adapter whose turn it is. SQL, file and blob wirings follow each other; the process stands
still for a group of the SQL or file adapter and while an object is written (`Blocks`). REST posts
and Kafka messages go out together (`posts`) and arrive and are answered in any order, some of
them failing. A table is a bag of
rows, a frame a bag of rows with the attributes that decide what a transaction deletes
first; the objects are kept by bucket and key. Components wired as
sources and sinks are executions of their own within one.

**GapIntervals, GapReplacement.** Timestamps are ticks; a series is the set of ticks
with data. `Merged` is `merge_intervals` with its four passes, each grouping neighbouring
rows; detection and replacement are one action each, over every series, range,
frequency, offset and set of external gaps of the instance.

## 4. Runs

| run | question and result |
|---|---|
| `StoreNested` | With up to date clients: are all live instances of a deprecated revision marked, and circles of up to three operators refused although the rows that are checked may be outdated? Yes. |
| `StoreStale` | With payloads from outdated views: does a draft operator get into a released workflow, does a released workflow lose what its execution needs, do operators' targets stay, is the life cycle kept? No, no, yes, yes. |
| `StoreRing` | Are all circles refused? No: four workflows, put into each other from the outside in, get past the check, which reads rows that are not updated when an inner workflow changes. |
| `ImportRepeated` | Any sequence of imports of a package with any filter, of maintenance operations, and crashes anywhere. Holds: what goes with a selection is complete, in imports as in exports, which can be restored; the store is closed; no deletion is refused half way; repeated imports complete what is left. |
| `EditingUpgrades` | Editing a workflow of two operators whose revisions change types and obligations forth and back, while a draft among them is edited, released and deprecated. Holds: every shown input has one source, reading is stable, operators that are not marked look like their revisions, drafts edited meanwhile included once they are upgraded, upgrades keep what fits. |
| `BackendReads` | Executions one after the other while others save, release (from outdated views, too) and deprecate between any two reads. Holds: no outdated code; what was released after all it uses succeeds and runs what was released; every execution ends. |
| `EngineInner` | For every graph over three operators and a nested workflow, circles, a missing input and a plot included: runs once and after the inputs, true outcomes, end; circle-free levels are circle-free together. Holds. |
| `ExecutionRequests` | HTTP requests and execution messages sharing one token, with slow or refusing providers, failing runtimes, a stop or a crash. Holds: handed out tokens are valid, nothing waits for ever. |
| `KafkaDelivery` | For all 128 combinations of options: at most once, at least once, and progress unless a malformed message is retried for ever. Holds. |
| `StructureUpdates` | Any sequence of structures, replaced or merged, with a crash and the startup population. Holds, refinement included. |
| `DataAdapters` | 21 situations of two or three executions in up to two processes over all adapters, with up to two failures. Holds: ok means delivered, objects stay, repetitions do not duplicate, virtual wirings get their own sources, what is offered is found, all are answered. |
| `GapReplacement` | Every series over seven ticks with ranges, offsets and external gaps. Holds: reported gaps are those found; data and replacements complete the rhythm. |

### Bounds, and why they are enough

- Store: three workflows in a chain over one component, with an operator that
  closes the circle (so nestings of depth 3, of which two levels are copies),
  and in `StoreNested` a component that imports another; `MaxDepth` is 3 there and 5 in
  the ring, one more than can occur without a circle. `StoreNested` has no stale clients
  and no overwriting, which its properties need, see section 6; `StoreStale` switches
  stale clients on. Four workflows in the ring are what the violation needs: three are
  refused (`ShortCyclesAreDetected`). Overwriting and deletions that ignore the state
  are covered by the proofs.
- Import: two components, two workflows, each pair one revision group; all
  dependencies among them and all states; packages in order and in reverse; three
  sets of options; every set of revisions as what is filtered for; operations and
  crashes without bound. 1.7 million states.
- Editing: two operators on one revision group of two revisions with one input and one
  output each: the input's type is widened and becomes required, the output is taken
  away; going back replaces both. The second revision may be a draft that is
  edited from the first one's interface to the other one and back. `MaxUuid` 2: a
  connector and the one that replaced it. Symmetric in the operators (safety only).
  38 thousand states. With an output that is widened instead all five properties hold,
  too (72 thousand states, no run of its own).
- Executions in the backend: two components and a workflow with two versions each, such
  that components import each other in between, so that circles occur, and the
  workflow may be deprecated; requests that release with either version; a process that
  is restarted any number of times. 783 thousand states.
- Engine: three operators and one nested workflow make all shapes of shared nodes
  and circles within a level and across two; `MaxStack` 6 is more than a path
  without repetition has, so that only circles reach it. `runs` saturates at 2.
- Requests: one HTTP coroutine that serves requests without end and the consumer with two
  messages; one end of the process; lives of 3 and 5 ticks with a timeout of 2, so that
  every order of expiry, margin and timeout occurs (`LivesAssumption` names what the
  properties need of real values). Two coroutines are enough to queue for the lock.
- Kafka consumption: two messages (one before the current one and the current one), two
  faults: one that leaves something uncommitted and one during recovery. The
  proofs have no bound. `MaxAttempts` saturates a counter that only has to tell
  one from two.
- Structure: three thing nodes (a move of a node below its former grandchild's
  level), one source; `MaxUuid` 2: the stored uuid and a new one; one crash.
- Adapters: situations of at most three executions, chosen so that every adapter loads,
  writes and refuses, twice on the same place, in one process and in two;
  `MaxFaults` 2 (a repetition that fails again), `BatchSize` 2 is as many
  virtual wirings of a kind as an execution has, see section 6 for more.
- Gaps: `MaxTime` 6 with frequencies of 2 and 3 ticks leaves room for two gaps with more
  than one missing point each and data between them; eight sets of external
  gaps that are cut, overlap, touch, lie within each other or differ in their ends only.

Deadlock is checked where requests can always come. In `KafkaDelivery` everything
may have been consumed; in `EngineInner`, `DataAdapters` and `GapReplacement` executions
end and nothing follows.

### Fairness

- `KafkaConsumption`: the loop's next step (`WF(Loop)`; the event loop runs the
  coroutine) and the restart of the process (`WF(Start)`; the container's restart
  policy). No fairness for publishing, commits of the library, faults.
- `ExecutionEngine`: `WF(Next)`; the execution is the one task its caller awaits.
- `BackendExecution`: the process goes on with the execution it has begun; none for
  requests, writes by others and restarts.
- `ExecutionRequests`: each coroutine, the token's holder and provider (requests to it have
  a timeout), the consumer's taking and the restart. That the runtime answers
  is an assumption: the backend's request to it has no timeout.
- `StructureService`: a handler that has begun goes on (`WF(FinishReplace)`) and
  the service is started again (`WF(Start)`); none for requests and crashes.
- `RevisionImport`: each step of an operation that has begun; none for beginning one and
  for `Crash`. `RepeatedImportsComplete` therefore has the premises that imports of
  the whole package end again and again and that deletions end some day.
- `WiredExecution`: each execution's next step, and the arrival and answering of posts, which
  have a timeout; messages keep coming for executions that wait for one.

## 5. Proofs

Every theorem speaks of all values of the constants that fulfil the named
assumptions of the modules; what a theorem assumes in addition is said here. The
bounds of the runs (`MaxUuid`, `MaxCrashes`, `MaxStack` and so on) are constants like
the others and may be of any size.

*Store* (`BackendServiceProofs`). The inductive invariant is

    StoreInv == TypeOK /\ NoDraftOperatorOutsideDrafts
                /\ ForeignKeysHold /\ DirectNestingsMatchContent

Each part needs the others: the foreign keys make an operator's target exist only
because the depth 1 rows are the operators (`TargetsExist`), release keeps stored
content and so needs that stored operators were validated, and marking keeps ids,
hence rows. `MergeKeepsKeys` and `UpdateNestingRows` say what a save leaves in the
nestings table, `StepShape` what any step does to one revision; the preservation
lemmas go by that: saving, disabling, removing.
`DirectNestings`, that the depth 1 rows are the operators, is proved and not run by itself.
`LifecycleImplemented` is the refinement of `RevisionLifecycle` under `Careful` (no
overwriting of released revisions, no deletion that ignores the state): both flags
exist to break it. `DeprecatedInstancesMarked` adds `MarkInv` under `UpToDate`.

Two theorems are about nestings that nobody refreshes. `ShortCyclesDetected`
has no further assumption: a save that would close a circle of at most three operators
meets a row that tells, since of the rows of the workflow it puts in those at depth 1
are never outdated and those at depth 2 were copied from such. `UndeprecatedAreExecutable`
assumes `Careful` and that operators with one id instantiate one revision
(`OneTargetPerOperator`; the primary key of `nestings` is why). Its invariant `ReleasedInv`
says of every set of released workflows that is closed under undeprecated operators that
their rows find what they reach: rows of released workflows are copied when everything
below them is frozen already.

*Structure* (`StructureServiceProofs`), for structures that bring their element types
and updates that do not turn stored children into roots (`Careful`; section 6 says what
happens otherwise). `StructureInv` says that a row's uuid is its own, that the parent a row
names is stored under the uuid the row has for it, that there is no circle by names, that
references lead to stored nodes, and that between the two transactions of a replacement
the tables are empty and the structure to come is valid. `NodesAreFound` follows: a set of nodes
without way to a root would be a circle. `UpdateKeepsTables` has the work, since rows
are upserted level by level. `StructuresAreMerged` is the refinement of
`VirtualStructure`: replacement is its deletion and, later, its merge; uuids are what the
abstract specification does without.

*Editing* (`WorkflowEditingProofs`). `EditingInv` is that what is stored is `WellFormed`
(links end at connectors of the operators they name, no connector has two
sources, connectors are told apart by name), that an output leads to operators or to
the workflow's outputs but not to both (`OneKindOfTarget`), that the stored interface is that
of the content and that the mark of every operator holds (`MarksHold`): one that is neither
marked as a draft's nor stands for a deprecated revision `Matches` the interface its revision
has now. Edits of drafts keep that since they concern marked operators only, and upgrades
set the mark with the interface; the edit of a marked operator's draft is what an upgrade is
needed for, and `UpgradesAreUpToDate` says that it is enough. What is stored need not
be what the validators make of it, see section 6; so the theorems
about what is read (`InputsAreFedOnce`, `ReadingStaysStable`,
`OperatorsLookLikeTheirRevisions` and, for upgrades, `ConnectionsSurviveUpgrades`) need what
one round of validators does with any well-formed content: `ValidatedIsWellFormed`,
`ValidatedIsFedOnce` and `ValidatedTwice`. One round is enough because inner links survive
it once they fit, an input is added only where no inner link leads, and `OneKindOfTarget`
keeps an output that the first round adds from being dropped in a second.
Upgrading all operators folds over them in any order: `StepUpgrades` goes from a set of upgraded
operators to one more, with `Carried` for those it has passed and `Untouched` for the
others. Needed of the constants: finitely many operators and connector names that are
unique in each interface.

*Import and maintenance* (`RevisionImportProofs`). All of it rests on
`LevelsRise`: what a workflow contains has a lower level, because packages have no
circles (`DependenciesRank`). `FilterIsTheClosure` is then an argument about the one pass
over the levels: what a level adds is of lower levels, so whatever was passed before
stays complete (`LevelIsPassed`). `OrderedIs` says that what passes is listed once each, by
levels that do not fall. `ImportInv` has `StoreIsClosed`, that what is stored has the
package's state or was deprecated from RELEASED (`StatesArePackaged`) and
`DeletionIsOrdered`: while deleting, everything in the queue is stored, with it is all that
contains it, and levels do not rise. The last holds when a deletion begins since all
three selections contain what contains their members (`SelectionContains`: drafts
because released workflows contain released revisions, unused deprecated ones because what
is contained is so on all levels), and it makes `DeletionGoesThrough`: what contains the next
one would be of a higher level, thus gone. `SelectionsStayComplete` adds what exports are good for: what is fetched contains
all that it depends on (`FetchedIsWhole`), its files name the states it was stored
with (`FilesNameStates`, for code alone by `CodeNamesStates`, part of the invariant), and an
import adds every revision that finds what it depends on (`ImportedIntoIs`). Components
follow each other in the enumeration, so that each import adds the next one at least,
and the last import adds the workflows. Assumed are finitely many revisions and
packages that list each once.

*Execution in the backend* (`BackendExecutionProofs`), with component loading.
`ExecutionInv` explains everything in the process by what is or was stored: a cached
revision is frozen (`CachesAreTrue`), a revision that was read is at least as new as
what was stored when the execution was asked for (`ExecutionIsRead`), the running
imports are a chain of components that import each other (`StackIsAChain`), and
modules that were made without a write in between hold frozen ones (`ModulesAreTrue`).
A release checks the imports of its request, not those it stores, so the invariant
cannot say that released revisions use released ones. It says it of those in `sound`
(`SoundUseSound`), of which every set has one that uses no other of it (`SoundAreFounded`), so
that executions of these meet no circle of imports, and of their modules: while nothing was
disturbed they hold no drafts' modules. `ReleasedAreExecutable` and
`ReleasedRunsWhatIsReleased` speak of these, among whatever else was released carelessly;
`NodesRunWhatWasAsked` speaks of all executions.

*Engine* (`ExecutionEngineProofs`). `EngineInv` has the stack of evaluations as a chain of nodes
that need each other and the results as a set that contains everything its members need
and in which none needs itself. `FunctionsRunOnceAfterInputs` follows without further
assumptions, `OutcomesAreTrue` and `LinkCheckIsEnough` assume that there are no more nodes than
the recursion limit allows (`Cardinality(Nodes) <= MaxStack`): the stack then has room for
every chain without repetition. `LinkCheckIsEnough` says that Kahn's algorithm removes
all edges exactly if they have no circle, and that a circle across levels gives one
within a level: the smallest workflow that contains a whole circle either is left and
entered again through operators it contains, which makes a circle of its own operators, or
contains a smaller one that does.

*Requests* (`BackendServiceProofs`). `TokensAreValid` is an action property: whoever is
handed a token gets one that has not expired by its true age. It needs that the manager
takes tokens for older than they are (`AgesAreEstimatedSafely`), since it counts from
before the request. `RequestsInvariant` says besides that the queue of the lock is that of
the waiting and that messages taken are accounted for.

*Executions with their wirings* (`WiredExecutionProofs`), for any wirings that are lists, any
stores, processes, faults and adapters. `DeliveryInv` says of every execution, beside its record
and of the requests and messages under way: what is not left has been delivered
(`OthersDelivered`); while answers are awaited, each output of the group has been delivered or is in
a request that is awaited (`PostsCover`), while components run, its component is still running or one
has failed (`ComponentsCover`); and a request belongs to the group that awaits it or to one that is
not at work again (`PostsAreSound`), which is why a late answer ends nobody else's group.
`OkIsHonest` follows: "ok" means delivered, `OkMeansDelivered`.

`VirtualWiringsAreTheirOwn`: rows of virtual sources and sinks are matched to the wirings by
position, and the database orders no query's rows. The collection's length is divided by 500
(`BatchSize`, `BatchAssumption`) to get the length of a batch, so up to 500 wirings come one by one,
in order (`RowsComeInOrder`); the theorem speaks of executions with no more (`FewVirtualWirings`). With more the
rows of one query may come in any order, which the code takes for theirs.

`ObjectsAreKept` is `ObjectsAreNeverOverwritten`, unless executions of two processes are writing the
same object at a time (`ProcessesKeepApart`), and if buckets hold custom objects beside their model
only at the start (`CustomObjectsHaveModels`). Both are needed: between `HeadObject` and
`PutObject` nothing stops another process from putting the object, and only the model's key
is looked for. Of two executions of one process this is not assumed but proved, since all others wait
(`NobodyElseWrites`). `ObjectsInv` has that no two executions are writing at one place, that the
place is free (`PlaceIsFree`), and that the second object of a model follows the first.

`WrittenIsLoaded` is `WrittenObjectsCanBeLoaded` under the same conditions. `StoredInv` says of every
execution that the outputs its blob storage adapter is done with lie below their thing nodes, under
keys that will be found, with the values the execution still holds (`ReachedIsStored`); that the
object being written goes where it will be looked for (`OnItsWay`); and that names tell the outputs
apart (`NamedOnce`), so that what another adapter delivers is not taken for an object. The
key `Target` makes and the metadata key `KeyOf` reads are shown to be inverse (`TargetsAreFound`,
`StoredIsLoaded`). It needs that the first page of `list_objects_v2`
holds all keys of a bucket (`BucketsAreListed`): of more the code never asks, and an object on a
later page is not found. `HierarchyIsValid` is what the hierarchy's validators establish, and
`NoneIsNoRecord` that `None` is no thing node, key, source or file.

`OfferedIsFound` is `OfferedAreFound` for any databases, hierarchy, files, topics and components.
Of the executions it needs only the keys they write (`KeysInv`): every key in a bucket, or about to be put
there, has a name and an extension of ours (`IsProper`), so that the metadata key it is offered
under is read as that key again (`KeysAreRead`). The rest is that each adapter's listing and look-up
agree (`SqlOfferedAreFound` to `ComponentsOfferedAreFound`). Two conditions came out of
the proof: the keys that were in the buckets before are proper as well (`KeysAreProper`), and no settings
file has null for `writable` (`SettingsSayWritable`); with null the listing and the look-up
take the same file for different ones (section 6).

*Kafka* (`KafkaConsumptionProofs`), for any number of messages, faults and any
configurations: `KafkaInv` strengthens the guarantees by why they hold.
`HandledOnce`: when handling begins the message is committed already. `NoneLost`:
committed, or below the position while the loop runs, means handled (or passed over
on request). `CommittedBehindPosition` links the offset to the position across
restarts. At most once, at least once and the offset that never moves back
(`OffsetMonotone`) follow.

Sets that recursion would compute (what is reachable, what is needed, what is nested)
are defined as least closed sets in the modules that are proved about, or, in `RevisionImport`, as
recursive functions, whose existence is proved first; the inductions are
arguments about a least number or a minimal set.

Only model-checked: liveness (`Ends`, `EveryMessageArrives`, `EveryExecutionEnds`,
`ExecutionsEnd`, `EveryExecutionIsAnswered`, `PrepopulationRecovers`,
`RepeatedImportsComplete`), since the prover has neither fairness nor ENABLED;
merging of intervals and replacement (`ReportedIsWhatWasFound`, `ReplacementCompletesRhythm`),
which are folds and sorting over sequences, thus inductions over data; of the adapters `RepeatingDoesNotDuplicate`, whose
tables are bags that frames are folded into; and that all circles are refused by the store, which is
false (section 6).

## 6. What the code does otherwise

The run that is expected to be violated is the finding in `PROJECT.json`. The
disagreements below were met while modelling. Where a definition is named, it
stands in the module beside its properties, and TLC finds it violated on the run's
constants, changed as said here.

**Store and import**

- A release request whose code imports other components than the stored draft:
  the request's imports are checked, the stored code is released
  (`revision.py:547`). `ReleasedImportsAreReleased` fails with `StaleClients = TRUE`.
- A deprecation mark hides that an operator's target is a draft: a draft
  containing a deprecated operator, newly put into another draft, is marked
  DISABLED there, so the outer one can be released
  (`docs/versioning_in_hetida_designer.md:14`).
- `DeprecatedInstancesAreMarked` fails with `StaleClients = TRUE`: an operator made from
  an old view arrives after the deprecation (`docs/versioning_in_hetida_designer.md:24`).
- Revisions created as DISABLED get no nestings (`revision.py:585`), so
  `DirectNestingsMatchContent` speaks of the others only.
- The primary key of `nestings` merges rows of revisions that share operator ids, as
  copies do (`dbmodels.py:71`).
- `CompletePackagesAreImported`: a complete package may fail in part, since components
  have no order among themselves (`nestings.py:75`), while `transformation_router.py:713`
  promises to find the right order.
- Equal release timestamps in a group hide a revision from deprecation
  (`exportimport/utils.py:269`); the endpoint passes `strip_release_wiring` where the
  configuration has `strip_release_wirings`, so that option has no effect
  (`transformation_router.py:751`); the listing's two `keep_only` options for test and
  release wirings share one alias.
- A package with a draft workflow that contains drafts, imported with `release_drafts`,
  raises a validation error for the whole request.
- `is_unused` looks at workflows only: `delete_unused_deprecated` deletes a deprecated
  component that a released component's code still imports. From then on whatever reads
  that component's dependencies fails: purge ("This deletes all transformation
  revisions", `maintenance_router.py`), other deletions, exports (which then write
  nothing, as if nothing was asked for) and its deprecation. Purge's refill may leave
  components out for the lack of an order above.
- A directory that holds a component both as code and as JSON, or under a former name
  or tag, is loaded with whichever file comes last.

**Editing and upgrades**

- `StoredNeedsNoFixing` fails on the constants of `EditingUpgrades`:
  `upgrade_operators.py:236` compares `lnk.end.connector.id` with `operator.id`, so that
  no link is dropped, although line 221 says "only links are kept where all data_types
  still fit strictly" and `tests/test_single_operator_upgrading.py:87` that the
  upgraded workflow "does not need any fixing". The next read drops them.
- `HiddenInputsUseDefault`: a hidden optional input that was fixed keeps the constant
  (`docs/default_values.md:43`).
- A constant whose connector was replaced on the way back from an upgrade stays at the
  old one, and the dialog of inputs and outputs cannot be opened.
- Upgrading to the revision an operator already has drops a constant of another data type.
- Drawing a link from an output that has a named workflow output loses the name at
  the next read; a link drawn at the workflow's own inputs or outputs is dropped on save.
- The default of a kept optional input is updated only if its type changes; naming
  an unnamed input with an outdated data type loses the name; test wirings of removed
  inputs stay; lists of revisions may show an interface that no longer is the
  validated one; late answers lose edits in the editor.

**Execution**

- A circle of imports is not noticed if one of its members is registered already
  (`load.py:146`); the mark of a running import stays when component code raises
  (`load.py:165`).
- An execution of a component that was released from an outdated view (see above,
  `revision.py:547`) may end in a circle of imports, or run drafts of what it imports, as they
  were when they ran first in the process: `ReleasedExecutionsSucceed` and
  `ReleasedRunsReleased` fail without `root.of \in sound`.
- `return_individual_node_results` evaluates the pure plot operators that were left out, and
  outside of the handling of errors (`service.py:390`); the model has the option off.
- `ReleasedRunsReleased` needs that no write came between the reads of an execution
  (`disturbed`): otherwise a component may be registered with outdated imports, since
  its hash is that of its own code only (`docs/repr_pitfalls.md:5`). A draft that is
  changed does not reach components that import it until the process is restarted, and
  overwriting imports of released revisions do not reach the caches.
- Imports are keyed by strings in one place and by UUIDs in another, so that components
  given are loaded again (`revision.py:190` says they are not).
- `CirclesAreReported` fails with `PlotOnly = {}` and `RunPlots = TRUE`: circles
  through workflow nodes end in the recursion limit (engine `workflow.py:384`, against
  `workflow.py:70`). A pure plot operator whose output feeds another operator runs
  although plots are off (`docs/execution/running_transformation_revisions.md:106`).
- Executions asked for over Kafka get no answer when they fail, contrary to
  `docs/execution/execution_via_kafka.md:3`; stopping cancels the running one and
  commits its message, and so may the automatic commit. Failed asynchronous executions
  post nothing to the callback URL, and `send_result_to_callback_url` uses unbound
  `headers` when no token could be obtained (`transformation_router.py:1446`).
- In the Kafka consumption mode an execution that fails inside the runtime is an answer, not an
  exception, and counts as handled (`CommittedWereExecuted` with
  `Configs <- AtLeastOnceConfigs`, against `models.py:85`). With `auto_offset_reset` "latest" a crash
  before the first commit loses the messages before the restart; the exception flag
  is never reset, so that a consumer may be left unstopped at shutdown.

**Structure**

- `ValidStructuresAreStored`: a valid structure with a new node below a stored one is
  refused, since it is inserted with a uuid its parent does not have
  (`thing_node_service.py:128`, `docs/adapter_system/virtual_structure_adapter.md:302`).
- An update in place that turns a stored child into a root keeps its `parent_node_id`
  (`KeepsRoots = FALSE` violates `EveryNodeIsFound`); thing nodes whose element type is
  missing are skipped.

**Adapters**

- Virtual sources: one wired twice, or one that is missing, raises an error
  (`resolve_wirings.py:63`, against `virtual_structure_adapter.md:307`); with more than
  500 virtual wirings batches may be swapped.
- SQL: a table written to is not looked up among the append and replace tables; an unknown
  time series table ends in a KeyError; a frame that repeats all metrics duplicates;
  overlapping transactions of two processes on one table duplicate.
- Blobs: two processes with one `object_key_suffix` overwrite each other
  (`blob_storage_adapter.md:175`); a Keras model whose second object is missing is offered
  and cannot be loaded.
- Files: the generic sink is writable whatever the settings say; a file that only its
  settings announce is offered as a source. If its settings have null for `writable`, it is
  offered but not found: the listing starts from the settings file, which then counts as loadable, the
  look-up from the data file, which does not (`detect.py:98`, `detect.py:117`).
  `OfferedAreFound` fails with `writable` of `Fresh` in `MCSettings` null.
- REST: the urls of adapters are read once; SERIES are neither loaded nor sent, silently;
  posts of a failed execution may arrive after those of its repetition.
- Kafka: sources are parsed as sinks, so that they must be producable; an input
  without context waits without a timeout.
- Wirings by uri: a fragment is parsed from the query, so that it is refused or ignored,
  contrary to the field's description; a `ref_id` is checked only if it is given.
- Components: a category that is allowed for sources or for sinks is listed for both
  (`structure.py:202`) while finding by id and the backend refuse the other kind.
  `component_adapter.md:18` says that components run one after the other, line 218 and
  the code that they run concurrently.

**Gap components**

- `LargeStepsAreReported` fails with `Externals <- NoExternals` and `Factors = {2}`: with an
  offset, a step longer than tolerated contains missing points, the merged gap ends at
  the first of them, and the others are reported as single points
  (`gap-detection-intervals:1256`, against its text at lines 119-121).
- `RhythmIsThatOfTheSeries`: without an offset the replacement's rhythm has the opposite
  sign of the first timestamp's (`replacement-locations-for-gaps:747`), and the first gap's
  start serves for all gaps where the text says each gap's own.
- A gap shorter than a period may be given a location at a data point; `[1,3]` and
  `[3,5)` are not merged, so that a tick may lie in two reported gaps; of equal
  intervals the last row's end counts.

## 7. Not modelled, and why

- Transactions of two requests on the store at the same time (lost updates depend on
  the database's isolation level, which the deployment chooses), and the browser's store
  of revisions: planned, see section 2.
- `update_component_code` and `expand_component_code` during import rewrite code
  without changing what it imports. Packages with deprecated revisions, with
  missing workflows or with circles (both refused as a whole) are left out, and
  timestamps in a group differ (`TimestampsAssumption`).
- Listing revisions with their dependencies reads imports through the cache of executions
  (`revision.py:833`), so that a component that was deleted, or its state before
  it was deprecated, may still be found there: `RevisionImport` and `RevisionExport` read what is
  stored. Components of packages have code whose header names the package's state, as exports write it.
- The token that the callback of an asynchronous execution asks for once more
  (`transformation_router.py:1447`): its failure is a failing callback.
- The bucket that a look-up of a blob makes where this is allowed
  (`blob_storage/service.py:69`): it is empty, so nothing is found in it either way.
- Rebalancing between several consumers of one group.
- Several stakeholders of structures, uniqueness of names and filters.
- External sources, credentials and pagination of blob storage, the spelling of ids,
  formats of files and messages, parsing of values.
- The web services of adapters, routing and token checks of requests, dashboards, the
  endpoint for unit tests, logging, `hdctl`, demo adapter, deployment files, database
  migrations and the base components other than those for gaps: no state, external I/O,
  or numerics.
