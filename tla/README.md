# Quickstep: a TLA+ verification project

Quickstep is an in-memory relational database engine. A statement is parsed,
optimised into a DAG of relational operators and executed as many small *work
orders* by a pool of worker threads under one scheduler thread, the *foreman*.
In the distributed version the foreman schedules *shiftbosses*, one per node,
each with its own workers. Blocks of tuples live in a storage manager's buffer
pool. A lock manager with deadlock detection is part of the source; nothing
outside `src/transaction` uses it.

## The system's parts

| part | source | here |
|---|---|---|
| query manager: which operator may run, when it is finished | `query_execution/QueryManager{Base,SingleNode}`, `QueryExecutionState`, `WorkOrdersContainer`, `utility/DAG` | `QueryManager`, `DagSchedule` |
| operators' work order contract | `relational_operators/` | `QueryManager` (five kinds) |
| output blocks | `storage/InsertDestination` (block pool) | `QueryManager` |
| worker threads | `query_execution/Worker` | `QueryManager`, `Foreman` |
| foreman, policy enforcer, worker directory | `query_execution/ForemanSingleNode`, `PolicyEnforcer{Base,SingleNode}`, `WorkerDirectory` | `Foreman` |
| main thread | `cli/`, `QueryExecutionUtil` | `Foreman` |
| lock manager, lock and transaction table, deadlock detector thread | `transaction/` | `LockManager` |
| strongly connected components, choice of victims | `transaction/CycleDetector`, `StronglyConnectedComponents` | `CycleDetector` |
| buffer pool, eviction, sharded locks, spin lock | `storage/StorageManager`, `EvictionPolicy`, `FileManagerPosix`, `utility/ShardedLockManager`, `threading/SpinSharedMutex` | `StorageManager`, `EvictionPolicy`, `SpinSharedMutex` |
| distributed execution | `query_execution/*Distributed`, `Shiftboss`, `ShiftbossDirectory`, `cli/distributed` | `ForemanDistributed`, `QueryManagerDistributed` |
| parser, optimizer, catalog, types, expressions, compression, block layouts | | not modelled, see below |

The foreman owns all query managers. It reads one message at a time, passes it to
the query manager concerned, collects new work orders and sends them to the
workers. The workers answer with completion messages, and with a message per
full output block, which feeds the consumers of the operator.

## Modules

**QueryManager** models one query from construction to completion. An operator's
dependencies, work order containers, counters and flags are functions on `Op`.
The recursion of `markOperatorFinished()` is an explicit `stack` of loops over
dependents, in the iteration order given by `LinkOrder` (the reverse of link
creation, as the DAG's hash map iterates). A handler of a message is one action;
it pushes the loops that the later actions `NotifyBlockedDependent`,
`NotifyReadyDependent` and `ReturnFromMarkFinished` run before the next message
is read. Workers take blocks from the pool (`ReuseBlock`, `CreateNewBlock`),
return them full or partial, rebuild them and report completion. Operators are
abstracted to how they generate work (`Kinds`). Work order selection and the
choice of worker are any order; rebuild work orders go before normal ones, as in
the code. A work order hands a partial block back once, at its end, and the pool
starts without blocks: the branch of `getBlockForInsertion()` that takes a stored
block of the relation (`available_block_ids_`) is left out. `DCHECK`s are not executed: the release build is modelled.
`DagSchedule` is the abstract promise: an operator starts after its blocking
dependencies are done and is done after all dependencies, once.
`MCQueryManager` holds the plans: hash join, union, LIP filter, transitive
closure.

**Foreman** composes the foreman loop, admission, load accounting, the workers'
queues and the main thread. A query manager is reduced to counts of work orders.
Work always goes to a least loaded worker, since `getNextWorkerMessage()` never
sets a recipient hint. Query ids are unique, so that the error path of
`admitQuery()` for a duplicate is left out, here and in the distributed model.
`ProcessDataPipeline` leaves out the look at the query's status behind it: the work
order that sent the message is still outstanding, so the query is not over.
`Unfinished` are the queries that stay after a collection of work. `MCForeman` holds
the batches of queries.

**LockManager** models the lock manager thread one latched table operation at a
time, the detector thread as check, scan, swap and signal, and transactions that
send requests and a final release. `movePendingToOwned()` compares an iterator of
one list with the end of another; what it can do is a choice between breaking off
and never ending. An access outside the wait-for graph ends the process.
`RemoveAt` is defined locally because the module that has it in the community
library brings many definitions that slow the proofs down. `MCLockManager` holds
the transactions.

**CycleDetector** is the pure algorithm (recursive operators), checked against
reachability. LockManager uses what it shows as the contract of a scan
(`BreaksCycles`).

**StorageManager** models threads that create, get, write, save, delete and
release blocks. An action is one access to shared memory: an atomic access to a
spin lock's word (**SpinSharedMutex**: write bit and reader count apart, so that
the window between setting the bit and the last reader's leaving is there), a
count of the sharded lock manager, a method of the eviction policy under its mutex
(**EvictionPolicy**; which unreferenced block is least recently used is any), a
change of the map of blocks, a file operation. `pc` says where a thread is,
`target` and `victim` which blocks it works on. A block's contents are abstracted
to whether its file holds all that was written. A write of a file in `FaultyFiles`
may fail, before or after it truncated the file; the eviction is then tried again.
`Restart` is an exit, which saves dirty blocks and ignores failures, and a start;
`Crash` is the end of the process at any point and a start. Both lose the memory and
derive `block_index_` from the files. `live` holds the ids that queries know; what
was not saved leaves it there, since the model does not follow queries that name
blocks which no longer exist. So nothing is claimed about an id in the saved catalog
that has no file: it can be given out again.
**StoragePool** states the inductive invariant; `MCStorageManager` the shards.

**QueryManagerDistributed** holds the distributed query manager as functions of its
state; a plan is a chain of operators, since `QueryManager` treats general ones.
**ForemanDistributed** composes it with registration, admission, query initiation,
placement of work orders (hash tables, aggregation states and groups of LIP
filters have a home node), shiftbosses with a queue from the foreman and workers,
rebuilds that every node answers with a number, completion, teardown and clients.
`Submit` stands for a client's statement, the conductor's planning of it and the
admit request; replies of the conductor to commands and to statements with errors,
requests before any shiftboss has registered, and ANALYZE of no relation are left out.
`MCForemanDistributed` holds plans, statements and scenarios.

**Counting** defines how many elements of a queue, or of several queues, are in a
set, and states the laws of these numbers. The other modules with theorems are
listed under Proofs.

## Runs

| run | properties | shows |
|---|---|---|
| join | `TypeOK`, `NoBlockLost`, `OneWriterPerBlock`, `QueuedCounterExact`, `QuiescentWhenExecuted`, `CatalogKnowsOutput`, `BlockingDependenciesFirst`, `ImplementsSchedule`, `QueryEventuallyExecuted` | no block lost, fed twice or written by two workers; counters exact; quiet and catalogued at completion; operators start and finish in dependency order, once; the query ends |
| union | `SchedulingInvariant`, `DependenciesFinishFirst` | the inductive scheduling invariant; a union waits for all inputs |
| foreman | `LoadExact`, `MessagesOfAdmittedQueries`, `CompletionMeansQuiescent`, `NoWorkForgotten`, `EventuallyStopped` | load exact, no message of a removed query, completion only when quiet, no work forgotten, the program ends |
| victims | `ComponentsCorrect`, `AllCyclesBroken`, `VictimsDeadlocked` | every graph on four nodes without self-loops, every iteration order: components right, cycles broken, victims on cycles |
| locks_crossing | `TypeOK`, `OwnedCompatible`, `AncestorsLocked`, `TablesAgree`, `RequestsConserved`, `PermittedHolds` | owned locks compatible and hierarchical, tables agree, requests answered once, permitted locks kept |
| storage | `TypeOK`, `ReferencedStaysLoaded`, `ReferencesCounted`, `NothingLost`, `UsageExact`, `IdsFresh`, `NoCircularWait` | references only to blocks in memory, counts and memory exact, no block evicted unsaved though writes fail, no id of an existing block given out again over restarts and crashes, no circle of waiting threads |
| distributed | `LoadExact`, `ContextPresent`, `MessagesOfAdmittedQueries`, `OutputComplete`, `SharedStateOnOneNode`, `AnsweredOnce`, `NothingLeftBehind`, `EventuallyAnswered` | load exact, contexts there when needed, no message outlives its query, operators wait for every node's rebuild, shared states on one node, every statement answered once and torn down |
| lip | `QuiescentWhenExecuted` | *violation*: a dependent finished by a nested call is finished again, and the query is reported as executed with a work order left |
| closure | `DependenciesFinishFirst` | *violation*: transitive closure finishes before its second input |
| pending_stuck | `ReleaseWakesPending` | *violation*: a release does not wake a compatible waiting request |
| race | `RaceTolerated` | *violation*: a block is deleted between a thread's save and its eviction, and the thread throws |
| filters | `SharedStateOnOneNode` | *violation*: a hash join that tests a LIP filter is placed by its hash table alone |

`PROJECT.json` quotes, for each violation, the comment or assertion it is
measured against. The passing runs stay inside what the code promises; outside it
are these behaviours, which the hazards of `PROJECT.json` describe:

- `SelfLoops = TRUE` (a transaction waits behind its own lock): `AllCyclesBroken`
  fails, since a component of one node is skipped;
- `MaxScans = 2`: `GraphReconstructed` fails, node ids outlive their graph;
- `BatchProcessed` fails with one scan already: a batch of victims published
  between the load of the status and the clearing of the buffer is dropped;
- `ForceSaveDirtyBlocks = FALSE`, the default of the flag: `NothingLost` fails,
  since `saveBlockOrBlob()` then reports success without a write;
- a save that fails after another thread's save of the same block truncates the
  file, and the other thread marks the block clean: the contents can be lost, which
  `NothingLost` admits as the file state "spoiled" of a block in `FaultyFiles`;
- a request in which a statement without work orders comes before other queries
  (`ZeroWorkLast` is false): `getWorkerMessages()` removes it and admits nothing, no
  message follows, and the queries behind it wait for ever. The command line sends
  one query per request;
- `LateRegistration = TRUE`: `ContextPresent` fails, since a shiftboss that
  registers while a query runs gets its work orders without its context.

### Bounds

Two workers are the least that can race for a block, and two blocks per operator
let one be full while another is partial; the union run queues one work order per
worker. Between them the plans use each operator kind, blocking and pipelined
edges, an operator with both, one with two streamed inputs, and one without work.
`MCQueryManager` assumes, and TLC evaluates, that the join and the union satisfy the
hypotheses of the theorems and that the LIP plan does not. The
foreman has two queries and a statement without work in one request, so that the
later ones wait for admission, then such a statement alone. Four nodes hold two disjoint cycles, nested cycles and chords. Two
transactions and two relations, locked in shared, intention and exclusive mode,
make a deadlock. `kMaxTry` is 1: a longer loop only adds polls that the next round
would do. Two threads, three blocks on two shards and memory for one block make
every load evict, put two blocks in one shard, and let two threads evict for each
other. The writes of one of the blocks may fail, and a thread has one reference at a
time (`MaxHeld`): two, of two threads, are enough to keep both shards busy, and more
only multiplies the states. The distributed run has two nodes (one for the ANALYZE
scenario, so that a query has to wait) and two clients. Its queries end on each of
the three paths: by a completion, by a rebuild response, and, as CREATE TABLE does,
without a work order in the collection of work. `MaxScans`, `MaxWork`, `MaxBlocks`, `MaxBlock`,
`MaxMsgs` and `MaxLoad` bound counters.

### Fairness

Each thread is weakly fair: the foreman, the workers, the shiftbosses and the
clients block only in a receive, and the operating system keeps scheduling them. A
worker's fairness covers the end of a work order, since the blocks it may create are
bounded. No strong fairness is assumed. LockManager, CycleDetector and
StorageManager state no liveness; a spin lock promises none.
`CHECK_DEADLOCK FALSE` is set where the system may stop: the storage threads when
ids run out or one throws, the distributed clients when their statements are done.
It is also set in the `join` and `foreman` runs, whose liveness property is violated by
a system that stops too early.

## Proofs

All theorems hold for every value of the constants that satisfies the assumptions
`PlanAssumption`, `ForemanAssumption`, `LockAssumption` and `StorageAssumption`
(types, resources closed under parents, at least one worker and one concurrent
query, `MaxMsgs` at least `kMaxConcurrentQueries`, finitely many threads), which
the runs evaluate.

**QueryManagerProofs**: `TypeCorrect`; `SchedulingCorrect`, an inductive invariant;
from it `BlockingFirst`, and under `WellFormedPlan` `DependenciesFirst` and
`ScheduleImplemented` (refinement of `DagSchedule`). The invariant is needed because
an operator may be finished by three paths (a completion, a rebuild, the end of a
dependency), only one of which looks at the non-blocking dependencies: it says that
open dependencies and pending loops never run ahead of the finished flags, that the
ends of input signalled to operators are true, that work is generated behind
blocking dependencies, and that finishing and rebuilding rest on the end of
generation. `WellFormedPlan` is what the planner promises; the `closure` plan breaks
it.

**QueryFlowProofs** shows step by step that `FlowInvariant` is kept in every plan:
`queued_workorders_per_op_` is a sum over the workers' queues and the inbox
(`QueuedInv`); pools, rebuild lists, workers' hands and messages hold blocks of the
operator's own output (`PlaceInv`); a created block is in the catalog or announced
(`CatalogInv`); behind a message about a block comes a completion of its operator
(`FollowInv`); and each block either waits in exactly one place or has been fed
exactly once to each consumer (`FlowInv`). The lemmas assume `Sound`, the types
together with the laws of counting, so that their context stays small; the laws are
proved in **SequenceCounts** (lemma `CountingLawsHold`).

**QueryEndProofs** draws the conclusions. In every plan: `FlowCorrect`,
`QueuedIsExact`, `OneWriter`. In an `OrderedPlan`: `EndCorrect`, `OutputIsCataloged`,
`ExecutedIsQuiescent`, and, when streamed inputs are pipelined (`InputsPipelined`),
`BlocksAreNotLost`. `OrderedPlan` adds `DownstreamFirst` to `WellFormedPlan`: of two
dependents of an operator, one of which depends on the other, the loop in
`markOperatorFinished()` reaches the downstream one first. That is what
separates the `join` and `union` plans from `lip`: then a nested call never finishes
an operator that a pending loop has yet to visit (`LoopInv`), so that an operator
that has ended gets no work (`EndInv`) and is counted once (`NumInv`).

**ForemanProofs**: `ForemanCorrect`, and from it `ForemanTypeCorrect`,
`LoadsAreExact`, `OnlyAdmittedQueries`, `CompletionIsQuiescent` and
`WorkIsNotForgotten`. The invariant counts a query's outstanding work orders over
all workers and the inbox, ties admission and the wake-up of the foreman to them,
and follows a batch from submission to its report.

**LockManagerProofs**: `LockTypeCorrect` and `FrontIsRetried` together (popping the
inner queue is typed only because a retried request is its front); `LocksCompatible`:
a lock is added only when compatible with all owners, and the matrix is symmetric;
`LockManagerCorrect`, from which `TablesAlwaysAgree`, `DeleteNeverFails` (the `CHECK`
on `deleteLock()`), `RequestsAreConserved`, `AncestorsAreLocked` and
`PermittedKeepLocks` follow. The invariant counts entries of both tables for each
transaction and resource, with the ones a call has moved in one table only, and says
which prefix of its path a request has locked.

**StorageLockProofs** and **StorageManagerProofs**: `PoolCorrect`, and from it
`StorageTypeCorrect`, `ReferencedLoaded`, `CountsExact`, `IdsAreFresh`, `UsageIsExact`,
`NeverCircularWait` and `NothingIsLost`, all for `Spec`, with restarts, crashes and
failing writes; only `NothingIsLost` needs `ForceSaveDirtyBlocks`. It rests on
`SaveInv` (what is clean was saved, also while a save or an eviction is under way)
and on `SpoiledInv` (only blocks in `FaultyFiles` have spoiled files). The invariant
says which thread owns a write bit at which `pc`, counts readers, references and
users of shards, and orders the threads that evict: among them one always waits for
a shard that no loading thread of the set holds.

Each proof module makes Zenon its default prover (`USE ZenonT(60)`); leaves with
arithmetic or sequences cite `SMTT(30)`.

Only model-checked: liveness (`QueryEventuallyExecuted`, `EventuallyStopped`,
`EventuallyAnswered`), which is out of the prover's reach; `CycleDetector`, whose
recursive operators it does not support; and the invariants of `ForemanDistributed`,
which are not proved yet.

## Not modelled

- `processFeedbackMessage()` and the operators driven by it; partitioned and
  always-create insert destinations; profiling;
- in distributed execution: poison, failure of a shiftboss, the block locator's own
  messages (its answer is any node), the exchange of blocks between nodes, partitions;
- NUMA placement; blobs, which share the code of blocks;
- message order of the bus: a FIFO per receiver is assumed, while the library may
  reverse messages with equal timestamps;
- the data race on the buffer of victims, beyond the interleaving of its steps;
- parser, optimizer rules, catalog operations, types, expressions, compression and
  block layouts: pure computation on data, the larger part of the source.
