------------------------------ MODULE Foreman -------------------------------
(* The scheduler around the query managers: the foreman's event loop           *)
(* (ForemanSingleNode), admission and removal of queries (PolicyEnforcerBase,  *)
(* PolicyEnforcerSingleNode), the load accounting (WorkerDirectory), the       *)
(* workers' message loops and the main thread that submits queries and waits   *)
(* for their completion.  A query manager is reduced to what the foreman sees  *)
(* of it: work orders to dispatch, more of which appear while its messages are *)
(* processed, until it has none and is executed (QueryManager shows that).     *)
EXTENDS Integers, Sequences, FiniteSets

CONSTANTS
  Query,                  \* query ids
  ZeroWork,               \* queries without work orders (CreateTable, CreateIndex)
  Batches,                \* the AdmitRequestMessages of the main thread
  NumWorkers,
  kMaxConcurrentQueries,
  MaxMsgs,                \* FLAGS_max_msgs_per_dispatch_round
  MinLoad,                \* FLAGS_min_load_per_worker
  MaxWork,                \* bound: work orders of one query
  MaxBlocks               \* bound: blocks the work orders of one query report

Worker == 0 .. NumWorkers - 1

Poison == "Poison"

ASSUME ForemanAssumption ==
  /\ ZeroWork \subseteq Query
  /\ Poison \notin Query
  /\ Batches \in Seq(Seq(Query))
  /\ \A i \in DOMAIN Batches : Batches[i] # << >>
  /\ NumWorkers \in Nat \ {0}
  /\ kMaxConcurrentQueries \in Nat \ {0}
  /\ MaxMsgs \in Nat /\ MaxMsgs >= kMaxConcurrentQueries
  /\ MinLoad \in Nat /\ MaxWork \in Nat /\ MaxBlocks \in Nat

VARIABLES
  phase,         \* where the foreman's loop is
  inbox,         \* the foreman's message queue
  admitted,      \* keys of admitted_queries_
  waiting,       \* waiting_queries_
  toGenerate,    \* work orders a query manager has not generated yet
  pending,       \* work orders in a query manager's containers
  outstanding,   \* work orders handed out and not reported complete
  newMessages,   \* worker messages collected and not dispatched yet
  load,          \* num_queued_workorders_ of the WorkerDirectory
  queue,         \* a worker's message queue; the head is running
  blocks,        \* blocks a query has reported
  submitted,     \* main thread: number of batches submitted
  awaiting,      \* main thread: in ReceiveQueryCompletionMessage()
  completions    \* WorkloadCompletionMessages at the main thread

queries    == <<admitted, waiting, toGenerate, pending, outstanding>>
mainThread == <<submitted, awaiting, completions>>
vars == <<phase, inbox, queries, newMessages, load, queue, blocks, mainThread>>

Message ==
  [type : {"Admit"}, batch : DOMAIN Batches]
    \cup [type : {"NewBlock", "DataPipeline", "Complete"}, query : Query, worker : Worker]
    \cup [type : {Poison}]

(* The foreman's, the workers' and the main thread's state has the types that  *)
(* the code's declarations give it: counters are unsigned.                     *)
TypeOK ==
  /\ phase \in {"receive", "collect", "dispatch", "notify", "stopped"}
  /\ inbox \in Seq(Message)
  /\ admitted \in SUBSET Query
  /\ waiting \in Seq(Query)
  /\ toGenerate \in [Query -> Nat]
  /\ pending \in [Query -> Nat]
  /\ outstanding \in [Query -> Nat]
  /\ newMessages \in [Query -> Nat]
  /\ load \in [Worker -> Nat]
  /\ queue \in [Worker -> Seq(Query \cup {Poison})]
  /\ blocks \in [Query -> Nat]
  /\ submitted \in 0 .. Len(Batches)
  /\ awaiting \in BOOLEAN
  /\ completions \in Nat

Init ==
  /\ phase = "receive"
  /\ inbox = << >>
  /\ admitted = {}
  /\ waiting = << >>
  /\ toGenerate = [q \in Query |-> IF q \in ZeroWork THEN 0 ELSE MaxWork]
  /\ pending = [q \in Query |-> 0]
  /\ outstanding = [q \in Query |-> 0]
  /\ newMessages = [q \in Query |-> 0]
  /\ load = [w \in Worker |-> 0]
  /\ queue = [w \in Worker |-> << >>]
  /\ blocks = [q \in Query |-> 0]
  /\ submitted = 0
  /\ awaiting = FALSE
  /\ completions = 0

-----------------------------------------------------------------------------
(* The query managers, as seen from the foreman. *)

RangeOf(s) == {s[i] : i \in DOMAIN s}

(* New work orders: at least one from the constructor of every query manager   *)
(* in S, unless its query has none; any number while q's messages are          *)
(* processed.                                                                  *)
Generate(g) ==
  /\ \A q \in Query : g[q] <= toGenerate[q]
  /\ toGenerate' = [q \in Query |-> toGenerate[q] - g[q]]
  /\ pending' = [q \in Query |-> pending[q] + g[q]]

GenerateFirst(S) ==
  \E g \in [Query -> 0 .. MaxWork] :
    /\ \A q \in Query : IF q \in S \ ZeroWork THEN g[q] >= 1 ELSE g[q] = 0
    /\ Generate(g)

GenerateMore(q) ==
  \E n \in 0 .. toGenerate[q] : Generate([p \in Query |-> IF p = q THEN n ELSE 0])

(* hasQueryExecutionFinished() *)
Executed(q) == pending[q] = 0 /\ outstanding[q] = 0

-----------------------------------------------------------------------------
(* The foreman. *)

Receive(type) ==
  /\ phase = "receive"
  /\ inbox # << >>
  /\ Head(inbox).type = type
  /\ inbox' = Tail(inbox)

(* admitQuery() / admitQueries(): queries are admitted until one has to wait,  *)
(* and then so do the ones behind it.                                          *)
AdmitQueries ==
  /\ Receive("Admit")
  /\ LET handles == Batches[Head(inbox).batch]
         free == kMaxConcurrentQueries - Cardinality(admitted)
         n == IF free < Len(handles) THEN free ELSE Len(handles)
         new == RangeOf(SubSeq(handles, 1, n))
     IN /\ admitted' = admitted \cup new
        /\ waiting' = waiting \o SubSeq(handles, n + 1, Len(handles))
        /\ GenerateFirst(new)
  /\ phase' = "collect"
  /\ UNCHANGED <<outstanding, newMessages, load, queue, blocks, mainThread>>

(* processMessage(kCatalogRelationNewBlockMessage); canCollectNewMessages() is *)
(* false for it.                                                               *)
ProcessNewBlock ==
  /\ Receive("NewBlock")
  /\ phase' = "notify"
  /\ UNCHANGED <<queries, newMessages, load, queue, blocks, mainThread>>

(* processMessage(kDataPipelineMessage): the query may have more work orders.  *)
(* The query is not executed: the work order that sent the message is still    *)
(* outstanding.                                                                *)
ProcessDataPipeline ==
  /\ Receive("DataPipeline")
  /\ GenerateMore(Head(inbox).query)
  /\ phase' = "collect"
  /\ UNCHANGED <<admitted, waiting, outstanding, newMessages, load, queue, blocks, mainThread>>

(* Mutant: work orders at the workers do not keep the query. *)
NothingPending(q) == pending[q] = 0

(* The completion being processed is the query's last one: kQueryExecuted. *)
LastWorkOrder(q) == pending[q] = 0 /\ outstanding[q] = 1

(* removeQuery() and admission of the earliest waiting query. *)
RemoveQuery(q) ==
  \/ /\ waiting = << >>
     /\ admitted' = admitted \ {q}
     /\ UNCHANGED <<waiting, toGenerate, pending>>
  \/ /\ waiting # << >>
     /\ admitted' = (admitted \ {q}) \cup {Head(waiting)}
     /\ waiting' = Tail(waiting)
     /\ GenerateFirst({Head(waiting)})

(* processMessage(kWorkOrderCompleteMessage) and the one for rebuilds: the     *)
(* worker's load goes down, and the query has more work or leaves.             *)
ProcessComplete ==
  /\ Receive("Complete")
  /\ LET q == Head(inbox).query
         w == Head(inbox).worker
     IN /\ load' = [load EXCEPT ![w] = @ - 1]
        /\ outstanding' = [outstanding EXCEPT ![q] = @ - 1]
        /\ \/ /\ GenerateMore(q)
              /\ pending'[q] + outstanding'[q] > 0
              /\ UNCHANGED <<admitted, waiting>>
           \/ LastWorkOrder(q) /\ RemoveQuery(q)
  /\ phase' = "collect"
  /\ UNCHANGED <<newMessages, queue, blocks, mainThread>>

(* case kPoisonMessage *)
ProcessPoison ==
  /\ Receive(Poison)
  /\ phase' = "stopped"
  /\ UNCHANGED <<queries, newMessages, load, queue, blocks, mainThread>>

LeastLoad == CHOOSE n \in RangeOf(load) : \A m \in RangeOf(load) : n <= m
GetLeastLoadedWorker == CHOOSE w \in Worker :
  /\ load[w] = LeastLoad
  /\ \A v \in Worker : load[v] = LeastLoad => w <= v

(* per_query_share *)
PerQueryShare == MaxMsgs \div Cardinality(admitted)

(* Mutant: new messages wait until a worker is busy. *)
CollectWhenBusy == LeastLoad > MinLoad

(* canCollectNewMessages(), but for the message type *)
CanCollectNewMessages == LeastLoad <= MinLoad

SkipCollect ==
  /\ phase = "collect"
  /\ ~CanCollectNewMessages
  /\ phase' = "notify"
  /\ UNCHANGED <<inbox, queries, newMessages, load, queue, blocks, mainThread>>

(* Mutant: finished queries are left to processMessage(). *)
AllAdmitted == admitted

(* finished_queries_ids, which never had a work order, are removed. *)
Unfinished == {q \in admitted : ~Executed(q)}

(* getWorkerMessages(): every admitted query gets its share of the round. *)
GetWorkerMessages ==
  /\ phase = "collect"
  /\ CanCollectNewMessages
  /\ newMessages' = [q \in Query |->
       IF q \notin admitted THEN 0
       ELSE IF pending[q] < PerQueryShare THEN pending[q] ELSE PerQueryShare]
  /\ pending' = [q \in Query |-> pending[q] - newMessages'[q]]
  /\ outstanding' = [q \in Query |-> outstanding[q] + newMessages'[q]]
  /\ admitted' = Unfinished
  /\ phase' = "dispatch"
  /\ UNCHANGED <<inbox, waiting, toGenerate, load, queue, blocks, mainThread>>

(* Mutant: the load is not counted. *)
DispatchUncounted(q) ==
  /\ phase = "dispatch"
  /\ newMessages[q] > 0
  /\ newMessages' = [newMessages EXCEPT ![q] = @ - 1]
  /\ queue' = [queue EXCEPT ![GetLeastLoadedWorker] = Append(@, q)]
  /\ UNCHANGED <<phase, inbox, queries, load, blocks, mainThread>>

(* dispatchWorkerMessages(): one message to the least loaded worker.  The      *)
(* queries come in the order of an unordered_map.                              *)
DispatchWorkerMessage(q) ==
  /\ phase = "dispatch"
  /\ newMessages[q] > 0
  /\ newMessages' = [newMessages EXCEPT ![q] = @ - 1]
  /\ queue' = [queue EXCEPT ![GetLeastLoadedWorker] = Append(@, q)]
  /\ load' = [load EXCEPT ![GetLeastLoadedWorker] = @ + 1]
  /\ UNCHANGED <<phase, inbox, queries, blocks, mainThread>>

EndDispatch ==
  /\ phase = "dispatch"
  /\ \A q \in Query : newMessages[q] = 0
  /\ phase' = "notify"
  /\ UNCHANGED <<inbox, queries, newMessages, load, queue, blocks, mainThread>>

(* Mutant: only work orders that wait for a worker count. *)
HasWork == \E q \in admitted : pending[q] > 0

HasQueries == ~(admitted = {} /\ waiting = << >>)

(* The end of the loop: tell the main thread when there are no queries. *)
NotifyMainThread ==
  /\ phase = "notify"
  /\ completions' = IF HasQueries THEN completions ELSE completions + 1
  /\ phase' = "receive"
  /\ UNCHANGED <<inbox, queries, newMessages, load, queue, blocks, submitted, awaiting>>

-----------------------------------------------------------------------------
(* The workers: a work order reports blocks while it runs and completes. *)

Send(m) == inbox' = Append(inbox, m)

ReportBlock(w, type) ==
  /\ queue[w] # << >> /\ Head(queue[w]) # Poison
  /\ blocks[Head(queue[w])] < MaxBlocks
  /\ blocks' = [blocks EXCEPT ![Head(queue[w])] = @ + 1]
  /\ Send([type |-> type, query |-> Head(queue[w]), worker |-> w])
  /\ UNCHANGED <<phase, queries, newMessages, load, queue, mainThread>>

SendWorkOrderComplete(w) ==
  /\ queue[w] # << >> /\ Head(queue[w]) # Poison
  /\ queue' = [queue EXCEPT ![w] = Tail(@)]
  /\ Send([type |-> "Complete", query |-> Head(queue[w]), worker |-> w])
  /\ UNCHANGED <<phase, queries, newMessages, load, blocks, mainThread>>

-----------------------------------------------------------------------------
(* The main thread. *)

SubmitBatch ==
  /\ ~awaiting /\ submitted < Len(Batches)
  /\ Send([type |-> "Admit", batch |-> submitted + 1])
  /\ submitted' = submitted + 1
  /\ awaiting' = TRUE
  /\ UNCHANGED <<phase, queries, newMessages, load, queue, blocks, completions>>

ReceiveQueryCompletion ==
  /\ awaiting /\ completions > 0
  /\ awaiting' = FALSE
  /\ completions' = completions - 1
  /\ UNCHANGED <<phase, inbox, queries, newMessages, load, queue, blocks, submitted>>

ShutDown == Poison \in {inbox[i].type : i \in DOMAIN inbox} \/ phase = "stopped"

(* After the last batch: kill the foreman and the workers. *)
BroadcastPoison ==
  /\ ~awaiting /\ submitted = Len(Batches) /\ ~ShutDown
  /\ Send([type |-> Poison])
  /\ queue' = [w \in Worker |-> Append(queue[w], Poison)]
  /\ UNCHANGED <<phase, queries, newMessages, load, blocks, mainThread>>

-----------------------------------------------------------------------------
ForemanStep ==
  \/ AdmitQueries \/ ProcessNewBlock \/ ProcessDataPipeline \/ ProcessComplete \/ ProcessPoison
  \/ SkipCollect \/ GetWorkerMessages \/ EndDispatch \/ NotifyMainThread
  \/ \E q \in Query : DispatchWorkerMessage(q)

WorkerStep(w) ==
  \/ \E type \in {"NewBlock", "DataPipeline"} : ReportBlock(w, type)
  \/ SendWorkOrderComplete(w)

MainStep == SubmitBatch \/ ReceiveQueryCompletion \/ BroadcastPoison

Stopped == phase = "stopped" /\ \A w \in Worker : queue[w] = <<Poison>>
Terminated == Stopped /\ UNCHANGED vars

Next == ForemanStep \/ (\E w \in Worker : WorkerStep(w)) \/ MainStep \/ Terminated

(* All threads keep running; they block only in Receive(). *)
Fairness == WF_vars(ForemanStep) /\ WF_vars(MainStep) /\ \A w \in Worker : WF_vars(WorkerStep(w))

Spec == Init /\ [][Next]_vars /\ Fairness

-----------------------------------------------------------------------------
(* Properties. *)

CompletesOf(w) == {i \in DOMAIN inbox : inbox[i].type = "Complete" /\ inbox[i].worker = w}
WorkOrdersAt(w) == {i \in DOMAIN queue[w] : queue[w][i] # Poison}

(* num_queued_workorders_ of the WorkerDirectory, an unsigned number, counts   *)
(* exactly the work orders at the worker and the completions the foreman has   *)
(* not read yet: it neither wraps nor drifts away from the load.               *)
LoadExact ==
  \A w \in Worker : load[w] = Cardinality(WorkOrdersAt(w)) + Cardinality(CompletesOf(w))

(* DCHECK(admitted_queries_.find(query_id) != admitted_queries_.end()) in      *)
(* processMessage(): no message reaches the foreman, and no work order a       *)
(* worker, on behalf of a query that has been removed.                         *)
MessagesOfAdmittedQueries ==
  /\ \A i \in DOMAIN inbox :
       inbox[i].type \in {"NewBlock", "DataPipeline", "Complete"} => inbox[i].query \in admitted
  /\ \A w \in Worker : \A i \in WorkOrdersAt(w) : queue[w][i] \in admitted

(* The main thread reads the result relation and drops it once it has received *)
(* the completion message: by then nothing of the batch is left anywhere, and  *)
(* no second message is on its way that would end the wait for the next batch  *)
(* early.                                                                      *)
CompletionMeansQuiescent ==
  completions > 0 =>
    /\ completions = 1 /\ awaiting
    /\ ~HasQueries
    /\ inbox = << >>
    /\ \A w \in Worker : queue[w] = << >> /\ load[w] = 0

(* The foreman sleeps in Receive() only if it has nothing to hand out or some  *)
(* worker has work, whose completion will wake it: a collected round that ends *)
(* with work orders left behind has filled a worker.                           *)
NoWorkForgotten ==
  phase = "receive" /\ inbox = << >> /\ (\E q \in admitted : pending[q] > 0)
    => \E w \in Worker : queue[w] # << >>

(* No query waits behind one without work orders in the same request. Such a   *)
(* query may never run: getWorkerMessages() removes the finished query but, as *)
(* opposed to processMessage(), admits none in its place, and with nothing     *)
(* outstanding no message comes that would. The CLI sends a query per request. *)
ZeroWorkLast ==
  \A i \in DOMAIN Batches : \A j \in DOMAIN Batches[i] :
    Batches[i][j] \in ZeroWork => j = Len(Batches[i])

(* Every submitted query is executed, and the program ends: queries that wait  *)
(* are admitted when others complete, and those without work orders are found  *)
(* finished when they are asked for messages.                                  *)
EventuallyStopped == ZeroWorkLast => <>Stopped
=============================================================================
