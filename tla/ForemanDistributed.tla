------------------------- MODULE ForemanDistributed -------------------------
(* Distributed execution: the foreman (ForemanDistributed, with admission and   *)
(* completion in PolicyEnforcerDistributed and the load in ShiftbossDirectory), *)
(* the shiftbosses that hold a query's context on their node and run its work   *)
(* orders (Shiftboss), and the clients that submit statements through the       *)
(* conductor.  Every receiver reads its messages in the order they were sent.   *)
EXTENDS QueryManagerDistributed

CONSTANTS
  NumShiftbosses,
  Client,            \* DistributedCli instances
  Scenarios,         \* scenario.nodes: shiftbosses started; scenario.script[c]: the
                     \* statements of a client, each a sequence of queries
  Analyze,           \* Analyze[q]: "no", or what an ANALYZE statement counts
  SingleNode,        \* queries that run on one shiftboss
  Capacity,          \* work_order_capacity of a shiftboss
  MaxMsgs,           \* FLAGS_max_msgs_per_dispatch_round
  MaxBlocks,         \* bound: full and partially filled blocks an operator of a query writes
  LateRegistration   \* whether a shiftboss may register after the first statement

ASSUME ForemanAssumption ==
  /\ NumShiftbosses \in Nat \ {0} /\ Capacity \in Nat \ {0}
  /\ MaxMsgs \in Nat /\ MaxMsgs > NumShiftbosses /\ MaxBlocks \in [Query -> Nat]
  /\ \A sc \in Scenarios : sc.nodes \in 1 .. NumShiftbosses /\
       \A c \in Client : \A i \in DOMAIN sc.script[c] : sc.script[c][i] # << >>

VARIABLES
  size,          \* shiftbosses in the ShiftbossDirectory
  load,          \* num_queued_work_orders_
  next,          \* the static shiftboss_index of dispatchWorkOrderMessages()
  phase,         \* where the foreman's loop is
  inbox,         \* the foreman's messages
  admitted,      \* keys of admitted_queries_
  waiting,       \* waiting_queries_
  ops,           \* the query managers
  width,         \* num_shiftbosses_ of a query manager
  home,          \* shiftboss_indexes_for_*: the index of a shared state, or None
  collected,     \* work order messages collected and not dispatched yet
  analyzed,      \* completed_analyze_relations_, as a number
  global,        \* a shiftboss's messages from the foreman
  contexts,      \* query_contexts_
  running,       \* work orders at the workers of a shiftboss
  partial,       \* partially filled blocks in the insert destinations of a shiftboss
  built,         \* shared states in the query contexts of a shiftboss
  blocks,        \* blocks an operator has written
  scenario,      \* what is started and what the clients are going to submit
  statement,     \* statements a client has submitted
  awaiting,      \* clients in Receive()
  answers        \* messages at a client

foreman == <<size, load, next, phase, admitted, waiting, ops, width, home, collected, analyzed>>
node    == <<contexts, running, partial, built, blocks>>
clients == <<scenario, statement, awaiting, answers>>
vars    == <<foreman, inbox, global, node, clients>>

(* Shiftbosses are named in the order in which they register: s has the index   *)
(* s - 1 in the directory.                                                      *)
Shiftboss == 1 .. NumShiftbosses

Shared == UNION {{<<o[1], x>> : x \in Info(o).uses} : o \in Op}
Order == [op : Op, kind : {"Normal", "Rebuild"}]
Index == 0 .. NumShiftbosses - 1

(* Types of the state of the foreman, the shiftbosses and the clients. *)
TypeOK ==
  /\ size \in 0 .. NumShiftbosses /\ load \in [Shiftboss -> Nat] /\ next \in Index
  /\ phase \in {"receive", "collect", "dispatch"}
  /\ admitted \subseteq Query /\ waiting \in Seq(Query)
  /\ ops \in [Op -> OpState] /\ width \in [Query -> Nat]
  /\ home \in [Placed -> Index \cup {None}] /\ collected \in [Op -> Nat]
  /\ analyzed \in [Client -> Nat]
  /\ contexts \in [Shiftboss -> SUBSET Query] /\ running \in [Shiftboss -> [Order -> Nat]]
  /\ partial \in [Shiftboss -> [Op -> Nat]]
  /\ built \in [Shiftboss -> SUBSET Shared] /\ blocks \in [Op -> Nat]
  /\ scenario \in Scenarios /\ statement \in [Client -> Nat]
  /\ awaiting \subseteq Client /\ answers \in [Client -> Nat]

Init ==
  /\ size = 0 /\ load = [s \in Shiftboss |-> 0] /\ next = 0
  /\ phase = "receive" /\ inbox = << >>
  /\ admitted = {} /\ waiting = << >>
  /\ ops = [o \in Op |-> NewOp] /\ width = [q \in Query |-> 0]
  /\ home = [x \in Placed |-> None] /\ collected = [o \in Op |-> 0]
  /\ analyzed = [c \in Client |-> 0]
  /\ global = [s \in Shiftboss |-> << >>]
  /\ contexts = [s \in Shiftboss |-> {}]
  /\ running = [s \in Shiftboss |-> [w \in Order |-> 0]]
  /\ partial = [s \in Shiftboss |-> [o \in Op |-> 0]]
  /\ built = [s \in Shiftboss |-> {}]
  /\ blocks = [o \in Op |-> 0]
  /\ scenario \in Scenarios /\ statement = [c \in Client |-> 0]
  /\ awaiting = {} /\ answers = [c \in Client |-> 0]

-----------------------------------------------------------------------------
(* Messages. *)

(* The foreman sends the messages "out" to the first n shiftbosses. *)
Broadcast(n, out) == [s \in Shiftboss |-> IF s <= n THEN out ELSE << >>]
Sends(a, b) == [s \in Shiftboss |-> a[s] \o b[s]]
Deliver(out) == global' = Sends(global, out)

(* initiateRebuild() uses the addresses the query manager was constructed with. *)
Rebuilds(q, n, out) ==
  Broadcast(n, [i \in DOMAIN out |-> [type |-> "InitiateRebuild", query |-> q, op |-> out[i]]])

QueryOf(m) == m.op[1]

(* Between two messages the foreman reads and writes nothing that others use,   *)
(* but to add to their messages: an iteration of its loop is one step for them. *)
Idle == phase = "receive"
ToForeman(m) == Idle /\ inbox' = Append(inbox, m)

Receive(type) ==
  /\ phase = "receive"
  /\ inbox # << >> /\ Head(inbox).type = type
  /\ inbox' = Tail(inbox)

-----------------------------------------------------------------------------
(* Admission and completion of queries. *)

(* admitQuery(): the limit of the concurrent queries. *)
MustWait(a) == Cardinality(a) > size

(* Mutant: the query manager is constructed first. *)
AdmissionRebuildFirst(st, q) ==
  LET r == Construct(st, q)
      n == size
  IN [ops |-> r.ops,
      out |-> Sends(Rebuilds(q, n, r.out), Broadcast(n, <<[type |-> "QueryInitiate", query |-> q]>>))]

(* initiateQueryInShiftboss(), then the query manager is constructed. *)
Admission(st, q) ==
  LET r == Construct(st, q)
      n == size
  IN [ops |-> r.ops,
      out |-> Sends(Broadcast(n, <<[type |-> "QueryInitiate", query |-> q]>>), Rebuilds(q, n, r.out))]

(* Queries of an ANALYZE statement are counted by relation; the last relation   *)
(* of the statement answers the client.  Any other query answers by itself.     *)
ClientOf(q) ==
  CHOOSE c \in Client : \E i \in DOMAIN scenario.script[c] : q \in Range(scenario.script[c][i])
NumRelations(c) ==
  Cardinality({q \in Range(scenario.script[c][statement[c]]) : Analyze[q] = "tuples"})

(* Mutant: every query of an ANALYZE statement is taken for a relation. *)
AnswerEach(F) ==
  LET of(c) == Cardinality({q \in F : ClientOf(q) = c})
  IN /\ analyzed' = analyzed
     /\ answers' = [c \in Client |-> answers[c] + of(c)]

(* onQueryCompletion() of the queries F for their clients, and                 *)
(* processAnalyzeQueryResult().                                                 *)
Answer(F) ==
  LET of(c, kind) == Cardinality({q \in F : ClientOf(q) = c /\ Analyze[q] = kind})
      counted(c) == analyzed[c] + of(c, "tuples")
      complete(c) == of(c, "tuples") > 0 /\ counted(c) = NumRelations(c)
  IN /\ analyzed' = [c \in Client |-> IF complete(c) THEN 0 ELSE counted(c)]
     /\ answers' = [c \in Client |-> answers[c] + of(c, "no") + (IF complete(c) THEN 1 ELSE 0)]

(* Mutant: only the default shiftboss is told. *)
TeardownFirst(q) == Broadcast(1, <<[type |-> "QueryTeardown", query |-> q]>>)

Teardown(q) == Broadcast(size, <<[type |-> "QueryTeardown", query |-> q]>>)

(* A handler leaves the query managers in state r.ops and has broadcast the     *)
(* rebuilds r.out of q: an executed query is completed and removed.  After      *)
(* processMessage() the earliest waiting query is admitted ("admit"); after     *)
(* a rebuild response none is.                                                  *)
Settle(q, r, admit) ==
  LET before == Rebuilds(q, width[q], r.out)
      entering == admit /\ waiting # << >>
      a == Admission(r.ops, Head(waiting))
  IN \/ /\ ~Executed(r.ops, q)
        /\ ops' = r.ops /\ Deliver(before)
        /\ UNCHANGED <<admitted, waiting, width, analyzed, answers>>
     \/ /\ Executed(r.ops, q) /\ ~entering
        /\ ops' = r.ops /\ Deliver(Sends(before, Teardown(q)))
        /\ admitted' = admitted \ {q}
        /\ Answer({q})
        /\ UNCHANGED <<waiting, width>>
     \/ /\ Executed(r.ops, q) /\ entering
        /\ ops' = a.ops /\ Deliver(Sends(Sends(before, Teardown(q)), a.out))
        /\ admitted' = (admitted \ {q}) \cup {Head(waiting)}
        /\ waiting' = Tail(waiting)
        /\ width' = [width EXCEPT ![Head(waiting)] = size]
        /\ Answer({q})

-----------------------------------------------------------------------------
(* The foreman's handlers. *)

(* processShiftbossRegistrationMessage() *)
ProcessRegistration ==
  /\ Receive("Registration")
  /\ size' = size + 1
  /\ global' = [global EXCEPT ![Head(inbox).from] = Append(@, [type |-> "Registered"])]
  /\ phase' = "collect"
  /\ UNCHANGED <<load, next, admitted, waiting, ops, width, home, collected, analyzed, node, clients>>

(* admitQueries(): queries are admitted until one has to wait, and then so do   *)
(* the ones behind it.                                                          *)
AdmitQueries ==
  /\ Receive("Admit")
  /\ LET handles == Head(inbox).queries
         Admit(r, q) ==
           IF r.wait # << >> \/ MustWait(r.in) THEN [r EXCEPT !.wait = Append(@, q)]
           ELSE LET a == Admission(r.ops, q)
                IN [in |-> r.in \cup {q}, wait |-> << >>, ops |-> a.ops, out |-> Sends(r.out, a.out)]
         none == [in |-> admitted, wait |-> << >>, ops |-> ops, out |-> Broadcast(0, << >>)]
         r == FoldLeft(Admit, none, handles)
     IN /\ admitted' = r.in
        /\ waiting' = waiting \o r.wait
        /\ ops' = r.ops
        /\ Deliver(r.out)
        /\ width' = [q \in Query |-> IF q \in r.in \ admitted THEN size ELSE width[q]]
  /\ phase' = "collect"
  /\ UNCHANGED <<size, load, next, home, collected, analyzed, node, clients>>

(* kQueryInitiateResponseMessage: nothing but a round of collecting. *)
ProcessInitiateResponse ==
  /\ Receive("QueryInitiateResponse")
  /\ phase' = "collect"
  /\ UNCHANGED <<size, load, next, admitted, waiting, ops, width, home, collected, analyzed,
                 global, node, clients>>

(* kCatalogRelationNewBlockMessage: canCollectNewMessages() is false for it. *)
ProcessNewBlock ==
  /\ Receive("NewBlock")
  /\ UNCHANGED <<foreman, global, node, clients>>

HandlerFrame ==
  /\ phase' = "collect"
  /\ UNCHANGED <<size, next, home, collected, node, scenario, statement, awaiting>>

(* processMessage() *)
ProcessDataPipelineMessage ==
  /\ Receive("DataPipeline")
  /\ Settle(QueryOf(Head(inbox)), [ops |-> ProcessDataPipeline(ops, Head(inbox).op), out |-> << >>], TRUE)
  /\ HandlerFrame /\ UNCHANGED load

ProcessWorkOrderCompleteMessage ==
  /\ Receive("NormalComplete")
  /\ LET m == Head(inbox)
     IN /\ load' = [load EXCEPT ![m.from] = @ - 1]
        /\ Settle(QueryOf(m), ProcessWorkOrderComplete(ops, m.op), TRUE)
  /\ HandlerFrame

ProcessRebuildCompleteMessage ==
  /\ Receive("RebuildComplete")
  /\ LET m == Head(inbox)
     IN /\ load' = [load EXCEPT ![m.from] = @ - 1]
        /\ Settle(QueryOf(m), ProcessRebuildWorkOrderComplete(ops, m.op, width[QueryOf(m)]), TRUE)
  /\ HandlerFrame

(* Mutant: the rebuild work orders are not added to the load. *)
ProcessInitiateRebuildResponseUncounted ==
  /\ Receive("InitiateRebuildResponse")
  /\ LET m == Head(inbox)
     IN Settle(QueryOf(m),
               ProcessInitiateRebuildResponse(ops, m.op, m.num, m.from - 1, width[QueryOf(m)]), FALSE)
  /\ HandlerFrame /\ UNCHANGED load

ProcessInitiateRebuildResponseMessage ==
  /\ Receive("InitiateRebuildResponse")
  /\ LET m == Head(inbox)
     IN /\ load' = [load EXCEPT ![m.from] = @ + m.num]
        /\ Settle(QueryOf(m),
                  ProcessInitiateRebuildResponse(ops, m.op, m.num, m.from - 1, width[QueryOf(m)]), FALSE)
  /\ HandlerFrame

-----------------------------------------------------------------------------
(* getWorkOrderProtoMessages() and dispatchWorkOrderMessages(). *)

AdmitEarliest ==
  /\ phase = "collect"
  /\ admitted = {} /\ waiting # << >>
  /\ LET q == Head(waiting)
         a == Admission(ops, q)
     IN /\ admitted' = {q} /\ waiting' = Tail(waiting)
        /\ ops' = a.ops /\ Deliver(a.out)
        /\ width' = [width EXCEPT ![q] = size]
  /\ UNCHANGED <<size, load, next, phase, inbox, home, collected, analyzed, node, clients>>

Dispatching == IF \A o \in Op : collected'[o] = 0 THEN "receive" ELSE "dispatch"
PerQueryShare == MaxMsgs \div Cardinality(admitted)

(* Every admitted query gives its share; the executed ones are removed, and no  *)
(* waiting query is admitted for them.                                          *)
GetWorkOrderProtoMessages ==
  /\ phase = "collect"
  /\ admitted # {}
  /\ collected' = [o \in Op |->
       IF o[1] \in admitted THEN NextWorkOrders(ops, o, PerQueryShare) ELSE 0]
  /\ ops' = [o \in Op |->
       [ops[o] EXCEPT !.pending = @ - collected'[o], !.queued = @ + collected'[o]]]
  /\ LET finished == {q \in admitted : Executed(ops, q)}
         torn == FoldSet(LAMBDA q, out : Sends(out, Teardown(q)), Broadcast(0, << >>), finished)
     IN /\ admitted' = admitted \ finished
        /\ Answer(finished)
        /\ Deliver(torn)
  /\ phase' = Dispatching
  /\ UNCHANGED <<size, load, next, inbox, waiting, width, home, node, scenario, statement, awaiting>>

NothingToCollect ==
  /\ phase = "collect"
  /\ admitted = {} /\ waiting = << >>
  /\ phase' = "receive"
  /\ UNCHANGED <<size, load, next, inbox, admitted, waiting, ops, width, home, collected, analyzed,
                 global, node, clients>>

(* getBlockLocalityInfo(): the block locator knows a shiftboss that has loaded  *)
(* the block of the work order, or none.                                        *)
Located(o) == IF Info(o).located THEN {next} \cup 0 .. size - 1 ELSE {next}

(* getShiftbossIndexFor{Aggregation,HashJoin,Lip,NestedLoopsJoin}() and         *)
(* hasBlockLocalityInfo(): the shiftboss that has the shared state, else the    *)
(* one that has the LIP filters, else where the block is, else the next.        *)
StateSet(o) == Info(o).key # None /\ home[StateOf(o)] # None
GroupSet(o) == Info(o).lip # None /\ home[GroupOf(o)] # None
Placement(o) ==
  IF o[1] \in SingleNode THEN {0}
  ELSE IF StateSet(o) THEN {home[StateOf(o)]}
  ELSE IF GroupSet(o) THEN {home[GroupOf(o)]}
  ELSE Located(o)

(* Mutant: the choice is not remembered. *)
Unsettled(o, index) == home

Settled(o, index) ==
  IF o[1] \in SingleNode \/ StateSet(o) THEN home
  ELSE [x \in Placed |-> IF x \in Entries(o) THEN index ELSE home[x]]

DispatchWorkOrderMessage(o) ==
  /\ phase = "dispatch"
  /\ collected[o] > 0
  /\ \A p \in OpsOf(o[1]) : p[2] < o[2] => collected[p] = 0
  /\ \E index \in Placement(o) :
       LET s == index + 1
       IN /\ global' = [global EXCEPT ![s] = Append(@, [type |-> "WorkOrder", query |-> o[1], op |-> o])]
          /\ load' = [load EXCEPT ![s] = @ + 1]
          /\ home' = Settled(o, index)
          /\ next' = IF next = index /\ load'[s] >= Capacity THEN (next + 1) % size ELSE next
  /\ collected' = [collected EXCEPT ![o] = @ - 1]
  /\ phase' = Dispatching
  /\ UNCHANGED <<size, inbox, admitted, waiting, ops, width, analyzed, node, clients>>

-----------------------------------------------------------------------------
(* A shiftboss and its workers. *)

(* registerWithForeman() *)
Register(s) ==
  /\ s = size + Cardinality({i \in DOMAIN inbox : inbox[i].type = "Registration"}) + 1
  /\ s <= scenario.nodes
  /\ LateRegistration \/ \A c \in Client : statement[c] = 0
  /\ ToForeman([type |-> "Registration", from |-> s])
  /\ UNCHANGED <<foreman, global, node, clients>>

FromForeman(s, type) ==
  /\ Idle
  /\ global[s] # << >> /\ Head(global[s]).type = type
  /\ global' = [global EXCEPT ![s] = Tail(@)]

(* processShiftbossRegistrationResponseMessage() *)
ProcessRegistered(s) ==
  /\ FromForeman(s, "Registered")
  /\ UNCHANGED <<foreman, inbox, node, clients>>

ProcessQueryInitiate(s) ==
  /\ FromForeman(s, "QueryInitiate")
  /\ contexts' = [contexts EXCEPT ![s] = @ \cup {Head(global[s]).query}]
  /\ ToForeman([type |-> "QueryInitiateResponse", from |-> s])
  /\ UNCHANGED <<foreman, running, partial, built, blocks, clients>>

(* kWorkOrderMessage: without the query's context the process ends. *)
ProcessWorkOrder(s) ==
  /\ FromForeman(s, "WorkOrder")
  /\ Head(global[s]).query \in contexts[s]
  /\ running' = [running EXCEPT ![s][[op |-> Head(global[s]).op, kind |-> "Normal"]] = @ + 1]
  /\ UNCHANGED <<foreman, inbox, contexts, partial, built, blocks, clients>>

(* processInitiateRebuildMessage(): the number of partially filled blocks is    *)
(* sent back before the workers get them.                                       *)
ProcessInitiateRebuild(s) ==
  /\ FromForeman(s, "InitiateRebuild")
  /\ Head(global[s]).query \in contexts[s]
  /\ LET o == Head(global[s]).op
         num == partial[s][o]
     IN /\ ToForeman([type |-> "InitiateRebuildResponse", from |-> s, op |-> o, num |-> num])
        /\ running' = [running EXCEPT ![s][[op |-> o, kind |-> "Rebuild"]] = @ + num]
        /\ partial' = [partial EXCEPT ![s][o] = 0]
  /\ UNCHANGED <<foreman, contexts, built, blocks, clients>>

(* kQueryTeardownMessage: the context goes, and all it holds. *)
ProcessQueryTeardown(s) ==
  /\ FromForeman(s, "QueryTeardown")
  /\ LET q == Head(global[s]).query
     IN /\ contexts' = [contexts EXCEPT ![s] = @ \ {q}]
        /\ built' = [built EXCEPT ![s] = {x \in @ : x[1] # q}]
        /\ partial' = [partial EXCEPT ![s] = [o \in Op |-> IF o[1] = q THEN 0 ELSE @[o]]]
  /\ UNCHANGED <<foreman, inbox, running, blocks, clients>>

(* A worker's messages; run() of its shiftboss forwards them in order.          *)
Forward(s, o, types) ==
  /\ Idle
  /\ inbox' = inbox \o [i \in DOMAIN types |-> [type |-> types[i], from |-> s, op |-> o]]

(* A work order creates or fills a block. *)
ReportBlock(s, w, type) ==
  /\ running[s][w] > 0 /\ w.kind = "Normal" /\ Info(w.op).rebuild
  /\ blocks[w.op] < MaxBlocks[w.op[1]]
  /\ blocks' = [blocks EXCEPT ![w.op] = @ + 1]
  /\ Forward(s, w.op, <<type>>)
  /\ UNCHANGED <<foreman, global, contexts, running, partial, built, clients>>

(* A work order ends, and may leave a partially filled block behind. *)
ExecuteWorkOrder(s, o) ==
  LET w == [op |-> o, kind |-> "Normal"]
  IN /\ running[s][w] > 0
     /\ running' = [running EXCEPT ![s][w] = @ - 1]
     /\ built' = [built EXCEPT ![s] = @ \cup {<<o[1], x>> : x \in Info(o).uses}]
     /\ \E left \in IF Info(o).rebuild /\ blocks[o] < MaxBlocks[o[1]] THEN 0 .. 1 ELSE {0} :
          /\ partial' = [partial EXCEPT ![s][o] = @ + left]
          /\ blocks' = [blocks EXCEPT ![o] = @ + left]
     /\ Forward(s, o, <<"NormalComplete">>)
     /\ UNCHANGED <<foreman, global, contexts, clients>>

(* A rebuilt block is reported before the completion. *)
ExecuteRebuild(s, o) ==
  LET w == [op |-> o, kind |-> "Rebuild"]
  IN /\ running[s][w] > 0
     /\ running' = [running EXCEPT ![s][w] = @ - 1]
     /\ Forward(s, o, <<"DataPipeline", "RebuildComplete">>)
     /\ UNCHANGED <<foreman, global, contexts, partial, built, blocks, clients>>

-----------------------------------------------------------------------------
(* The clients; the conductor plans a statement and passes it on. *)

Submit(c) ==
  /\ c \notin awaiting /\ statement[c] < Len(scenario.script[c])
  /\ size > 0
  /\ LateRegistration \/ \A i \in DOMAIN inbox : inbox[i].type # "Registration"
  /\ statement' = [statement EXCEPT ![c] = @ + 1]
  /\ awaiting' = awaiting \cup {c}
  /\ ToForeman([type |-> "Admit", queries |-> scenario.script[c][statement'[c]]])
  /\ UNCHANGED <<foreman, global, node, scenario, answers>>

ReceiveAnswer(c) ==
  /\ Idle /\ c \in awaiting /\ answers[c] > 0
  /\ awaiting' = awaiting \ {c}
  /\ answers' = [answers EXCEPT ![c] = @ - 1]
  /\ UNCHANGED <<foreman, inbox, global, node, scenario, statement>>

-----------------------------------------------------------------------------
ForemanStep ==
  \/ ProcessRegistration \/ AdmitQueries \/ ProcessInitiateResponse \/ ProcessNewBlock
  \/ ProcessDataPipelineMessage \/ ProcessWorkOrderCompleteMessage \/ ProcessRebuildCompleteMessage
  \/ ProcessInitiateRebuildResponseMessage
  \/ AdmitEarliest \/ GetWorkOrderProtoMessages \/ NothingToCollect
  \/ \E o \in Op : DispatchWorkOrderMessage(o)

ShiftbossStep(s) ==
  ProcessRegistered(s) \/ ProcessQueryInitiate(s) \/ ProcessWorkOrder(s) \/ ProcessInitiateRebuild(s)
    \/ ProcessQueryTeardown(s)

WorkerStep(s) == \E o \in Op : ExecuteWorkOrder(s, o) \/ ExecuteRebuild(s, o)

ClientStep(c) == Submit(c) \/ ReceiveAnswer(c)

Quiet ==
  /\ phase = "receive" /\ inbox = << >>
  /\ \A s \in Shiftboss : global[s] = << >> /\ \A w \in Order : running[s][w] = 0

Next ==
  \/ ForemanStep
  \/ \E s \in Shiftboss : Register(s) \/ ShiftbossStep(s) \/ WorkerStep(s)
  \/ \E s \in Shiftboss, w \in Order, type \in {"NewBlock", "DataPipeline"} : ReportBlock(s, w, type)
  \/ \E c \in Client : ClientStep(c)

(* The threads keep running; a shiftboss polls both of its message buses. *)
Fairness ==
  /\ WF_vars(ForemanStep)
  /\ \A s \in Shiftboss : WF_vars(ShiftbossStep(s)) /\ WF_vars(WorkerStep(s))
  /\ \A c \in Client : WF_vars(ClientStep(c))

Spec == Init /\ [][Next]_vars /\ Fairness

-----------------------------------------------------------------------------
(* Properties. *)

InInbox(s, types) == {i \in DOMAIN inbox : inbox[i].type \in types /\ inbox[i].from = s}
InGlobal(s, types) == {i \in DOMAIN global[s] : global[s][i].type \in types}
WorkTypes == {"WorkOrder", "InitiateRebuild"}
AnswerTypes == {"DataPipeline", "NormalComplete", "RebuildComplete", "InitiateRebuildResponse"}

(* num_queued_work_orders_ of the ShiftbossDirectory, an unsigned number that    *)
(* steers the placement, is the number of work orders at or on the way to the    *)
(* shiftboss and of completions not read yet, but for the rebuild work orders    *)
(* whose number is still on its way: their completions never come before it.     *)
LoadExact ==
  \A s \in Shiftboss :
    load[s] + MapThenSumSet(LAMBDA i : inbox[i].num, InInbox(s, {"InitiateRebuildResponse"}))
      = Cardinality(InGlobal(s, {"WorkOrder"}))
          + MapThenSumSet(LAMBDA w : running[s][w], {w \in Order : running[s][w] > 0})
          + Cardinality(InInbox(s, {"NormalComplete", "RebuildComplete"}))

(* DCHECK_EQ(1u, query_contexts_.count(query_id)) in Shiftboss: a work order or   *)
(* the start of a rebuild finds the context of its query on the node.            *)
ContextPresent ==
  \A s \in Shiftboss :
    global[s] # << >> /\ Head(global[s]).type \in WorkTypes => Head(global[s]).query \in contexts[s]

(* DCHECK(admitted_queries_.find(query_id) != admitted_queries_.end()): a query   *)
(* is removed only when no message or work order of it is left anywhere.         *)
MessagesOfAdmittedQueries ==
  /\ \A i \in DOMAIN inbox : inbox[i].type \in AnswerTypes => QueryOf(inbox[i]) \in admitted
  /\ \A s \in Shiftboss :
       /\ \A i \in InGlobal(s, WorkTypes) : global[s][i].query \in admitted
       /\ \A w \in Order : running[s][w] > 0 => w.op[1] \in admitted

(* An operator is finished only when all of its output is: no node has a          *)
(* partially filled block of it that was not rebuilt, nor a work order.          *)
OutputComplete ==
  \A o \in Op : ops[o].finished =>
    \A s \in Shiftboss :
      partial[s][o] = 0 /\ \A w \in Order : w.op = o => running[s][w] = 0

(* A hash table, an aggregation state or a group of LIP filters is in the query   *)
(* context of one node: the work orders that share it all run there.             *)
SharedStateOnOneNode ==
  \A x \in Shared : Cardinality({s \in Shiftboss : x \in built[s]}) <= 1

(* A statement is answered once, after a client has asked: with ANALYZE, many     *)
(* queries stand for one statement.                                              *)
AnsweredOnce == \A c \in Client : answers[c] <= 1 /\ (answers[c] = 1 => c \in awaiting)

(* No node keeps a context or a shared state of a query that is over. *)
NothingLeftBehind ==
  Quiet /\ admitted = {} /\ waiting = << >> =>
    \A s \in Shiftboss : contexts[s] = {} /\ built[s] = {}

(* Every statement is answered: no query waits for ever to be admitted, and no    *)
(* rebuild for the answer of a node.                                             *)
EventuallyAnswered == \A c \in Client : c \in awaiting ~> c \notin awaiting
=============================================================================
