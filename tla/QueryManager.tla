---------------------------- MODULE QueryManager ----------------------------
(* Execution of one query plan: QueryManagerBase / QueryManagerSingleNode,     *)
(* QueryExecutionState, the operators' work order generation contract, the     *)
(* output block pool (BlockPoolInsertDestination) and the workers that run the *)
(* work orders.  The foreman thread owns the query manager; the workers run    *)
(* concurrently with it and talk to it only through its message inbox.         *)
EXTENDS Integers, Sequences, FiniteSets

CONSTANTS
  NumOperators,   \* num_operators_in_dag_
  Link,           \* the edges <<producer, consumer>> of the query plan DAG
  Breaker,        \* the edges whose metadata is true (is_pipeline_breaker)
  LinkOrder,      \* a number per edge: of an operator's dependents, one with a
                  \* larger number comes first in the iteration of getDependents()
  Kind,           \* how an operator generates work orders, see Kinds
  Stored,         \* number of work orders an operator makes from stored input
  Input,          \* the producers whose output relation an operator streams in
  Output,         \* operators with getOutputRelationID() >= 0
  Destination,    \* operators with an InsertDestination (rebuild required)
  Worker,         \* worker threads
  MaxBlocks,      \* bound: blocks one operator may create
  MaxLoad         \* bound: work orders queued at one worker

Op == 0 .. NumOperators - 1

(* "stored": all work orders at once (input_relation_is_stored_, one-shot      *)
(*   operators such as DropTable and DestroyHash);                             *)
(* "stream": one work order per fed block, finished when the base class flag   *)
(*   done_feeding_input_relation_ is set, by whatever relation;                *)
(* "probe": as "stream", but it only listens to its own input relation         *)
(*   (HashJoinOperator and its probe relation);                                *)
(* "union": stored and streamed inputs, finished when no streamed input is     *)
(*   still feeding (UnionAllOperator);                                         *)
(* "closure": several streamed inputs that share the base class flag           *)
(*   (BuildTransitiveClosureOperator).                                         *)
Kinds == {"stored", "stream", "probe", "union", "closure"}

Database == -1
NoBlock == [from |-> Database, id |-> 0]
Block == [from : Op \cup {Database}, id : Nat]
StoredBlocks(o) == [i \in 1 .. Stored[o] |-> [from |-> Database, id |-> i]]

Dependencies(o) == {p \in Op : <<p, o>> \in Link}
Dependents(o)   == {c \in Op : <<o, c>> \in Link}
OutputConsumers(o) == {c \in Op : <<o, c>> \in Link \ Breaker}

ASSUME PlanAssumption ==
  /\ NumOperators \in Nat \ {0}
  /\ Link \subseteq Op \X Op
  /\ Breaker \subseteq Link
  /\ LinkOrder \in [Link -> Nat]
  /\ Kind \in [Op -> Kinds]
  /\ Stored \in [Op -> Nat]
  /\ Input \in [Op -> SUBSET Op]
  /\ Output \subseteq Op
  /\ Destination \subseteq Op
  /\ MaxBlocks \in Nat
  /\ MaxLoad \in Nat

(* The planner's part of the contract: no operator depends on itself, every    *)
(* pipelined edge of an operator comes from an operator whose relation it      *)
(* reads, and an operator that relies on the base class                        *)
(* doneFeedingInputBlocks() has no second dependency with an output relation.  *)
WellFormedPlan ==
  \A o \in Op :
    /\ <<o, o>> \notin Link
    /\ {p \in Op : <<p, o>> \in Link \ Breaker} \subseteq Input[o]
    /\ Kind[o] \in {"stream", "closure"} =>
         \A p, q \in Dependencies(o) : p \in Output /\ q \in Output => p = q
    /\ Kind[o] \in {"stream", "closure"} => Input[o] \subseteq Output
    /\ Kind[o] = "stored" => {p \in Op : <<p, o>> \in Link \ Breaker} = {}

(* An operator that streams its input reads pipelined edges only. *)
InputsPipelined ==
  \A o \in Op : Kind[o] # "stored" => \A p \in Input[o] : <<p, o>> \in Link \ Breaker

(* The operators that an operator depends on, directly or not: those in every  *)
(* set that has its dependencies and, with an operator, the operator's own.    *)
Upstream(c) ==
  {p \in Op : \A S \in SUBSET Op :
     Dependencies(c) \subseteq S /\ (\A y \in S : Dependencies(y) \subseteq S) => p \in S}

(* Of two dependents of an operator, one of which depends on the other, the    *)
(* loop in markOperatorFinished() reaches the one downstream first: it is not  *)
(* visited again after the other, finished in the loop, has finished it too.   *)
DownstreamFirst ==
  \A p, d, c \in Op :
    <<p, d>> \in Link /\ <<p, c>> \in Link /\ d \in Upstream(c) =>
      LinkOrder[<<p, d>>] < LinkOrder[<<p, c>>]
OrderedPlan == WellFormedPlan /\ DownstreamFirst

VARIABLES
  blockingDependencies,     \* blocking_dependencies_
  nonBlockingDependencies,  \* non_blocking_dependencies_
  normalWorkOrders,         \* normal_workorders_ of the WorkOrdersContainer
  rebuildWorkOrders,        \* rebuild_workorders_ of the WorkOrdersContainer
  queuedWorkOrders,         \* queued_workorders_per_op_
  numRebuildWorkOrders,     \* rebuild_status_[op].num_rebuild_workorders
  rebuildInitiated,         \* rebuild_status_[op].has_initiated
  doneGeneration,           \* done_gen_
  finished,                 \* execution_finished_
  numFinished,              \* num_operators_finished_
  storedGenerated,          \* started_ / stored_generated_ / work_generated_
  fed,                      \* the block ids fed to an operator
  numGenerated,             \* num_workorders_generated_
  doneFed,                  \* relations whose end of input was signalled
  toStart,                  \* constructor: non_dependent_operators_ left
  stack,                    \* pending calls of markOperatorFinished()
  inbox,                    \* the foreman's message queue
  catalog,                  \* blocks the catalog knows of an operator's output
  available,                \* available_block_refs_ of an InsertDestination
  created,                  \* number of blocks an InsertDestination created
  assigned,                 \* messages at a worker; the head is running
  held,                     \* the output block a worker is filling
  returned                  \* the running work order has made its last insert

opState  == <<doneGeneration, storedGenerated, fed, numGenerated, doneFed>>
depState == <<blockingDependencies, nonBlockingDependencies, finished, numFinished>>
queues   == <<normalWorkOrders, queuedWorkOrders>>
rebuilds == <<rebuildWorkOrders, numRebuildWorkOrders, rebuildInitiated, available>>
workers  == <<created, assigned, held, returned>>
control  == <<toStart, stack>>
vars == <<opState, depState, queues, rebuilds, workers, control, inbox, catalog>>

WorkOrder == [op : Op, rebuild : BOOLEAN, block : Block]
Message ==
  [type : {"NewBlock", "DataPipeline", "Complete", "RebuildComplete"},
   op : Op, block : Block]
Frame == [op : Op, todo : SUBSET Op]

(* The query manager's, the block pools' and the workers' state has the types  *)
(* that the code's declarations give it.                                       *)
TypeOK ==
  /\ blockingDependencies \in [Op -> SUBSET Op]
  /\ nonBlockingDependencies \in [Op -> SUBSET Op]
  /\ normalWorkOrders \in [Op -> Seq(Block)]
  /\ rebuildWorkOrders \in [Op -> Seq(Block)]
  /\ queuedWorkOrders \in [Op -> Int]
  /\ numRebuildWorkOrders \in [Op -> Int]
  /\ rebuildInitiated \in [Op -> BOOLEAN]
  /\ doneGeneration \in [Op -> BOOLEAN]
  /\ finished \in [Op -> BOOLEAN]
  /\ numFinished \in Nat
  /\ storedGenerated \in [Op -> BOOLEAN]
  /\ fed \in [Op -> Seq(Block)]
  /\ numGenerated \in [Op -> Nat]
  /\ doneFed \in [Op -> SUBSET Op]
  /\ toStart \in SUBSET Op
  /\ stack \in Seq(Frame)
  /\ inbox \in Seq(Message)
  /\ catalog \in [Op -> SUBSET Block]
  /\ available \in [Op -> Seq(Block)]
  /\ created \in [Op -> Nat]
  /\ assigned \in [Worker -> Seq(WorkOrder)]
  /\ held \in [Worker -> Block]
  /\ returned \in [Worker -> BOOLEAN]

Init ==
  /\ blockingDependencies = [o \in Op |-> {p \in Op : <<p, o>> \in Breaker}]
  /\ nonBlockingDependencies = [o \in Op |-> {p \in Op : <<p, o>> \in Link \ Breaker}]
  /\ normalWorkOrders = [o \in Op |-> << >>]
  /\ rebuildWorkOrders = [o \in Op |-> << >>]
  /\ queuedWorkOrders = [o \in Op |-> 0]
  /\ numRebuildWorkOrders = [o \in Op |-> 0]
  /\ rebuildInitiated = [o \in Op |-> FALSE]
  /\ doneGeneration = [o \in Op |-> FALSE]
  /\ finished = [o \in Op |-> FALSE]
  /\ numFinished = 0
  /\ storedGenerated = [o \in Op |-> FALSE]
  /\ fed = [o \in Op |-> << >>]
  /\ numGenerated = [o \in Op |-> 0]
  /\ doneFed = [o \in Op |-> {}]
  /\ toStart = {o \in Op : Dependencies(o) = {}}
  /\ stack = << >>
  /\ inbox = << >>
  /\ catalog = [o \in Op |-> {}]
  /\ available = [o \in Op |-> << >>]
  /\ created = [o \in Op |-> 0]
  /\ assigned = [w \in Worker |-> << >>]
  /\ held = [w \in Worker |-> NoBlock]
  /\ returned = [w \in Worker |-> FALSE]

-----------------------------------------------------------------------------
(* The operators' contract: getAllWorkOrders() and the feeding callbacks.      *)

(* Mutant: the first input to end ends them all. *)
DoneFeedingFirstEnd(o, done) == Kind[o] = "stored" \/ done # {}

DoneFeeding(o, done) ==
  CASE Kind[o] = "stored" -> TRUE
    [] Kind[o] \in {"stream", "closure"} -> done # {}
    [] Kind[o] \in {"probe", "union"} -> done \cap Input[o] # {} /\ Input[o] \subseteq done

NewWorkOrders(o, fedBlocks) ==
  (IF storedGenerated[o] THEN << >> ELSE StoredBlocks(o))
    \o SubSeq(fedBlocks, numGenerated[o] + 1, Len(fedBlocks))

(* fetchNormalWorkOrders() on every operator of the set S, given what the      *)
(* operators have been fed and told; it repeats nothing already generated.     *)
Fetch(S, feds, dones) ==
  /\ fed' = feds
  /\ doneFed' = dones
  /\ normalWorkOrders' = [o \in Op |->
       IF o \in S THEN normalWorkOrders[o] \o NewWorkOrders(o, feds[o])
                  ELSE normalWorkOrders[o]]
  /\ storedGenerated' = [o \in Op |-> storedGenerated[o] \/ o \in S]
  /\ numGenerated' = [o \in Op |-> IF o \in S THEN Len(feds[o]) ELSE numGenerated[o]]
  /\ doneGeneration' = [o \in Op |->
       doneGeneration[o] \/ (o \in S /\ DoneFeeding(o, dones[o]))]

(* Mutant: the pipeline breakers are ignored. *)
IgnoreBlockingDependencies(o) == TRUE

CheckAllBlockingDependenciesMet(o) == blockingDependencies[o] = {}

-----------------------------------------------------------------------------
(* The query manager, run by the foreman thread.                               *)

HasQueryExecutionFinished == numFinished = NumOperators
Idle == toStart = {} /\ stack = << >> /\ ~HasQueryExecutionFinished

(* Mutant: has_initiated is never set. *)
InitiateRebuildUnflagged(o) ==
  /\ rebuildWorkOrders' = [rebuildWorkOrders EXCEPT ![o] = @ \o available[o]]
  /\ numRebuildWorkOrders' = [numRebuildWorkOrders EXCEPT ![o] = Len(available[o])]
  /\ available' = [available EXCEPT ![o] = << >>]
  /\ UNCHANGED rebuildInitiated

(* initiateRebuild(): the partially filled blocks leave the InsertDestination  *)
(* and become rebuild work orders.                                             *)
InitiateRebuild(o) ==
  /\ rebuildWorkOrders' = [rebuildWorkOrders EXCEPT ![o] = @ \o available[o]]
  /\ numRebuildWorkOrders' = [numRebuildWorkOrders EXCEPT ![o] = Len(available[o])]
  /\ rebuildInitiated' = [rebuildInitiated EXCEPT ![o] = TRUE]
  /\ available' = [available EXCEPT ![o] = << >>]

(* Mutant: partially filled blocks are left in the InsertDestination. *)
NeverRebuild(o) == FALSE

MustRebuild(o) == o \in Destination /\ available[o] # << >>

(* markOperatorFinished() up to its loop over the dependents; the loop is the  *)
(* frame pushed on the stack.                                                  *)
MarkOperatorFinished(o, callers) ==
  /\ finished' = [finished EXCEPT ![o] = TRUE]
  /\ numFinished' = numFinished + 1
  /\ blockingDependencies' = [c \in Op |-> blockingDependencies[c] \ {o}]
  /\ nonBlockingDependencies' = [c \in Op |-> nonBlockingDependencies[c] \ {o}]
  /\ stack' = <<[op |-> o, todo |-> Dependents(o)]>> \o callers

(* What follows the end of an operator's normal execution: rebuild the         *)
(* partially filled blocks, or finish.                                         *)
RebuildOrFinish(o, callers) ==
  \/ /\ MustRebuild(o)
     /\ InitiateRebuild(o)
     /\ stack' = callers
     /\ UNCHANGED depState
  \/ /\ ~MustRebuild(o)
     /\ IF o \in Destination THEN InitiateRebuild(o) ELSE UNCHANGED rebuilds
     /\ MarkOperatorFinished(o, callers)

(* The constructor: fetch work of the operators without dependencies, in index *)
(* order; one that has none is finished at once.  Its initiateRebuild() call   *)
(* sits inside a DCHECK and is not part of a release build.                    *)
StartOperator(o) ==
  /\ stack = << >>
  /\ o \in toStart
  /\ \A p \in toStart : o <= p
  /\ toStart' = toStart \ {o}
  /\ Fetch({o}, fed, doneFed)
  /\ IF NewWorkOrders(o, fed[o]) # << >>
     THEN UNCHANGED <<depState, rebuilds, stack>>
     ELSE MarkOperatorFinished(o, << >>) /\ UNCHANGED rebuilds
  /\ UNCHANGED <<queuedWorkOrders, workers, inbox, catalog>>

(* One iteration of the loop in markOperatorFinished(): tell a dependent that  *)
(* its input has ended and, when nothing blocks it, fetch its work orders.     *)
(* Dependents are kept in an unordered_map, whose iteration order is not       *)
(* specified: edges with equal LinkOrder are visited in any order.  libstdc++  *)
(* visits the edge created last first.                                         *)
NextDependent(c) ==
  /\ stack # << >>
  /\ c \in Head(stack).todo
  /\ \A d \in Head(stack).todo :
       LinkOrder[<<Head(stack).op, d>>] <= LinkOrder[<<Head(stack).op, c>>]

DoneFedBy(o, c) == IF o \in Output THEN [doneFed EXCEPT ![c] = @ \cup {o}] ELSE doneFed

CallersAfter(c) == <<[Head(stack) EXCEPT !.todo = @ \ {c}]>> \o Tail(stack)

NotifyBlockedDependent(c) ==
  /\ NextDependent(c)
  /\ ~CheckAllBlockingDependenciesMet(c)
  /\ doneFed' = DoneFedBy(Head(stack).op, c)
  /\ stack' = CallersAfter(c)
  /\ UNCHANGED <<doneGeneration, storedGenerated, fed, numGenerated, depState, queues,
                 rebuilds, workers, toStart, inbox, catalog>>

(* Mutant: the dependent is told and not asked for work orders again. *)
NotifyUnasked(c) ==
  /\ NextDependent(c)
  /\ CheckAllBlockingDependenciesMet(c)
  /\ doneFed' = DoneFedBy(Head(stack).op, c)
  /\ stack' = CallersAfter(c)
  /\ UNCHANGED <<doneGeneration, storedGenerated, fed, numGenerated, depState, queues,
                 rebuilds, workers, toStart, inbox, catalog>>

NotifyReadyDependent(c) ==
  /\ NextDependent(c)
  /\ CheckAllBlockingDependenciesMet(c)
  /\ Fetch({c}, fed, DoneFedBy(Head(stack).op, c))
  /\ IF /\ NewWorkOrders(c, fed[c]) = << >>
        /\ nonBlockingDependencies[c] = {}
        /\ normalWorkOrders[c] = << >>
        /\ queuedWorkOrders[c] = 0
        /\ doneGeneration'[c]
     THEN RebuildOrFinish(c, CallersAfter(c))
     ELSE stack' = CallersAfter(c) /\ UNCHANGED <<depState, rebuilds>>
  /\ UNCHANGED <<queuedWorkOrders, workers, toStart, inbox, catalog>>

ReturnFromMarkFinished ==
  /\ stack # << >>
  /\ Head(stack).todo = {}
  /\ stack' = Tail(stack)
  /\ UNCHANGED <<opState, depState, queues, rebuilds, workers, toStart, inbox, catalog>>

Receive(type) == Idle /\ inbox # << >> /\ Head(inbox).type = type /\ inbox' = Tail(inbox)

(* Mutant: the operator is finished while other work orders of it still run. *)
ProcessWorkOrderCompleteEarly ==
  /\ Receive("Complete")
  /\ LET o == Head(inbox).op IN
     /\ queuedWorkOrders' = [queuedWorkOrders EXCEPT ![o] = @ - 1]
     /\ IF normalWorkOrders[o] = << >> /\ doneGeneration[o]
        THEN RebuildOrFinish(o, << >>)
        ELSE UNCHANGED <<depState, rebuilds, stack>>
  /\ UNCHANGED <<opState, normalWorkOrders, workers, toStart, catalog>>

(* Mutant: the completed work order is not taken off the counter. *)
ProcessWorkOrderCompleteUncounted ==
  /\ Receive("Complete")
  /\ LET o == Head(inbox).op IN
     IF normalWorkOrders[o] = << >> /\ queuedWorkOrders[o] = 0 /\ doneGeneration[o]
     THEN RebuildOrFinish(o, << >>)
     ELSE UNCHANGED <<depState, rebuilds, stack>>
  /\ UNCHANGED <<opState, queues, workers, toStart, catalog>>

(* processWorkOrderCompleteMessage() *)
ProcessWorkOrderComplete ==
  /\ Receive("Complete")
  /\ LET o == Head(inbox).op IN
     /\ queuedWorkOrders' = [queuedWorkOrders EXCEPT ![o] = @ - 1]
     /\ IF normalWorkOrders[o] = << >> /\ queuedWorkOrders'[o] = 0 /\ doneGeneration[o]
        THEN RebuildOrFinish(o, << >>)
        ELSE UNCHANGED <<depState, rebuilds, stack>>
  /\ UNCHANGED <<opState, normalWorkOrders, workers, toStart, catalog>>

(* processRebuildWorkOrderCompleteMessage() *)
ProcessRebuildWorkOrderComplete ==
  /\ Receive("RebuildComplete")
  /\ LET o == Head(inbox).op IN
     /\ numRebuildWorkOrders' = [numRebuildWorkOrders EXCEPT ![o] = @ - 1]
     /\ IF rebuildWorkOrders[o] = << >> /\ numRebuildWorkOrders'[o] = 0
        THEN MarkOperatorFinished(o, << >>)
        ELSE UNCHANGED <<depState, stack>>
  /\ UNCHANGED <<opState, queues, rebuildWorkOrders, rebuildInitiated, available,
                 workers, toStart, catalog>>

(* processDataPipelineMessage(): feed the block to every output consumer and   *)
(* fetch the work orders of those that nothing blocks.                         *)
ProcessDataPipeline ==
  /\ Receive("DataPipeline")
  /\ LET p == Head(inbox).op
         consumers == OutputConsumers(p)
     IN Fetch({c \in consumers : CheckAllBlockingDependenciesMet(c)},
              [c \in Op |-> IF c \in consumers /\ p \in Input[c]
                            THEN Append(fed[c], Head(inbox).block) ELSE fed[c]],
              doneFed)
  /\ UNCHANGED <<depState, queuedWorkOrders, rebuilds, workers, control, catalog>>

(* processMessage(kCatalogRelationNewBlockMessage) *)
ProcessNewBlock ==
  /\ Receive("NewBlock")
  /\ catalog' = [catalog EXCEPT ![Head(inbox).op] = @ \cup {Head(inbox).block}]
  /\ UNCHANGED <<opState, depState, queues, rebuilds, workers, control>>

(* getNextWorkerMessage() and its dispatch: a rebuild work order first, else a *)
(* normal one.  Which operator's turn it is (WorkOrderSelectionPolicy) and     *)
(* which worker gets it (WorkerDirectory) is left open.                        *)
DispatchRebuild(o, w) ==
  /\ Idle
  /\ Len(assigned[w]) < MaxLoad
  /\ rebuildWorkOrders[o] # << >>
  /\ rebuildWorkOrders' = [rebuildWorkOrders EXCEPT ![o] = Tail(@)]
  /\ assigned' = [assigned EXCEPT ![w] =
       Append(@, [op |-> o, rebuild |-> TRUE, block |-> Head(rebuildWorkOrders[o])])]
  /\ UNCHANGED <<opState, depState, queues, numRebuildWorkOrders, rebuildInitiated,
                 available, created, held, returned, control, inbox, catalog>>

DispatchNormal(o, w) ==
  /\ Idle
  /\ Len(assigned[w]) < MaxLoad
  /\ \A p \in Op : rebuildWorkOrders[p] = << >>
  /\ normalWorkOrders[o] # << >>
  /\ normalWorkOrders' = [normalWorkOrders EXCEPT ![o] = Tail(@)]
  /\ queuedWorkOrders' = [queuedWorkOrders EXCEPT ![o] = @ + 1]
  /\ assigned' = [assigned EXCEPT ![w] =
       Append(@, [op |-> o, rebuild |-> FALSE, block |-> Head(normalWorkOrders[o])])]
  /\ UNCHANGED <<opState, depState, rebuilds, created, held, returned, control, inbox, catalog>>

-----------------------------------------------------------------------------
(* The workers.  A work order of an operator with an InsertDestination fills   *)
(* any number of blocks and may hand back one that is partially filled.        *)

Running(w, isRebuild) == assigned[w] # << >> /\ Head(assigned[w]).rebuild = isRebuild

Send(type, o, b) == inbox' = Append(inbox, [type |-> type, op |-> o, block |-> b])

(* Mutant: the block that is handed out stays in the pool. *)
ReuseBlockShared(w) ==
  /\ Running(w, FALSE) /\ held[w] = NoBlock /\ ~returned[w]
  /\ LET avail == available[Head(assigned[w]).op]
     IN /\ avail # << >>
        /\ held' = [held EXCEPT ![w] = avail[Len(avail)]]
  /\ UNCHANGED <<opState, depState, queues, rebuilds, created, assigned, returned, control,
                 inbox, catalog>>

(* getBlockForInsertion(): an available block, else a new one. The pool starts *)
(* without stored blocks of the relation (available_block_ids_).               *)
ReuseBlock(w) ==
  /\ Running(w, FALSE) /\ held[w] = NoBlock /\ ~returned[w]
  /\ LET o == Head(assigned[w]).op
         avail == available[o]
     IN /\ o \in Destination
        /\ avail # << >>
        /\ held' = [held EXCEPT ![w] = avail[Len(avail)]]
        /\ available' = [available EXCEPT ![o] = SubSeq(@, 1, Len(@) - 1)]
  /\ UNCHANGED <<opState, depState, queues, rebuildWorkOrders, numRebuildWorkOrders,
                 rebuildInitiated, created, assigned, returned, control, inbox, catalog>>

CreateNewBlock(w) ==
  /\ Running(w, FALSE) /\ held[w] = NoBlock /\ ~returned[w]
  /\ LET o == Head(assigned[w]).op
         b == [from |-> o, id |-> created[o] + 1]
     IN /\ o \in Destination
        /\ available[o] = << >>
        /\ created[o] < MaxBlocks
        /\ held' = [held EXCEPT ![w] = b]
        /\ created' = [created EXCEPT ![o] = @ + 1]
        /\ Send("NewBlock", o, b)
  /\ UNCHANGED <<opState, depState, queues, rebuilds, assigned, returned, control, catalog>>

(* returnBlock(full = true): stream the block *)
ReturnFullBlock(w) ==
  /\ Running(w, FALSE) /\ held[w] # NoBlock
  /\ held' = [held EXCEPT ![w] = NoBlock]
  /\ Send("DataPipeline", Head(assigned[w]).op, held[w])
  /\ UNCHANGED <<opState, depState, queues, rebuilds, created, assigned, returned, control, catalog>>

(* returnBlock(full = false): keep the block for a later insert or a rebuild *)
ReturnPartialBlock(w) ==
  /\ Running(w, FALSE) /\ held[w] # NoBlock
  /\ available' = [available EXCEPT ![Head(assigned[w]).op] = Append(@, held[w])]
  /\ held' = [held EXCEPT ![w] = NoBlock]
  /\ returned' = [returned EXCEPT ![w] = TRUE]
  /\ UNCHANGED <<opState, depState, queues, rebuildWorkOrders, numRebuildWorkOrders,
                 rebuildInitiated, created, assigned, control, inbox, catalog>>

(* Mutant: the message carries the work order in place of its block. *)
RebuildBlockWrapped(w) ==
  /\ Running(w, TRUE) /\ ~returned[w]
  /\ returned' = [returned EXCEPT ![w] = TRUE]
  /\ Send("DataPipeline", Head(assigned[w]).op, Head(assigned[w]))
  /\ UNCHANGED <<opState, depState, queues, rebuilds, created, assigned, held, control, catalog>>

(* RebuildWorkOrder::execute(): rebuild the block, then stream it *)
RebuildBlock(w) ==
  /\ Running(w, TRUE) /\ ~returned[w]
  /\ returned' = [returned EXCEPT ![w] = TRUE]
  /\ Send("DataPipeline", Head(assigned[w]).op, Head(assigned[w]).block)
  /\ UNCHANGED <<opState, depState, queues, rebuilds, created, assigned, held, control, catalog>>

(* sendWorkOrderCompleteMessage() *)
SendWorkOrderComplete(w) ==
  /\ \/ Running(w, FALSE) /\ held[w] = NoBlock
     \/ Running(w, TRUE) /\ returned[w]
  /\ assigned' = [assigned EXCEPT ![w] = Tail(@)]
  /\ returned' = [returned EXCEPT ![w] = FALSE]
  /\ Send(IF Head(assigned[w]).rebuild THEN "RebuildComplete" ELSE "Complete",
          Head(assigned[w]).op, NoBlock)
  /\ UNCHANGED <<opState, depState, queues, rebuilds, created, held, control, catalog>>

-----------------------------------------------------------------------------
Foreman ==
  \/ \E o \in Op : StartOperator(o) \/ NotifyBlockedDependent(o) \/ NotifyReadyDependent(o)
  \/ ReturnFromMarkFinished
  \/ ProcessWorkOrderComplete
  \/ ProcessRebuildWorkOrderComplete
  \/ ProcessDataPipeline
  \/ ProcessNewBlock

Dispatch == \E o \in Op, w \in Worker : DispatchRebuild(o, w) \/ DispatchNormal(o, w)

WorkerStep(w) ==
  \/ ReuseBlock(w)
  \/ CreateNewBlock(w)
  \/ ReturnFullBlock(w)
  \/ ReturnPartialBlock(w)
  \/ RebuildBlock(w)
  \/ SendWorkOrderComplete(w)

(* A finished query leaves its query manager for good. *)
QueryExecuted == toStart = {} /\ stack = << >> /\ HasQueryExecutionFinished
Terminated == QueryExecuted /\ (\A w \in Worker : assigned[w] = << >>) /\ UNCHANGED vars

Next == Foreman \/ Dispatch \/ (\E w \in Worker : WorkerStep(w)) \/ Terminated

(* The foreman and every worker are threads the operating system keeps         *)
(* scheduling; they block only on an empty inbox.                              *)
Fairness == WF_vars(Foreman) /\ WF_vars(Dispatch) /\ \A w \in Worker : WF_vars(WorkerStep(w))

Spec == Init /\ [][Next]_vars /\ Fairness
-----------------------------------------------------------------------------
(* Properties.                                                                 *)

RangeOf(s) == {s[i] : i \in DOMAIN s}
Created(o) == {[from |-> o, id |-> i] : i \in 1 .. created[o]}
HasWork(o) == storedGenerated[o] \/ numGenerated[o] > 0 \/ doneGeneration[o] \/ finished[o]

(* fetchNormalWorkOrders() runs only behind checkAllBlockingDependenciesMet(): *)
(* an operator has generated work, or has finished, only after every producer  *)
(* across a pipeline breaker has finished.                                     *)
BlockingDependenciesFirst ==
  \A o \in Op : HasWork(o) => \A p \in Op : <<p, o>> \in Breaker => finished[p]

(* markOperatorFinished() is called for an operator only after it was called   *)
(* for all its dependencies, although processWorkOrderCompleteMessage() never  *)
(* looks at the non-blocking ones: the operators' done-feeding flags must      *)
(* imply it.                                                                   *)
DependenciesFinishFirst ==
  \A o \in Op : finished[o] => \A p \in Dependencies(o) : finished[p]

(* By the time a streaming operator finishes, each block its producers created *)
(* has been fed to it exactly once (as a full block or through a rebuild) and  *)
(* has become a work order.                                                    *)
NoBlockLost ==
  \A o \in Op : finished[o] /\ Kind[o] # "stored" =>
    /\ numGenerated[o] = Len(fed[o])
    /\ RangeOf(fed[o]) = UNION {Created(p) : p \in Input[o]}
    /\ Cardinality(RangeOf(fed[o])) = Len(fed[o])

(* When the query is reported as executed its query manager is destroyed:      *)
(* nothing may still refer to it - no work order in the containers or at a     *)
(* worker, no message in the foreman's inbox, no partially filled block.       *)
QuiescentWhenExecuted ==
  QueryExecuted =>
    /\ inbox = << >>
    /\ \A o \in Op : normalWorkOrders[o] = << >> /\ rebuildWorkOrders[o] = << >>
                     /\ available[o] = << >>
    /\ \A w \in Worker : assigned[w] = << >>

(* The catalog lists every block of an operator's output relation before the   *)
(* operator finishes, so that a DropTableOperator's snapshot, taken after it,  *)
(* deletes them all and no late message names a dropped relation.              *)
CatalogKnowsOutput == \A o \in Op : finished[o] => catalog[o] = Created(o)

Outstanding(o) ==
  Cardinality({x \in Worker \X (1 .. MaxLoad) :
                 /\ x[2] \in DOMAIN assigned[x[1]]
                 /\ assigned[x[1]][x[2]].op = o /\ ~assigned[x[1]][x[2]].rebuild})
  + Cardinality({i \in DOMAIN inbox : inbox[i].type = "Complete" /\ inbox[i].op = o})

(* queued_workorders_per_op_ counts exactly the normal work orders that are at *)
(* a worker or whose completion is still in the inbox; an unsigned counter     *)
(* that is off by one would wrap or keep the operator open for ever.           *)
QueuedCounterExact == \A o \in Op : queuedWorkOrders[o] = Outstanding(o)

Streamed(b) ==
  \/ \E i \in DOMAIN inbox : inbox[i].type = "DataPipeline" /\ inbox[i].block = b
  \/ \E o \in Op : b \in RangeOf(fed[o])

(* An output block has one writer, and none once it has been streamed: no two  *)
(* workers fill the same block, and a block that consumers may read is neither *)
(* being filled nor back in the pool nor waiting to be rebuilt.                *)
OneWriterPerBlock ==
  /\ \A w, v \in Worker : held[w] = held[v] /\ held[w] # NoBlock => w = v
  /\ \A w \in Worker : held[w] # NoBlock =>
       ~Streamed(held[w]) /\ \A o \in Op : held[w] \notin RangeOf(available[o])
  /\ \A o \in Op : \A b \in RangeOf(available[o]) \cup RangeOf(rebuildWorkOrders[o]) :
       ~Streamed(b)

(* The inductive invariant behind the two properties on dependencies.  The     *)
(* manager's sets of open dependencies and its pending loops never run ahead   *)
(* of execution_finished_, nor do the ends of input signalled to operators;    *)
(* work is generated behind the blocking dependencies; and every way to        *)
(* markOperatorFinished() rests on done_gen_ - also through a rebuild, whose   *)
(* work orders, waiting, running or reported, belong to operators that are     *)
(* done generating.                                                            *)
OpenDependenciesKept ==
  \A o \in Op :
    /\ blockingDependencies[o] \subseteq Dependencies(o)
    /\ \A p \in Op : <<p, o>> \in Breaker /\ ~finished[p] => p \in blockingDependencies[o]

EndOfInputTrue ==
  \A o \in Op : \A p \in doneFed[o] : p \in Output /\ <<p, o>> \in Link /\ finished[p]

LoopsFollowFinish ==
  /\ \A i \in DOMAIN stack :
       finished[stack[i].op] /\ \A c \in stack[i].todo : <<stack[i].op, c>> \in Link
  /\ \A o \in toStart : Dependencies(o) = {}

GenerationBehindBlocking ==
  \A o \in Op :
    /\ storedGenerated[o] => blockingDependencies[o] = {}
    /\ numGenerated[o] > 0 \/ doneGeneration[o] => storedGenerated[o]
    /\ doneGeneration[o] => DoneFeeding(o, doneFed[o])

FinishAfterGeneration ==
  \A o \in Op : finished[o] => \/ doneGeneration[o]
                               \/ storedGenerated[o] /\ Dependencies(o) = {}

RebuildAfterGeneration ==
  /\ \A o \in Op : rebuildInitiated[o] => doneGeneration[o]
  /\ \A o \in Op : rebuildWorkOrders[o] # << >> => rebuildInitiated[o]
  /\ \A w \in Worker : \A i \in DOMAIN assigned[w] :
       assigned[w][i].rebuild => rebuildInitiated[assigned[w][i].op]
  /\ \A i \in DOMAIN inbox : inbox[i].type = "RebuildComplete" => rebuildInitiated[inbox[i].op]

SchedulingInvariant ==
  /\ OpenDependenciesKept
  /\ EndOfInputTrue
  /\ LoopsFollowFinish
  /\ GenerationBehindBlocking
  /\ FinishAfterGeneration
  /\ RebuildAfterGeneration

(* The query manager implements the abstract schedule of the plan: a work      *)
(* order request is a Start, markOperatorFinished() is a Finish, and every     *)
(* other step of the foreman and the workers changes nothing.                  *)
Schedule == INSTANCE DagSchedule WITH
  active <- {o \in Op : storedGenerated[o]},
  done   <- {o \in Op : finished[o]}
ImplementsSchedule == Schedule!Spec

(* Every admitted query is eventually reported as executed.                    *)
QueryEventuallyExecuted == <>QueryExecuted
=============================================================================
