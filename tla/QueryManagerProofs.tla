------------------------- MODULE QueryManagerProofs -------------------------
(* Proofs about QueryManager for every plan, worker set and bound.             *)
EXTENDS QueryManager, TLAPS

USE ZenonT(60)

(* A function on 1 .. n is a sequence. *)
LEMMA FunctionIsSeq ==
  ASSUME NEW S, NEW n \in Nat, NEW f \in [1 .. n -> S]
  PROVE  f \in Seq(S)
BY SMTT(30)

(* The initial state is well typed. *)
LEMMA TypeInit == Init => TypeOK
BY SMTT(30), PlanAssumption DEF Init, TypeOK, NoBlock, Block, Database, Dependencies

(* getAllWorkOrders() adds a sequence of blocks. *)
LEMMA NewWorkOrdersType ==
  ASSUME TypeOK, NEW o \in Op, NEW s \in Seq(Block)
  PROVE  NewWorkOrders(o, s) \in Seq(Block)
<1>1. StoredBlocks(o) \in [1 .. Stored[o] -> Block]
  BY SMTT(30), PlanAssumption DEF StoredBlocks, Block, Database
<1>2. StoredBlocks(o) \in Seq(Block)
  BY <1>1, FunctionIsSeq, PlanAssumption
<1>3. SubSeq(s, numGenerated[o] + 1, Len(s)) \in Seq(Block)
  BY SMTT(30) DEF TypeOK
<1> QED
  BY SMTT(30), <1>2, <1>3 DEF NewWorkOrders

(* fetchNormalWorkOrders() keeps the operators' state well typed. *)
LEMMA FetchType ==
  ASSUME TypeOK, NEW S \in SUBSET Op,
         NEW feds \in [Op -> Seq(Block)], NEW dones \in [Op -> SUBSET Op],
         Fetch(S, feds, dones)
  PROVE  /\ fed' \in [Op -> Seq(Block)]
         /\ doneFed' \in [Op -> SUBSET Op]
         /\ normalWorkOrders' \in [Op -> Seq(Block)]
         /\ storedGenerated' \in [Op -> BOOLEAN]
         /\ numGenerated' \in [Op -> Nat]
         /\ doneGeneration' \in [Op -> BOOLEAN]
<1>1. \A o \in Op : NewWorkOrders(o, feds[o]) \in Seq(Block)
  BY NewWorkOrdersType
<1>2. normalWorkOrders' \in [Op -> Seq(Block)]
  BY SMTT(30), <1>1 DEF Fetch, TypeOK
<1>3. numGenerated' \in [Op -> Nat]
  BY SMTT(30) DEF Fetch, TypeOK
<1>4. storedGenerated' \in [Op -> BOOLEAN] /\ doneGeneration' \in [Op -> BOOLEAN]
  BY DEF Fetch, TypeOK
<1> QED
  BY <1>2, <1>3, <1>4 DEF Fetch

(* initiateRebuild() keeps the rebuild state well typed. *)
LEMMA InitiateRebuildType ==
  ASSUME TypeOK, NEW o \in Op, InitiateRebuild(o)
  PROVE  /\ rebuildWorkOrders' \in [Op -> Seq(Block)]
         /\ numRebuildWorkOrders' \in [Op -> Int]
         /\ rebuildInitiated' \in [Op -> BOOLEAN]
         /\ available' \in [Op -> Seq(Block)]
BY SMTT(30) DEF InitiateRebuild, TypeOK

(* markOperatorFinished() keeps the dependency state and the stack well typed. *)
LEMMA MarkOperatorFinishedType ==
  ASSUME TypeOK, NEW o \in Op, NEW callers \in Seq(Frame),
         MarkOperatorFinished(o, callers)
  PROVE  /\ finished' \in [Op -> BOOLEAN]
         /\ numFinished' \in Nat
         /\ blockingDependencies' \in [Op -> SUBSET Op]
         /\ nonBlockingDependencies' \in [Op -> SUBSET Op]
         /\ stack' \in Seq(Frame)
<1>1. [op |-> o, todo |-> Dependents(o)] \in Frame
  BY DEF Frame, Dependents
<1>2. stack' \in Seq(Frame)
  BY SMTT(30), <1>1 DEF MarkOperatorFinished
<1>3. finished' \in [Op -> BOOLEAN] /\ numFinished' \in Nat
  BY SMTT(30) DEF MarkOperatorFinished, TypeOK
<1>4. blockingDependencies' \in [Op -> SUBSET Op] /\ nonBlockingDependencies' \in [Op -> SUBSET Op]
  BY DEF MarkOperatorFinished, TypeOK
<1> QED
  BY <1>2, <1>3, <1>4

(* Both together. *)
LEMMA RebuildOrFinishType ==
  ASSUME TypeOK, NEW o \in Op, NEW callers \in Seq(Frame),
         RebuildOrFinish(o, callers)
  PROVE  /\ finished' \in [Op -> BOOLEAN]
         /\ numFinished' \in Nat
         /\ blockingDependencies' \in [Op -> SUBSET Op]
         /\ nonBlockingDependencies' \in [Op -> SUBSET Op]
         /\ stack' \in Seq(Frame)
         /\ rebuildWorkOrders' \in [Op -> Seq(Block)]
         /\ numRebuildWorkOrders' \in [Op -> Int]
         /\ rebuildInitiated' \in [Op -> BOOLEAN]
         /\ available' \in [Op -> Seq(Block)]
<1>1. CASE MustRebuild(o)
  <2>1. InitiateRebuild(o) /\ stack' = callers /\ UNCHANGED depState
    BY <1>1 DEF RebuildOrFinish
  <2> QED
    BY <2>1, InitiateRebuildType DEF depState, TypeOK
<1>2. CASE ~MustRebuild(o)
  <2>1. /\ InitiateRebuild(o) \/ UNCHANGED rebuilds
        /\ MarkOperatorFinished(o, callers)
    BY <1>2 DEF RebuildOrFinish
  <2>2. CASE InitiateRebuild(o)
    BY <2>1, <2>2, InitiateRebuildType, MarkOperatorFinishedType
  <2>3. CASE UNCHANGED rebuilds
    BY <2>1, <2>3, MarkOperatorFinishedType DEF rebuilds, TypeOK
  <2> QED
    BY <2>1, <2>2, <2>3
<1> QED
  BY <1>1, <1>2

(* What the heads of the stack, of the inbox and of a worker's queue are. *)
LEMMA HeadFrame ==
  ASSUME TypeOK, stack # << >>
  PROVE  /\ Head(stack) \in Frame /\ Tail(stack) \in Seq(Frame)
         /\ Head(stack).op \in Op /\ Head(stack).todo \subseteq Op
<1>1. Head(stack) \in Frame /\ Tail(stack) \in Seq(Frame)
  BY SMTT(30) DEF TypeOK
<1> QED
  BY <1>1 DEF Frame

(* The message the foreman has received is a well typed message. *)
LEMMA HeadMessage ==
  ASSUME TypeOK, NEW t, Receive(t)
  PROVE  /\ Head(inbox).op \in Op /\ Head(inbox).block \in Block
         /\ inbox' \in Seq(Message)
<1>1. Head(inbox) \in Message /\ inbox' \in Seq(Message)
  BY SMTT(30) DEF TypeOK, Receive
<1> QED
  BY <1>1 DEF Message

(* The work order a worker runs is a well typed work order. *)
LEMMA HeadWorkOrder ==
  ASSUME TypeOK, NEW w \in Worker, NEW r, Running(w, r)
  PROVE  /\ Head(assigned[w]).op \in Op /\ Head(assigned[w]).block \in Block
         /\ Tail(assigned[w]) \in Seq(WorkOrder)
<1>1. Head(assigned[w]) \in WorkOrder /\ Tail(assigned[w]) \in Seq(WorkOrder)
  BY SMTT(30) DEF TypeOK, Running
<1> QED
  BY <1>1 DEF WorkOrder

(* Sending a message keeps the foreman's inbox well typed. *)
LEMMA SendType ==
  ASSUME TypeOK, NEW o \in Op, NEW b \in Block,
         NEW t \in {"NewBlock", "DataPipeline", "Complete", "RebuildComplete"},
         Send(t, o, b)
  PROVE  inbox' \in Seq(Message)
<1>1. [type |-> t, op |-> o, block |-> b] \in Message
  BY DEF Message
<1> QED
  BY SMTT(30), <1>1 DEF Send, TypeOK

(* The caller frames of a visited dependent are frames. *)
LEMMA CallersAfterType ==
  ASSUME TypeOK, stack # << >>, NEW c
  PROVE  CallersAfter(c) \in Seq(Frame)
<1>1. Head(stack) \in Frame /\ Tail(stack) \in Seq(Frame)
  BY HeadFrame
<1>2. [Head(stack) EXCEPT !.todo = @ \ {c}] \in Frame
  BY <1>1 DEF Frame
<1> QED
  BY SMTT(30), <1>1, <1>2 DEF CallersAfter

(* doneFeedingInputBlocks() keeps the signalled ends of input well typed. *)
LEMMA DoneFedByType ==
  ASSUME TypeOK, NEW o \in Op, NEW c \in Op
  PROVE  DoneFedBy(o, c) \in [Op -> SUBSET Op]
BY DEF DoneFedBy, TypeOK

(* Every step keeps the state well typed: one step per action. *)
LEMMA TypeStep == TypeOK /\ [Next]_vars => TypeOK'
<1> SUFFICES ASSUME TypeOK, [Next]_vars PROVE TypeOK'
  OBVIOUS
<1>1. ASSUME NEW o \in Op, StartOperator(o) PROVE TypeOK'
  <2>1. Fetch({o}, fed, doneFed)
    BY <1>1 DEF StartOperator
  <2>2. << >> \in Seq(Frame)
    BY SMTT(30)
  <2>3. CASE NewWorkOrders(o, fed[o]) # << >>
    BY <1>1, <2>1, <2>3, FetchType
    DEF StartOperator, TypeOK, depState, rebuilds, workers
  <2>4. CASE NewWorkOrders(o, fed[o]) = << >>
    <3>1. MarkOperatorFinished(o, << >>) /\ UNCHANGED rebuilds
      BY <1>1, <2>4 DEF StartOperator
    <3> QED
      BY <1>1, <2>1, <2>2, <3>1, FetchType, MarkOperatorFinishedType
      DEF StartOperator, TypeOK, rebuilds, workers
  <2> QED
    BY <2>3, <2>4
<1>2. ASSUME NEW c \in Op, NotifyBlockedDependent(c) PROVE TypeOK'
  <2>1. Head(stack).op \in Op
    BY <1>2, HeadFrame DEF NotifyBlockedDependent, NextDependent
  <2> QED
    BY <1>2, <2>1, CallersAfterType, DoneFedByType
    DEF NotifyBlockedDependent, NextDependent, TypeOK, depState, queues, rebuilds, workers
<1>3. ASSUME NEW c \in Op, NotifyReadyDependent(c) PROVE TypeOK'
  <2>1. Head(stack).op \in Op /\ CallersAfter(c) \in Seq(Frame)
    BY <1>3, HeadFrame, CallersAfterType DEF NotifyReadyDependent, NextDependent
  <2>2. DoneFedBy(Head(stack).op, c) \in [Op -> SUBSET Op]
    BY <2>1, DoneFedByType
  <2>3. Fetch({c}, fed, DoneFedBy(Head(stack).op, c))
    BY <1>3 DEF NotifyReadyDependent
  <2>4. /\ fed' \in [Op -> Seq(Block)]
        /\ doneFed' \in [Op -> SUBSET Op]
        /\ normalWorkOrders' \in [Op -> Seq(Block)]
        /\ storedGenerated' \in [Op -> BOOLEAN]
        /\ numGenerated' \in [Op -> Nat]
        /\ doneGeneration' \in [Op -> BOOLEAN]
    BY <2>2, <2>3, FetchType DEF TypeOK
  <2>5. \/ RebuildOrFinish(c, CallersAfter(c))
        \/ stack' = CallersAfter(c) /\ UNCHANGED <<depState, rebuilds>>
    BY <1>3 DEF NotifyReadyDependent
  <2>6. CASE RebuildOrFinish(c, CallersAfter(c))
    BY <1>3, <2>1, <2>4, <2>6, RebuildOrFinishType
    DEF NotifyReadyDependent, TypeOK, workers
  <2>7. CASE stack' = CallersAfter(c) /\ UNCHANGED <<depState, rebuilds>>
    BY <1>3, <2>1, <2>4, <2>7
    DEF NotifyReadyDependent, TypeOK, workers, depState, rebuilds
  <2> QED
    BY <2>5, <2>6, <2>7
<1>4. ASSUME ReturnFromMarkFinished PROVE TypeOK'
  <2>1. stack \in Seq(Frame) /\ stack # << >> /\ stack' = Tail(stack)
    BY <1>4 DEF ReturnFromMarkFinished, TypeOK
  <2>2. stack' \in Seq(Frame)
    BY SMTT(30), <2>1
  <2> QED
    BY <1>4, <2>2
    DEF ReturnFromMarkFinished, TypeOK, opState, depState, queues, rebuilds, workers
<1>5. ASSUME ProcessWorkOrderComplete PROVE TypeOK'
  <2>1. Head(inbox).op \in Op /\ inbox' \in Seq(Message) /\ << >> \in Seq(Frame)
    BY SMTT(30), <1>5, HeadMessage DEF ProcessWorkOrderComplete
  <2>2. queuedWorkOrders' \in [Op -> Int]
    <3>1. queuedWorkOrders \in [Op -> Int]
      BY DEF TypeOK
    <3>2. queuedWorkOrders' = [queuedWorkOrders EXCEPT ![Head(inbox).op] = @ - 1]
      BY <1>5 DEF ProcessWorkOrderComplete
    <3> QED
      BY SMTT(30), <2>1, <3>1, <3>2
  <2>3. \/ RebuildOrFinish(Head(inbox).op, << >>)
        \/ UNCHANGED <<depState, rebuilds, stack>>
    BY <1>5 DEF ProcessWorkOrderComplete
  <2>4. CASE RebuildOrFinish(Head(inbox).op, << >>)
    BY <1>5, <2>1, <2>2, <2>4, RebuildOrFinishType
    DEF ProcessWorkOrderComplete, TypeOK, opState, workers
  <2>5. CASE UNCHANGED <<depState, rebuilds, stack>>
    BY <1>5, <2>1, <2>2, <2>5
    DEF ProcessWorkOrderComplete, TypeOK, opState, workers, depState, rebuilds
  <2> QED
    BY <2>3, <2>4, <2>5
<1>6. ASSUME ProcessRebuildWorkOrderComplete PROVE TypeOK'
  <2>0. Receive("RebuildComplete")
    BY <1>6 DEF ProcessRebuildWorkOrderComplete
  <2>a. Head(inbox).op \in Op /\ inbox' \in Seq(Message)
    BY <2>0, HeadMessage
  <2>1. Head(inbox).op \in Op /\ inbox' \in Seq(Message) /\ << >> \in Seq(Frame)
    BY SMTT(30), <2>a
  <2>2. numRebuildWorkOrders' \in [Op -> Int]
    <3>1. numRebuildWorkOrders \in [Op -> Int]
      BY DEF TypeOK
    <3>2. numRebuildWorkOrders' = [numRebuildWorkOrders EXCEPT ![Head(inbox).op] = @ - 1]
      BY <1>6 DEF ProcessRebuildWorkOrderComplete
    <3> QED
      BY SMTT(30), <2>1, <3>1, <3>2
  <2>3. \/ MarkOperatorFinished(Head(inbox).op, << >>)
        \/ UNCHANGED <<depState, stack>>
    BY <1>6 DEF ProcessRebuildWorkOrderComplete
  <2>4. CASE MarkOperatorFinished(Head(inbox).op, << >>)
    BY <1>6, <2>1, <2>2, <2>4, MarkOperatorFinishedType
    DEF ProcessRebuildWorkOrderComplete, TypeOK, opState, queues, workers
  <2>5. CASE UNCHANGED <<depState, stack>>
    BY <1>6, <2>1, <2>2, <2>5
    DEF ProcessRebuildWorkOrderComplete, TypeOK, opState, queues, workers, depState
  <2> QED
    BY <2>3, <2>4, <2>5
<1>7. ASSUME ProcessDataPipeline PROVE TypeOK'
  <2> DEFINE p == Head(inbox).op
             S == {c \in OutputConsumers(p) : CheckAllBlockingDependenciesMet(c)}
             feds == [c \in Op |-> IF c \in OutputConsumers(p) /\ p \in Input[c]
                                   THEN Append(fed[c], Head(inbox).block) ELSE fed[c]]
  <2>1. Head(inbox).block \in Block /\ inbox' \in Seq(Message)
    BY <1>7, HeadMessage DEF ProcessDataPipeline
  <2>2. S \in SUBSET Op /\ feds \in [Op -> Seq(Block)]
    BY SMTT(30), <2>1 DEF TypeOK, OutputConsumers
  <2>3. Fetch(S, feds, doneFed)
    BY <1>7 DEF ProcessDataPipeline
  <2>4. doneFed \in [Op -> SUBSET Op]
    BY DEF TypeOK
  <2> HIDE DEF S, feds
  <2>5. /\ fed' \in [Op -> Seq(Block)]
        /\ doneFed' \in [Op -> SUBSET Op]
        /\ normalWorkOrders' \in [Op -> Seq(Block)]
        /\ storedGenerated' \in [Op -> BOOLEAN]
        /\ numGenerated' \in [Op -> Nat]
        /\ doneGeneration' \in [Op -> BOOLEAN]
    BY <2>2, <2>3, <2>4, FetchType
  <2> QED
    BY <1>7, <2>1, <2>5
    DEF ProcessDataPipeline, TypeOK, depState, rebuilds, workers, control
<1>8. ASSUME ProcessNewBlock PROVE TypeOK'
  <2>1. Head(inbox).op \in Op /\ Head(inbox).block \in Block /\ inbox' \in Seq(Message)
    BY <1>8, HeadMessage DEF ProcessNewBlock
  <2>2. catalog' \in [Op -> SUBSET Block]
    <3>1. catalog \in [Op -> SUBSET Block]
      BY DEF TypeOK
    <3> QED
      BY <1>8, <2>1, <3>1 DEF ProcessNewBlock
  <2> QED
    BY <1>8, <2>1, <2>2
    DEF ProcessNewBlock, TypeOK, opState, depState, queues, rebuilds, workers, control
<1>9. ASSUME NEW o \in Op, NEW w \in Worker, DispatchRebuild(o, w) PROVE TypeOK'
  <2>1. [op |-> o, rebuild |-> TRUE, block |-> Head(rebuildWorkOrders[o])] \in WorkOrder
    <3>1. rebuildWorkOrders[o] \in Seq(Block) /\ rebuildWorkOrders[o] # << >>
      BY <1>9 DEF DispatchRebuild, TypeOK
    <3>2. Head(rebuildWorkOrders[o]) \in Block
      BY SMTT(30), <3>1
    <3> QED
      BY <3>2 DEF WorkOrder
  <2>2. assigned' \in [Worker -> Seq(WorkOrder)]
    <3>1. assigned \in [Worker -> Seq(WorkOrder)]
      BY DEF TypeOK
    <3> QED
      BY SMTT(30), <1>9, <2>1, <3>1 DEF DispatchRebuild
  <2>3. rebuildWorkOrders' \in [Op -> Seq(Block)]
    <3>1. rebuildWorkOrders \in [Op -> Seq(Block)]
      BY DEF TypeOK
    <3> QED
      BY SMTT(30), <1>9, <3>1 DEF DispatchRebuild
  <2> QED
    BY <1>9, <2>2, <2>3
    DEF DispatchRebuild, TypeOK, opState, depState, queues, control
<1>10. ASSUME NEW o \in Op, NEW w \in Worker, DispatchNormal(o, w) PROVE TypeOK'
  <2>1. [op |-> o, rebuild |-> FALSE, block |-> Head(normalWorkOrders[o])] \in WorkOrder
    <3>1. normalWorkOrders[o] \in Seq(Block) /\ normalWorkOrders[o] # << >>
      BY <1>10 DEF DispatchNormal, TypeOK
    <3>2. Head(normalWorkOrders[o]) \in Block
      BY SMTT(30), <3>1
    <3> QED
      BY <3>2 DEF WorkOrder
  <2>2. assigned' \in [Worker -> Seq(WorkOrder)]
    <3>1. assigned \in [Worker -> Seq(WorkOrder)]
      BY DEF TypeOK
    <3> QED
      BY SMTT(30), <1>10, <2>1, <3>1 DEF DispatchNormal
  <2>3. normalWorkOrders' \in [Op -> Seq(Block)] /\ queuedWorkOrders' \in [Op -> Int]
    <3>1. normalWorkOrders \in [Op -> Seq(Block)] /\ queuedWorkOrders \in [Op -> Int]
      BY DEF TypeOK
    <3> QED
      BY SMTT(30), <1>10, <3>1 DEF DispatchNormal
  <2> QED
    BY <1>10, <2>2, <2>3
    DEF DispatchNormal, TypeOK, opState, depState, rebuilds, control
<1>11. ASSUME NEW w \in Worker, WorkerStep(w) PROVE TypeOK'
  <2>0. NoBlock \in Block
    BY DEF NoBlock, Block, Database
  <2>1. CASE ReuseBlock(w)
    <3>1. Head(assigned[w]).op \in Op
      BY <2>1, HeadWorkOrder DEF ReuseBlock
    <3> DEFINE avail == available[Head(assigned[w]).op]
    <3>2. avail \in Seq(Block) /\ avail # << >>
      BY <2>1, <3>1 DEF ReuseBlock, TypeOK
    <3>3. avail[Len(avail)] \in Block /\ SubSeq(avail, 1, Len(avail) - 1) \in Seq(Block)
      BY SMTT(30), <3>2
    <3>4. held' \in [Worker -> Block] /\ available' \in [Op -> Seq(Block)]
      BY <2>1, <3>1, <3>3 DEF ReuseBlock, TypeOK
    <3> QED
      BY <2>1, <3>4 DEF ReuseBlock, TypeOK, opState, depState, queues, control
  <2>2. CASE CreateNewBlock(w)
    <3> DEFINE o == Head(assigned[w]).op
               b == [from |-> o, id |-> created[o] + 1]
    <3>1. o \in Op
      BY <2>2, HeadWorkOrder DEF CreateNewBlock
    <3>2. created[o] \in Nat
      BY <3>1 DEF TypeOK
    <3>3. b \in Block
      BY SMTT(30), <3>1, <3>2 DEF Block
    <3>4. /\ Send("NewBlock", o, b)
          /\ held' = [held EXCEPT ![w] = b]
          /\ created' = [created EXCEPT ![o] = @ + 1]
      BY <2>2 DEF CreateNewBlock
    <3> HIDE DEF o, b
    <3>5. inbox' \in Seq(Message)
      BY <3>1, <3>3, <3>4, SendType
    <3>6. held' \in [Worker -> Block]
      BY <3>3, <3>4 DEF TypeOK
    <3>7. created' \in [Op -> Nat]
      BY SMTT(30), <3>1, <3>2, <3>4 DEF TypeOK
    <3> QED
      BY <2>2, <3>5, <3>6, <3>7
      DEF CreateNewBlock, TypeOK, opState, depState, queues, rebuilds, control
  <2>3. CASE ReturnFullBlock(w)
    <3>1. Head(assigned[w]).op \in Op /\ held[w] \in Block
      BY <2>3, HeadWorkOrder DEF ReturnFullBlock, TypeOK
    <3>2. inbox' \in Seq(Message)
      BY <2>3, <3>1, SendType DEF ReturnFullBlock
    <3>3. held' \in [Worker -> Block] /\ returned' \in [Worker -> BOOLEAN]
      <4>1. held \in [Worker -> Block] /\ returned \in [Worker -> BOOLEAN]
        BY DEF TypeOK
      <4> QED
        BY <2>0, <2>3, <4>1 DEF ReturnFullBlock
    <3> QED
      BY <2>3, <3>2, <3>3
      DEF ReturnFullBlock, TypeOK, opState, depState, queues, rebuilds, control
  <2>4. CASE ReturnPartialBlock(w)
    <3>1. Head(assigned[w]).op \in Op /\ held[w] \in Block
      BY <2>4, HeadWorkOrder DEF ReturnPartialBlock, TypeOK
    <3>2. available' \in [Op -> Seq(Block)]
      <4>1. available \in [Op -> Seq(Block)]
        BY DEF TypeOK
      <4>2. available' = [available EXCEPT ![Head(assigned[w]).op] = Append(@, held[w])]
        BY <2>4 DEF ReturnPartialBlock
      <4> QED
        BY SMTT(30), <3>1, <4>1, <4>2
    <3>3. held' \in [Worker -> Block] /\ returned' \in [Worker -> BOOLEAN]
      <4>1. held \in [Worker -> Block] /\ returned \in [Worker -> BOOLEAN]
        BY DEF TypeOK
      <4> QED
        BY <2>0, <2>4, <4>1 DEF ReturnPartialBlock
    <3> QED
      BY <2>4, <3>2, <3>3
      DEF ReturnPartialBlock, TypeOK, opState, depState, queues, control
  <2>5. CASE RebuildBlock(w)
    <3>1. Head(assigned[w]).op \in Op /\ Head(assigned[w]).block \in Block
      BY <2>5, HeadWorkOrder DEF RebuildBlock
    <3>2. inbox' \in Seq(Message)
      BY <2>5, <3>1, SendType DEF RebuildBlock
    <3> QED
      BY <2>5, <3>2
      DEF RebuildBlock, TypeOK, opState, depState, queues, rebuilds, control
  <2>6. CASE SendWorkOrderComplete(w)
    <3>1. /\ Head(assigned[w]).op \in Op
          /\ Tail(assigned[w]) \in Seq(WorkOrder)
      BY <2>6, HeadWorkOrder DEF SendWorkOrderComplete
    <3>2. inbox' \in Seq(Message)
      BY <2>0, <2>6, <3>1, SendType DEF SendWorkOrderComplete
    <3> QED
      BY <2>6, <3>1, <3>2
      DEF SendWorkOrderComplete, TypeOK, opState, depState, queues, rebuilds, control
  <2> QED
    BY <1>11, <2>1, <2>2, <2>3, <2>4, <2>5, <2>6 DEF WorkerStep
<1>12. ASSUME UNCHANGED vars PROVE TypeOK'
  BY <1>12 DEF vars, TypeOK, opState, depState, queues, rebuilds, workers, control
<1> QED
  BY <1>1, <1>2, <1>3, <1>4, <1>5, <1>6, <1>7, <1>8, <1>9, <1>10, <1>11, <1>12
  DEF Next, Foreman, Dispatch, Terminated

-----------------------------------------------------------------------------
(* The scheduling invariant. *)

(* The initial state satisfies the scheduling invariant. *)
LEMMA SchedulingInit == Init => SchedulingInvariant
<1> SUFFICES ASSUME Init PROVE SchedulingInvariant
  OBVIOUS
<1>1. OpenDependenciesKept
  BY PlanAssumption DEF Init, Dependencies, OpenDependenciesKept
<1>2. EndOfInputTrue /\ LoopsFollowFinish
  BY SMTT(30) DEF Init, Dependencies, EndOfInputTrue, LoopsFollowFinish
<1>3. GenerationBehindBlocking /\ FinishAfterGeneration
  BY SMTT(30) DEF Init, Dependencies, GenerationBehindBlocking, FinishAfterGeneration
<1>4. RebuildAfterGeneration
  BY SMTT(30) DEF Init, RebuildAfterGeneration
<1> QED
  BY <1>1, <1>2, <1>3, <1>4 DEF SchedulingInvariant

(* Telling an operator of the end of another input does not take back that it  *)
(* is done.                                                                    *)
LEMMA DoneFeedingMonotone ==
  ASSUME NEW o \in Op, NEW d, NEW e, d \subseteq e, DoneFeeding(o, d)
  PROVE  DoneFeeding(o, e)
<1>1. Kind[o] \in {"stored", "stream", "probe", "union", "closure"}
  BY PlanAssumption DEF Kinds
<1> QED
  BY <1>1 DEF DoneFeeding

(* Open dependencies shrink, finished operators stay finished, and an open     *)
(* dependency is dropped only when it finishes.                                *)
DependenciesShrink ==
  /\ \A o \in Op : blockingDependencies'[o] \subseteq blockingDependencies[o]
  /\ \A o \in Op : finished[o] => finished'[o]
  /\ OpenDependenciesKept'

(* markOperatorFinished() only takes operators off the sets of open            *)
(* dependencies.                                                               *)
LEMMA MarkShrinks ==
  ASSUME TypeOK, OpenDependenciesKept, NEW o \in Op, NEW callers,
         MarkOperatorFinished(o, callers)
  PROVE  DependenciesShrink
BY DEF TypeOK, MarkOperatorFinished, DependenciesShrink, OpenDependenciesKept, Dependencies

(* A step that leaves the dependency state alone opens no dependency. *)
LEMMA UnchangedShrinks ==
  ASSUME OpenDependenciesKept, UNCHANGED depState
  PROVE  DependenciesShrink
BY DEF depState, DependenciesShrink, OpenDependenciesKept, Dependencies

(* The end of processWorkOrderCompleteMessage() opens no dependency. *)
LEMMA RebuildOrFinishShrinks ==
  ASSUME TypeOK, OpenDependenciesKept, NEW o \in Op, NEW callers,
         RebuildOrFinish(o, callers)
  PROVE  DependenciesShrink
BY MarkShrinks, UnchangedShrinks DEF RebuildOrFinish

(* fetchNormalWorkOrders() behind its guard keeps the operators' part of the   *)
(* invariant and never resets a flag.                                          *)
LEMMA FetchKeeps ==
  ASSUME TypeOK, GenerationBehindBlocking, DependenciesShrink,
         NEW S \in SUBSET Op, \A o \in S : blockingDependencies[o] = {},
         NEW feds \in [Op -> Seq(Block)], NEW dones \in [Op -> SUBSET Op],
         \A o \in Op : doneFed[o] \subseteq dones[o],
         \A o \in Op : \A p \in dones[o] : p \in Output /\ <<p, o>> \in Link /\ finished'[p],
         Fetch(S, feds, dones)
  PROVE  /\ EndOfInputTrue'
         /\ GenerationBehindBlocking'
         /\ \A o \in Op : doneGeneration[o] => doneGeneration'[o]
         /\ \A o \in Op : storedGenerated[o] => storedGenerated'[o]
         /\ \A o \in S : storedGenerated'[o]
<1>1. EndOfInputTrue'
  BY DEF Fetch, EndOfInputTrue
<1>2. /\ \A o \in Op : storedGenerated'[o] <=> (storedGenerated[o] \/ o \in S)
      /\ \A o \in Op : doneGeneration'[o] <=>
           (doneGeneration[o] \/ (o \in S /\ DoneFeeding(o, dones[o])))
  BY DEF Fetch
<1>3. GenerationBehindBlocking'
  <2> SUFFICES ASSUME NEW o \in Op
               PROVE  /\ storedGenerated'[o] => blockingDependencies'[o] = {}
                      /\ numGenerated'[o] > 0 \/ doneGeneration'[o] => storedGenerated'[o]
                      /\ doneGeneration'[o] => DoneFeeding(o, doneFed'[o])
    BY DEF GenerationBehindBlocking, DoneFeeding
  <2>1. storedGenerated'[o] => blockingDependencies'[o] = {}
    BY <1>2 DEF GenerationBehindBlocking, DependenciesShrink
  <2>2. numGenerated'[o] > 0 \/ doneGeneration'[o] => storedGenerated'[o]
    BY <1>2 DEF GenerationBehindBlocking, Fetch
  <2>3. doneGeneration'[o] => DoneFeeding(o, doneFed'[o])
    <3>1. doneFed' = dones /\ doneFed[o] \subseteq dones[o]
      BY DEF Fetch
    <3>2. DoneFeeding(o, doneFed[o]) => DoneFeeding(o, dones[o])
      BY <3>1, DoneFeedingMonotone
    <3>3. doneGeneration'[o] => DoneFeeding(o, dones[o])
      BY <1>2, <3>2 DEF GenerationBehindBlocking
    <3> QED
      BY <3>1, <3>3
  <2> QED
    BY <2>1, <2>2, <2>3
<1> QED
  BY <1>1, <1>2, <1>3

(* Every frame of the sequence s is a loop of a finished operator over its     *)
(* dependents.                                                                 *)
Loops(s) ==
  \A i \in DOMAIN s : finished[s[i].op] /\ \A c \in s[i].todo : <<s[i].op, c>> \in Link

(* Putting a frame in front of a sequence of frames. *)
LEMMA PushedFrames ==
  ASSUME NEW s \in Seq(Frame), NEW f \in Frame, NEW i \in DOMAIN (<<f>> \o s)
  PROVE  (<<f>> \o s)[i] = f \/ \E j \in DOMAIN s : (<<f>> \o s)[i] = s[j]
<1>1. CASE i = 1
  BY SMTT(30), <1>1
<1>2. CASE i # 1
  <2>1. i - 1 \in DOMAIN s /\ (<<f>> \o s)[i] = s[i - 1]
    BY SMTT(30), <1>2
  <2> QED
    BY <2>1
<1> QED
  BY <1>1, <1>2

(* markOperatorFinished() starts a loop over the dependents of an operator it  *)
(* has just finished.                                                          *)
LEMMA MarkLoops ==
  ASSUME TypeOK, NEW o \in Op, NEW callers \in Seq(Frame), Loops(callers),
         MarkOperatorFinished(o, callers)
  PROVE  Loops(stack)'
<1> DEFINE f == [op |-> o, todo |-> Dependents(o)]
<1>1. f \in Frame /\ f.op = o /\ f.todo = Dependents(o)
  BY DEF Frame, Dependents
<1>2. stack' = <<f>> \o callers
  BY DEF MarkOperatorFinished
<1>3. \A p \in Op : finished[p] \/ p = o => finished'[p]
  BY DEF MarkOperatorFinished, TypeOK
<1>4. \A c \in f.todo : <<f.op, c>> \in Link
  BY <1>1 DEF Dependents
<1> HIDE DEF f
<1>5. ASSUME NEW i \in DOMAIN stack'
      PROVE  finished'[stack'[i].op] /\ \A c \in stack'[i].todo : <<stack'[i].op, c>> \in Link
  <2>1. stack'[i] = f \/ \E j \in DOMAIN callers : stack'[i] = callers[j]
    BY <1>1, <1>2, <1>5, PushedFrames
  <2>2. CASE stack'[i] = f
    BY <1>1, <1>3, <1>4, <2>2
  <2>3. ASSUME NEW j \in DOMAIN callers, stack'[i] = callers[j]
        PROVE  finished'[stack'[i].op] /\ \A c \in stack'[i].todo : <<stack'[i].op, c>> \in Link
    <3>1. callers[j] \in Frame
      BY SMTT(30), <2>3
    <3>2. callers[j].op \in Op
      BY <3>1 DEF Frame
    <3> QED
      BY <1>3, <2>3, <3>2 DEF Loops
  <2> QED
    BY <2>1, <2>2, <2>3
<1> QED
  BY <1>5 DEF Loops

(* Having visited a dependent, the callers' loops go on. *)
LEMMA CallersAfterLoops ==
  ASSUME TypeOK, stack # << >>, Loops(stack), NEW c
  PROVE  Loops(CallersAfter(c))
<1> DEFINE f == [Head(stack) EXCEPT !.todo = @ \ {c}]
<1>1. Head(stack) \in Frame /\ Tail(stack) \in Seq(Frame)
  BY HeadFrame
<1>2. f \in Frame /\ f.op = Head(stack).op /\ f.todo \subseteq Head(stack).todo
  BY <1>1 DEF Frame
<1>3. CallersAfter(c) = <<f>> \o Tail(stack)
  BY DEF CallersAfter
<1>4. 1 \in DOMAIN stack /\ Head(stack) = stack[1]
  BY SMTT(30) DEF TypeOK
<1>5. \A j \in DOMAIN Tail(stack) : j + 1 \in DOMAIN stack /\ Tail(stack)[j] = stack[j + 1]
  BY SMTT(30) DEF TypeOK
<1> HIDE DEF f
<1>6. ASSUME NEW i \in DOMAIN CallersAfter(c)
      PROVE  CallersAfter(c)[i] = f \/ \E j \in DOMAIN stack : CallersAfter(c)[i] = stack[j]
  <2>1. CallersAfter(c)[i] = f \/ \E j \in DOMAIN Tail(stack) : CallersAfter(c)[i] = Tail(stack)[j]
    BY SMTT(30), <1>1, <1>2, <1>3, <1>6, PushedFrames
  <2> QED
    BY <2>1, <1>5
<1> QED
  BY <1>2, <1>4, <1>6 DEF Loops

(* As markOperatorFinished(), or back to the callers. *)
LEMMA RebuildOrFinishLoops ==
  ASSUME TypeOK, NEW o \in Op, NEW callers \in Seq(Frame), Loops(callers),
         RebuildOrFinish(o, callers)
  PROVE  Loops(stack)'
<1>1. CASE MarkOperatorFinished(o, callers)
  BY <1>1, MarkLoops
<1>2. CASE stack' = callers /\ UNCHANGED depState
  BY <1>2 DEF Loops, depState
<1> QED
  BY <1>1, <1>2 DEF RebuildOrFinish

(* An operator that is done generating may be rebuilt or finished.             *)
LEMMA RebuildOrFinishKeeps ==
  ASSUME TypeOK, FinishAfterGeneration, RebuildAfterGeneration,
         NEW o \in Op, doneGeneration'[o], NEW callers, RebuildOrFinish(o, callers),
         \A p \in Op : doneGeneration[p] => doneGeneration'[p],
         \A p \in Op : storedGenerated[p] => storedGenerated'[p],
         UNCHANGED assigned,
         \A i \in DOMAIN inbox' : \E j \in DOMAIN inbox : inbox'[i] = inbox[j]
  PROVE  FinishAfterGeneration' /\ RebuildAfterGeneration'
<1>1. \A p \in Op : finished'[p] => finished[p] \/ p = o
  BY DEF RebuildOrFinish, MarkOperatorFinished, depState, TypeOK
<1>2. FinishAfterGeneration'
  BY <1>1 DEF FinishAfterGeneration, Dependencies
<1>3. \A p \in Op : rebuildInitiated'[p] => rebuildInitiated[p] \/ p = o
  BY DEF RebuildOrFinish, InitiateRebuild, rebuilds, TypeOK
<1>4. \A p \in Op : rebuildInitiated[p] => rebuildInitiated'[p]
  BY DEF RebuildOrFinish, InitiateRebuild, rebuilds, TypeOK
<1>5. \A p \in Op : rebuildWorkOrders'[p] # << >> =>
        rebuildWorkOrders[p] # << >> \/ rebuildInitiated'[p]
  BY DEF RebuildOrFinish, InitiateRebuild, rebuilds, TypeOK
<1>6. /\ \A w \in Worker : \A i \in DOMAIN assigned[w] : assigned[w][i].op \in Op
      /\ \A i \in DOMAIN inbox : inbox[i].op \in Op
  <2>0. assigned \in [Worker -> Seq(WorkOrder)] /\ inbox \in Seq(Message)
    BY DEF TypeOK
  <2>1. \A w \in Worker : \A i \in DOMAIN assigned[w] : assigned[w][i] \in WorkOrder
    <3>1. \A w \in Worker : assigned[w] \in Seq(WorkOrder)
      BY <2>0
    <3> QED
      BY SMTT(30), <3>1
  <2>2. \A i \in DOMAIN inbox : inbox[i] \in Message
    BY SMTT(30), <2>0
  <2>3. (\A x \in WorkOrder : x.op \in Op) /\ (\A x \in Message : x.op \in Op)
    BY DEF WorkOrder, Message
  <2> QED
    BY <2>1, <2>2, <2>3
<1>7. RebuildAfterGeneration'
  <2>1. \A p \in Op : rebuildInitiated'[p] => doneGeneration'[p]
    BY <1>3 DEF RebuildAfterGeneration
  <2>2. \A p \in Op : rebuildWorkOrders'[p] # << >> => rebuildInitiated'[p]
    BY <1>4, <1>5 DEF RebuildAfterGeneration
  <2>3. \A w \in Worker : \A i \in DOMAIN assigned'[w] :
          assigned'[w][i].rebuild => rebuildInitiated'[assigned'[w][i].op]
    BY <1>4, <1>6 DEF RebuildAfterGeneration
  <2>4. \A i \in DOMAIN inbox' :
          inbox'[i].type = "RebuildComplete" => rebuildInitiated'[inbox'[i].op]
    BY SMTT(30), <1>4, <1>6 DEF RebuildAfterGeneration
  <2> QED
    BY <2>1, <2>2, <2>3, <2>4 DEF RebuildAfterGeneration
<1> QED
  BY <1>2, <1>7

(* A step that leaves the operators, the dependencies, the loops and the       *)
(* rebuild flags alone: only the rebuild work orders may move on, from the     *)
(* container to a worker and from there to the inbox.                          *)
LEMMA MovesKeep ==
  ASSUME SchedulingInvariant,
         UNCHANGED <<opState, depState, control, rebuildInitiated>>,
         \A o \in Op : rebuildWorkOrders'[o] # << >> => rebuildInitiated[o],
         \A w \in Worker : \A i \in DOMAIN assigned'[w] :
           assigned'[w][i].rebuild => rebuildInitiated[assigned'[w][i].op],
         \A i \in DOMAIN inbox' :
           inbox'[i].type = "RebuildComplete" => rebuildInitiated[inbox'[i].op]
  PROVE  SchedulingInvariant'
<1>1. OpenDependenciesKept' /\ EndOfInputTrue'
  BY DEF SchedulingInvariant, OpenDependenciesKept, EndOfInputTrue, opState, depState
<1>2. LoopsFollowFinish'
  BY DEF SchedulingInvariant, LoopsFollowFinish, depState, control
<1>3. GenerationBehindBlocking' /\ FinishAfterGeneration'
  BY DEF SchedulingInvariant, GenerationBehindBlocking, FinishAfterGeneration, opState, depState
<1>4. RebuildAfterGeneration'
  BY DEF SchedulingInvariant, RebuildAfterGeneration, opState
<1> QED
  BY <1>1, <1>2, <1>3, <1>4 DEF SchedulingInvariant

(* The messages left in the inbox after Receive() were there before. *)
LEMMA ReceivedInbox ==
  ASSUME TypeOK, NEW t, Receive(t)
  PROVE  \A i \in DOMAIN inbox' : \E j \in DOMAIN inbox : inbox'[i] = inbox[j]
<1>1. \A i \in DOMAIN inbox' : i + 1 \in DOMAIN inbox /\ inbox'[i] = inbox[i + 1]
  BY SMTT(30) DEF Receive, TypeOK
<1> QED
  BY <1>1

(* Receive() leaves rebuild completions of initiated rebuilds only. *)
LEMMA ReceivedRebuilds ==
  ASSUME TypeOK, RebuildAfterGeneration, NEW t, Receive(t)
  PROVE  \A i \in DOMAIN inbox' :
           inbox'[i].type = "RebuildComplete" => rebuildInitiated[inbox'[i].op]
<1> SUFFICES ASSUME NEW i \in DOMAIN inbox', inbox'[i].type = "RebuildComplete"
             PROVE  rebuildInitiated[inbox'[i].op]
  OBVIOUS
<1>1. PICK j \in DOMAIN inbox : inbox'[i] = inbox[j]
  BY ReceivedInbox
<1>2. inbox[j].type = "RebuildComplete" => rebuildInitiated[inbox[j].op]
  BY DEF RebuildAfterGeneration
<1> QED
  BY <1>1, <1>2

(* The messages in the inbox after Send() were there or are the one sent. *)
LEMMA SentInbox ==
  ASSUME TypeOK, NEW t, NEW o, NEW b, Send(t, o, b)
  PROVE  \A i \in DOMAIN inbox' :
           inbox'[i] = [type |-> t, op |-> o, block |-> b] \/ \E j \in DOMAIN inbox : inbox'[i] = inbox[j]
<1> DEFINE m == [type |-> t, op |-> o, block |-> b]
<1>1. inbox' = Append(inbox, m) /\ inbox \in Seq(Message)
  BY DEF Send, TypeOK
<1> HIDE DEF m
<1>2. \A i \in DOMAIN inbox' : inbox'[i] = m \/ (i \in DOMAIN inbox /\ inbox'[i] = inbox[i])
  BY SMTT(30), <1>1
<1> QED
  BY <1>2 DEF m

(* The worker that runs a rebuild work order runs it for an operator whose     *)
(* rebuild was initiated.                                                      *)
LEMMA RunningRebuild ==
  ASSUME TypeOK, RebuildAfterGeneration, NEW w \in Worker, assigned[w] # << >>
  PROVE  /\ Head(assigned[w]).rebuild => rebuildInitiated[Head(assigned[w]).op]
         /\ \A i \in DOMAIN Tail(assigned[w]) :
              \E j \in DOMAIN assigned[w] : Tail(assigned[w])[i] = assigned[w][j]
<1>0. assigned[w] \in Seq(WorkOrder)
  BY DEF TypeOK
<1>1. 1 \in DOMAIN assigned[w] /\ Head(assigned[w]) = assigned[w][1]
  BY SMTT(30), <1>0
<1>2. \A i \in DOMAIN Tail(assigned[w]) :
        i + 1 \in DOMAIN assigned[w] /\ Tail(assigned[w])[i] = assigned[w][i + 1]
  BY SMTT(30), <1>0
<1>3. Head(assigned[w]).rebuild => rebuildInitiated[Head(assigned[w]).op]
  BY SMTT(30), <1>1 DEF RebuildAfterGeneration
<1>4. \A i \in DOMAIN Tail(assigned[w]) :
        \E j \in DOMAIN assigned[w] : Tail(assigned[w])[i] = assigned[w][j]
  BY <1>2
<1> QED
  BY <1>3, <1>4

(* The workers and the dispatcher keep the invariant. *)
LEMMA WorkersKeep ==
  ASSUME TypeOK, SchedulingInvariant,
         \/ \E o \in Op, w \in Worker : DispatchRebuild(o, w) \/ DispatchNormal(o, w)
         \/ \E w \in Worker : WorkerStep(w)
  PROVE  SchedulingInvariant'
<1> USE DEF SchedulingInvariant
<1>0. /\ \A o \in Op : rebuildWorkOrders[o] # << >> => rebuildInitiated[o]
      /\ \A w \in Worker : \A i \in DOMAIN assigned[w] :
           assigned[w][i].rebuild => rebuildInitiated[assigned[w][i].op]
      /\ \A i \in DOMAIN inbox : inbox[i].type = "RebuildComplete" => rebuildInitiated[inbox[i].op]
  BY DEF RebuildAfterGeneration
<1>a. ASSUME NEW w \in Worker, NEW o \in Op, NEW r \in BOOLEAN, NEW b, r => rebuildInitiated[o],
             assigned' = [assigned EXCEPT ![w] = Append(@, [op |-> o, rebuild |-> r, block |-> b])]
      PROVE  \A v \in Worker : \A i \in DOMAIN assigned'[v] :
               assigned'[v][i].rebuild => rebuildInitiated[assigned'[v][i].op]
  <2> DEFINE m == [op |-> o, rebuild |-> r, block |-> b]
  <2>1. m.op = o /\ m.rebuild = r
    OBVIOUS
  <2>2. assigned' = [assigned EXCEPT ![w] = Append(@, m)] /\ assigned \in [Worker -> Seq(WorkOrder)]
    BY <1>a DEF TypeOK
  <2> HIDE DEF m
  <2>3. ASSUME NEW v \in Worker, NEW i \in DOMAIN assigned'[v]
        PROVE  assigned'[v][i] = m \/ (i \in DOMAIN assigned[v] /\ assigned'[v][i] = assigned[v][i])
    <3>1. assigned'[v] = (IF v = w THEN Append(assigned[v], m) ELSE assigned[v])
      BY <2>2
    <3>2. assigned[v] \in Seq(WorkOrder)
      BY <2>2
    <3>3. \A k \in DOMAIN Append(assigned[v], m) :
            \/ Append(assigned[v], m)[k] = m
            \/ k \in DOMAIN assigned[v] /\ Append(assigned[v], m)[k] = assigned[v][k]
      BY SMTT(30), <3>2
    <3> QED
      BY <2>3, <3>1, <3>3
  <2>4. \A v \in Worker : \A i \in DOMAIN assigned[v] :
          assigned[v][i].rebuild => rebuildInitiated[assigned[v][i].op]
    BY <1>0
  <2>5. m.rebuild => rebuildInitiated[m.op]
    BY <1>a, <2>1
  <2> QED
    BY <2>3, <2>4, <2>5
<1>b. \A i \in DOMAIN inbox : inbox[i].type = "RebuildComplete" => rebuildInitiated[inbox[i].op]
  BY <1>0
<1>1. ASSUME NEW o \in Op, NEW w \in Worker, DispatchRebuild(o, w) PROVE SchedulingInvariant'
  <2>1. rebuildInitiated[o]
    BY <1>0, <1>1 DEF DispatchRebuild
  <2>2. \A v \in Worker : \A i \in DOMAIN assigned'[v] :
          assigned'[v][i].rebuild => rebuildInitiated[assigned'[v][i].op]
    BY <1>1, <1>a, <2>1 DEF DispatchRebuild
  <2>3. \A p \in Op : rebuildWorkOrders'[p] # << >> => rebuildInitiated[p]
    BY <1>0, <1>1, <2>1 DEF DispatchRebuild, TypeOK
  <2> QED
    BY <1>0, <1>1, <2>2, <2>3, MovesKeep DEF DispatchRebuild
<1>2. ASSUME NEW o \in Op, NEW w \in Worker, DispatchNormal(o, w) PROVE SchedulingInvariant'
  <2>1. \A v \in Worker : \A i \in DOMAIN assigned'[v] :
          assigned'[v][i].rebuild => rebuildInitiated[assigned'[v][i].op]
    <3>1. assigned' = [assigned EXCEPT ![w] = Append(@,
            [op |-> o, rebuild |-> FALSE, block |-> Head(normalWorkOrders[o])])]
      BY <1>2 DEF DispatchNormal
    <3> QED
      BY <3>1, <1>a
  <2> QED
    BY <1>0, <1>2, <2>1, MovesKeep DEF DispatchNormal, rebuilds
<1>3. ASSUME NEW w \in Worker, WorkerStep(w) PROVE SchedulingInvariant'
  <2>1. CASE ReuseBlock(w)
    BY <1>0, <2>1, MovesKeep DEF ReuseBlock
  <2>2. CASE ReturnPartialBlock(w)
    BY <1>0, <2>2, MovesKeep DEF ReturnPartialBlock
  <2>3. ASSUME NEW t \in {"NewBlock", "DataPipeline"}, NEW o, NEW b, Send(t, o, b)
        PROVE  \A i \in DOMAIN inbox' :
                 inbox'[i].type = "RebuildComplete" => rebuildInitiated[inbox'[i].op]
    <3> DEFINE m == [type |-> t, op |-> o, block |-> b]
    <3>1. m.type # "RebuildComplete"
      BY <2>3
    <3>2. \A i \in DOMAIN inbox' : inbox'[i] = m \/ \E j \in DOMAIN inbox : inbox'[i] = inbox[j]
      BY SMTT(30), <2>3, SentInbox
    <3> HIDE DEF m
    <3> QED
      BY <1>b, <3>1, <3>2
  <2>4. CASE CreateNewBlock(w)
    BY <1>0, <2>4, <2>3, MovesKeep DEF CreateNewBlock, rebuilds
  <2>5. CASE ReturnFullBlock(w)
    BY <1>0, <2>5, <2>3, MovesKeep DEF ReturnFullBlock, rebuilds
  <2>6. CASE RebuildBlock(w)
    BY <1>0, <2>6, <2>3, MovesKeep DEF RebuildBlock, rebuilds
  <2>7. CASE SendWorkOrderComplete(w)
    <3> DEFINE r == Head(assigned[w]).rebuild
               t == IF r THEN "RebuildComplete" ELSE "Complete"
    <3>1. assigned[w] # << >> /\ Send(t, Head(assigned[w]).op, NoBlock)
      BY <2>7 DEF SendWorkOrderComplete, Running
    <3>2. r => rebuildInitiated[Head(assigned[w]).op]
      BY <3>1, RunningRebuild
    <3> HIDE DEF r
    <3>3. \A i \in DOMAIN inbox' :
            inbox'[i].type = "RebuildComplete" => rebuildInitiated[inbox'[i].op]
      <4> DEFINE m == [type |-> t, op |-> Head(assigned[w]).op, block |-> NoBlock]
      <4>1. m.type = "RebuildComplete" => rebuildInitiated[m.op]
        BY <3>2
      <4>2. \A i \in DOMAIN inbox' : inbox'[i] = m \/ \E j \in DOMAIN inbox : inbox'[i] = inbox[j]
        <5> HIDE DEF t
        <5> QED
          BY SMTT(30), <3>1, SentInbox
      <4> HIDE DEF m
      <4> QED
        BY <1>b, <4>1, <4>2
    <3>4. assigned' = [assigned EXCEPT ![w] = Tail(@)] /\ assigned \in [Worker -> Seq(WorkOrder)]
      BY <2>7 DEF SendWorkOrderComplete, TypeOK
    <3>5. ASSUME NEW v \in Worker, NEW i \in DOMAIN assigned'[v]
          PROVE  \E j \in DOMAIN assigned[v] : assigned'[v][i] = assigned[v][j]
      <4>1. CASE v = w
        <5>1. assigned'[v] = Tail(assigned[w])
          BY <3>4, <4>1
        <5>2. \A k \in DOMAIN Tail(assigned[w]) :
                \E j \in DOMAIN assigned[w] : Tail(assigned[w])[k] = assigned[w][j]
          BY <3>1, RunningRebuild
        <5> QED
          BY <4>1, <5>1, <5>2
      <4>2. CASE v # w
        BY <3>4, <4>2
      <4> QED
        BY <4>1, <4>2
    <3>6. \A v \in Worker : \A i \in DOMAIN assigned'[v] :
            assigned'[v][i].rebuild => rebuildInitiated[assigned'[v][i].op]
      <4>1. \A v \in Worker : \A i \in DOMAIN assigned[v] :
              assigned[v][i].rebuild => rebuildInitiated[assigned[v][i].op]
        BY <1>0
      <4> QED
        BY SMTT(30), <3>5, <4>1
    <3> QED
      BY <1>0, <2>7, <3>3, <3>6, MovesKeep DEF SendWorkOrderComplete, rebuilds
  <2> QED
    BY <1>3, <2>1, <2>2, <2>4, <2>5, <2>6, <2>7 DEF WorkerStep
<1> QED
  BY <1>1, <1>2, <1>3

(* The operator c has been told of the end of the operator whose loop is at    *)
(* the head of the stack, which is one of its dependencies and has finished.   *)
LEMMA DoneFedByTrue ==
  ASSUME TypeOK, SchedulingInvariant, NEW c \in Op, NextDependent(c)
  PROVE  LET dones == DoneFedBy(Head(stack).op, c) IN
         /\ \A o \in Op : doneFed[o] \subseteq dones[o]
         /\ \A o \in Op : \A p \in dones[o] : p \in Output /\ <<p, o>> \in Link /\ finished[p]
<1>1. stack # << >> /\ Head(stack).op \in Op
  BY HeadFrame DEF NextDependent
<1>2. 1 \in DOMAIN stack /\ Head(stack) = stack[1]
  <2>1. stack \in Seq(Frame)
    BY DEF TypeOK
  <2> QED
    BY SMTT(30), <1>1, <2>1
<1>3. finished[Head(stack).op] /\ <<Head(stack).op, c>> \in Link
  BY <1>2 DEF SchedulingInvariant, LoopsFollowFinish, NextDependent
<1>4. EndOfInputTrue /\ doneFed \in [Op -> SUBSET Op]
  BY DEF TypeOK, SchedulingInvariant
<1> QED
  BY <1>1, <1>3, <1>4 DEF DoneFedBy, EndOfInputTrue

(* The foreman keeps the invariant. *)
LEMMA ForemanKeeps ==
  ASSUME TypeOK, SchedulingInvariant, Foreman
  PROVE  SchedulingInvariant'
<1>0. /\ OpenDependenciesKept /\ EndOfInputTrue /\ LoopsFollowFinish
      /\ GenerationBehindBlocking /\ FinishAfterGeneration /\ RebuildAfterGeneration
      /\ Loops(stack) /\ Loops(<< >>) /\ << >> \in Seq(Frame)
      /\ fed \in [Op -> Seq(Block)] /\ doneFed \in [Op -> SUBSET Op]
  <2>0. LoopsFollowFinish
    BY DEF SchedulingInvariant
  <2>1. Loops(stack) /\ Loops(<< >>) /\ << >> \in Seq(Frame)
    BY SMTT(30), <2>0 DEF LoopsFollowFinish, Loops
  <2>2. fed \in [Op -> Seq(Block)] /\ doneFed \in [Op -> SUBSET Op]
    BY DEF TypeOK
  <2> QED
    BY <2>1, <2>2 DEF SchedulingInvariant
<1>b. /\ \A o \in Op : rebuildInitiated[o] => doneGeneration[o]
      /\ \A o \in Op : rebuildWorkOrders[o] # << >> => rebuildInitiated[o]
      /\ \A w \in Worker : \A i \in DOMAIN assigned[w] :
           assigned[w][i].rebuild => rebuildInitiated[assigned[w][i].op]
  BY <1>0 DEF RebuildAfterGeneration
<1>a. Loops(stack)' /\ (\A o \in toStart' : Dependencies(o) = {}) => LoopsFollowFinish'
  BY DEF LoopsFollowFinish, Loops, Dependencies
<1>1. ASSUME NEW o \in Op, StartOperator(o) PROVE SchedulingInvariant'
  <2>1. Fetch({o}, fed, doneFed) /\ Dependencies(o) = {} /\ blockingDependencies[o] = {}
    BY <1>0, <1>1 DEF StartOperator, LoopsFollowFinish, OpenDependenciesKept
  <2>2. MarkOperatorFinished(o, << >>) \/ UNCHANGED <<depState, stack>>
    BY <1>1 DEF StartOperator
  <2>3. DependenciesShrink
    BY <1>0, <2>2, MarkShrinks, UnchangedShrinks
  <2>4. Loops(stack)'
    <3>1. CASE MarkOperatorFinished(o, << >>)
      BY <1>0, <3>1, MarkLoops
    <3>2. CASE UNCHANGED <<depState, stack>>
      BY <1>0, <3>2 DEF Loops, depState
    <3> QED
      BY <2>2, <3>1, <3>2
  <2>5. /\ EndOfInputTrue' /\ GenerationBehindBlocking'
        /\ \A p \in Op : doneGeneration[p] => doneGeneration'[p]
        /\ \A p \in Op : storedGenerated[p] => storedGenerated'[p]
        /\ storedGenerated'[o]
    <3>1. \A p \in Op : \A q \in doneFed[p] : q \in Output /\ <<q, p>> \in Link /\ finished'[q]
      BY <1>0, <2>3 DEF EndOfInputTrue, DependenciesShrink
    <3>2. /\ TypeOK /\ GenerationBehindBlocking /\ {o} \in SUBSET Op
          /\ \A p \in {o} : blockingDependencies[p] = {}
          /\ \A p \in Op : doneFed[p] \subseteq doneFed[p]
      BY <1>0, <2>1
    <3>3. fed \in [Op -> Seq(Block)] /\ doneFed \in [Op -> SUBSET Op]
      BY <3>2 DEF TypeOK
    <3>4. o \in {o}
      OBVIOUS
    <3> QED
      BY <2>1, <2>3, <3>1, <3>2, <3>3, <3>4, FetchKeeps
  <2>6. \A p \in Op : finished'[p] => finished[p] \/ p = o
    BY <2>2 DEF MarkOperatorFinished, depState, TypeOK
  <2>7. FinishAfterGeneration'
    BY <1>0, <2>1, <2>5, <2>6 DEF FinishAfterGeneration, Dependencies
  <2>8. RebuildAfterGeneration'
    <3>1. UNCHANGED <<rebuildWorkOrders, rebuildInitiated, assigned, inbox>>
      BY <1>1 DEF StartOperator, rebuilds, workers
    <3> QED
      BY <1>0, <2>5, <3>1 DEF RebuildAfterGeneration
  <2>9. LoopsFollowFinish'
    BY <1>0, <1>1, <1>a, <2>4 DEF StartOperator, LoopsFollowFinish
  <2> QED
    BY <2>3, <2>5, <2>7, <2>8, <2>9 DEF SchedulingInvariant, DependenciesShrink
<1>2. ASSUME NEW c \in Op, NotifyBlockedDependent(c) PROVE SchedulingInvariant'
  <2>1. stack # << >> /\ NextDependent(c)
    BY <1>2 DEF NotifyBlockedDependent, NextDependent
  <2>2. Loops(stack)'
    BY <1>0, <1>2, <2>1, CallersAfterLoops DEF NotifyBlockedDependent, Loops, depState
  <2>3. LoopsFollowFinish'
    BY <1>0, <1>2, <1>a, <2>2 DEF NotifyBlockedDependent, LoopsFollowFinish
  <2>4. /\ \A o \in Op : doneFed[o] \subseteq doneFed'[o]
        /\ EndOfInputTrue'
    BY <1>2, <2>1, DoneFedByTrue DEF NotifyBlockedDependent, EndOfInputTrue, depState
  <2>5. GenerationBehindBlocking'
    <3> SUFFICES ASSUME NEW o \in Op, doneGeneration[o] PROVE DoneFeeding(o, doneFed'[o])
      BY <1>0, <1>2 DEF GenerationBehindBlocking, NotifyBlockedDependent, depState
    <3> QED
      BY <1>0, <2>4, DoneFeedingMonotone DEF GenerationBehindBlocking
  <2>6. OpenDependenciesKept' /\ FinishAfterGeneration' /\ RebuildAfterGeneration'
    BY <1>0, <1>2 DEF NotifyBlockedDependent, OpenDependenciesKept, FinishAfterGeneration,
       RebuildAfterGeneration, Dependencies, depState, rebuilds, workers
  <2> QED
    BY <2>3, <2>4, <2>5, <2>6 DEF SchedulingInvariant
<1>3. ASSUME NEW c \in Op, NotifyReadyDependent(c) PROVE SchedulingInvariant'
  <2> DEFINE dones == DoneFedBy(Head(stack).op, c)
  <2>1. /\ stack # << >> /\ NextDependent(c) /\ blockingDependencies[c] = {}
        /\ Fetch({c}, fed, dones)
    BY <1>3 DEF NotifyReadyDependent, NextDependent, CheckAllBlockingDependenciesMet
  <2>2. /\ Loops(CallersAfter(c)) /\ CallersAfter(c) \in Seq(Frame)
        /\ dones \in [Op -> SUBSET Op]
    BY <1>0, <2>1, CallersAfterLoops, CallersAfterType, DoneFedByType, HeadFrame
  <2>3. \/ doneGeneration'[c] /\ RebuildOrFinish(c, CallersAfter(c))
        \/ stack' = CallersAfter(c) /\ UNCHANGED <<depState, rebuilds>>
    BY <1>3 DEF NotifyReadyDependent
  <2>4. DependenciesShrink /\ Loops(stack)'
    <3>1. CASE RebuildOrFinish(c, CallersAfter(c))
      BY <1>0, <2>2, <3>1, RebuildOrFinishShrinks, RebuildOrFinishLoops
    <3>2. CASE stack' = CallersAfter(c) /\ UNCHANGED <<depState, rebuilds>>
      BY <1>0, <2>2, <3>2, UnchangedShrinks DEF Loops, depState
    <3> QED
      BY <2>3, <3>1, <3>2
  <2>5. /\ \A o \in Op : doneFed[o] \subseteq dones[o]
        /\ \A o \in Op : \A p \in dones[o] : p \in Op /\ p \in Output /\ <<p, o>> \in Link /\ finished[p]
    BY <2>1, <2>2, DoneFedByTrue
  <2> HIDE DEF dones
  <2>6. /\ EndOfInputTrue' /\ GenerationBehindBlocking'
        /\ \A p \in Op : doneGeneration[p] => doneGeneration'[p]
        /\ \A p \in Op : storedGenerated[p] => storedGenerated'[p]
    <3>1. \A o \in Op : \A p \in dones[o] : p \in Output /\ <<p, o>> \in Link /\ finished'[p]
      BY <2>4, <2>5 DEF DependenciesShrink
    <3> QED
      BY <1>0, <2>1, <2>2, <2>4, <2>5, <3>1, FetchKeeps
  <2>7. FinishAfterGeneration' /\ RebuildAfterGeneration'
    <3>1. UNCHANGED <<assigned, inbox>>
      BY <1>3 DEF NotifyReadyDependent, workers
    <3>2. CASE doneGeneration'[c] /\ RebuildOrFinish(c, CallersAfter(c))
      BY <1>0, <2>6, <3>1, <3>2, RebuildOrFinishKeeps
    <3>3. CASE UNCHANGED <<depState, rebuilds>>
      BY <1>0, <2>6, <3>1, <3>3
      DEF FinishAfterGeneration, RebuildAfterGeneration, Dependencies, depState, rebuilds
    <3> QED
      BY <2>3, <3>2, <3>3
  <2>8. LoopsFollowFinish'
    BY <1>0, <1>3, <1>a, <2>4 DEF NotifyReadyDependent, LoopsFollowFinish
  <2> QED
    BY <2>4, <2>6, <2>7, <2>8 DEF SchedulingInvariant, DependenciesShrink
<1>4. ASSUME ReturnFromMarkFinished PROVE SchedulingInvariant'
  <2>1. Loops(stack)'
    <3>1. \A j \in DOMAIN Tail(stack) : j + 1 \in DOMAIN stack /\ Tail(stack)[j] = stack[j + 1]
      <4>1. stack \in Seq(Frame)
        BY DEF TypeOK
      <4>2. stack # << >>
        BY <1>4 DEF ReturnFromMarkFinished
      <4> QED
        BY SMTT(30), <4>1, <4>2
    <3>2. stack' = Tail(stack) /\ finished' = finished
      BY <1>4 DEF ReturnFromMarkFinished, depState
    <3> QED
      BY <1>0, <3>1, <3>2 DEF Loops
  <2>2. LoopsFollowFinish'
    BY <1>0, <1>4, <1>a, <2>1 DEF ReturnFromMarkFinished, LoopsFollowFinish
  <2>3. OpenDependenciesKept' /\ EndOfInputTrue' /\ GenerationBehindBlocking'
    BY <1>0, <1>4 DEF ReturnFromMarkFinished, OpenDependenciesKept, EndOfInputTrue,
       GenerationBehindBlocking, Dependencies, opState, depState
  <2>4. FinishAfterGeneration' /\ RebuildAfterGeneration'
    BY <1>0, <1>4 DEF ReturnFromMarkFinished, FinishAfterGeneration,
       RebuildAfterGeneration, Dependencies, opState, depState, rebuilds, workers
  <2> QED
    BY <2>2, <2>3, <2>4 DEF SchedulingInvariant
<1>5. ASSUME ProcessWorkOrderComplete PROVE SchedulingInvariant'
  <2> DEFINE o == Head(inbox).op
  <2>0. Receive("Complete")
    BY <1>5 DEF ProcessWorkOrderComplete
  <2>1. /\ o \in Op
        /\ \A i \in DOMAIN inbox' :
             inbox'[i].type = "RebuildComplete" => rebuildInitiated[inbox'[i].op]
    BY <1>0, <2>0, HeadMessage, ReceivedRebuilds
  <2>2. \/ doneGeneration[o] /\ RebuildOrFinish(o, << >>)
        \/ UNCHANGED <<depState, rebuilds, stack>>
    BY <1>5 DEF ProcessWorkOrderComplete
  <2>3. UNCHANGED <<opState, assigned, toStart>>
    BY <1>5 DEF ProcessWorkOrderComplete, workers
  <2> HIDE DEF o
  <2>4. CASE doneGeneration[o] /\ RebuildOrFinish(o, << >>)
    <3>1. DependenciesShrink /\ Loops(stack)'
      BY <1>0, <2>1, <2>4, RebuildOrFinishShrinks, RebuildOrFinishLoops
    <3>2. FinishAfterGeneration' /\ RebuildAfterGeneration'
      BY <1>0, <2>0, <2>1, <2>3, <2>4, ReceivedInbox, RebuildOrFinishKeeps DEF opState
    <3>3. EndOfInputTrue' /\ GenerationBehindBlocking'
      BY <1>0, <2>3, <3>1 DEF EndOfInputTrue, GenerationBehindBlocking, DependenciesShrink,
         opState, TypeOK
    <3>4. LoopsFollowFinish'
      BY <1>0, <1>a, <2>3, <3>1 DEF LoopsFollowFinish
    <3> QED
      BY <3>1, <3>2, <3>3, <3>4 DEF SchedulingInvariant, DependenciesShrink
  <2>5. CASE UNCHANGED <<depState, rebuilds, stack>>
    <3>1. UNCHANGED <<opState, depState, control, rebuildInitiated, rebuildWorkOrders, assigned>>
      BY <2>3, <2>5 DEF rebuilds, control
    <3> QED
      BY <1>b, <2>1, <3>1, MovesKeep
  <2> QED
    BY <2>2, <2>4, <2>5
<1>6. ASSUME ProcessRebuildWorkOrderComplete PROVE SchedulingInvariant'
  <2> DEFINE o == Head(inbox).op
  <2>1. /\ o \in Op
        /\ \A i \in DOMAIN inbox' :
             inbox'[i].type = "RebuildComplete" => rebuildInitiated[inbox'[i].op]
    <3>1. Receive("RebuildComplete")
      BY <1>6 DEF ProcessRebuildWorkOrderComplete
    <3> QED
      BY <1>0, <3>1, HeadMessage, ReceivedRebuilds
  <2>2. MarkOperatorFinished(o, << >>) \/ UNCHANGED <<depState, stack>>
    BY <1>6 DEF ProcessRebuildWorkOrderComplete
  <2>3. UNCHANGED <<opState, rebuildWorkOrders, rebuildInitiated, assigned, toStart>>
    BY <1>6 DEF ProcessRebuildWorkOrderComplete, workers
  <2>4. doneGeneration[o]
    <3>1. inbox # << >> /\ Head(inbox).type = "RebuildComplete"
      BY <1>6 DEF ProcessRebuildWorkOrderComplete, Receive
    <3>2. 1 \in DOMAIN inbox /\ Head(inbox) = inbox[1]
      BY SMTT(30), <3>1 DEF TypeOK
    <3> QED
      BY <1>0, <2>1, <3>1, <3>2 DEF RebuildAfterGeneration
  <2> HIDE DEF o
  <2>5. CASE MarkOperatorFinished(o, << >>)
    <3>1. DependenciesShrink /\ Loops(stack)'
      BY <1>0, <2>1, <2>5, MarkShrinks, MarkLoops
    <3>2. \A p \in Op : finished'[p] => finished[p] \/ p = o
      BY <2>1, <2>5 DEF MarkOperatorFinished, TypeOK
    <3>3. FinishAfterGeneration'
      BY <1>0, <2>3, <2>4, <3>2 DEF FinishAfterGeneration, Dependencies, opState
    <3>4. RebuildAfterGeneration'
      BY <1>b, <2>1, <2>3 DEF RebuildAfterGeneration, opState
    <3>5. EndOfInputTrue' /\ GenerationBehindBlocking'
      BY <1>0, <2>3, <3>1 DEF EndOfInputTrue, GenerationBehindBlocking, DependenciesShrink,
         opState, TypeOK
    <3>6. LoopsFollowFinish'
      BY <1>0, <1>a, <2>3, <3>1 DEF LoopsFollowFinish
    <3> QED
      BY <3>1, <3>3, <3>4, <3>5, <3>6 DEF SchedulingInvariant, DependenciesShrink
  <2>6. CASE UNCHANGED <<depState, stack>>
    <3>1. UNCHANGED <<opState, depState, control, rebuildInitiated, rebuildWorkOrders, assigned>>
      BY <2>3, <2>6 DEF control
    <3> QED
      BY <1>b, <2>1, <3>1, MovesKeep
  <2> QED
    BY <2>2, <2>5, <2>6
<1>7. ASSUME ProcessDataPipeline PROVE SchedulingInvariant'
  <2> DEFINE p == Head(inbox).op
             S == {c \in OutputConsumers(p) : CheckAllBlockingDependenciesMet(c)}
             feds == [c \in Op |-> IF c \in OutputConsumers(p) /\ p \in Input[c]
                                   THEN Append(fed[c], Head(inbox).block) ELSE fed[c]]
  <2>1. /\ Head(inbox).block \in Block
        /\ \A i \in DOMAIN inbox' :
             inbox'[i].type = "RebuildComplete" => rebuildInitiated[inbox'[i].op]
    <3>1. PICK u : Receive(u)
      BY <1>7 DEF ProcessDataPipeline
    <3> QED
      BY <1>0, <3>1, HeadMessage, ReceivedRebuilds
  <2>2. S \in SUBSET Op /\ feds \in [Op -> Seq(Block)]
    <3>1. S \in SUBSET Op
      BY DEF OutputConsumers
    <3>2. \A c \in Op : fed[c] \in Seq(Block) /\ Append(fed[c], Head(inbox).block) \in Seq(Block)
      BY SMTT(30), <1>0, <2>1
    <3>3. feds \in [Op -> Seq(Block)]
      BY <3>2
    <3> QED
      BY <3>1, <3>3
  <2>3. \A c \in S : blockingDependencies[c] = {}
    BY DEF CheckAllBlockingDependenciesMet
  <2>4. Fetch(S, feds, doneFed) /\ UNCHANGED <<depState, rebuilds, assigned, control>>
    BY <1>7 DEF ProcessDataPipeline, workers
  <2> HIDE DEF S, feds
  <2>5. DependenciesShrink
    BY <1>0, <2>4, UnchangedShrinks
  <2>6. /\ EndOfInputTrue' /\ GenerationBehindBlocking'
        /\ \A o \in Op : doneGeneration[o] => doneGeneration'[o]
        /\ \A o \in Op : storedGenerated[o] => storedGenerated'[o]
    <3>1. \A o \in Op : \A q \in doneFed[o] : q \in Output /\ <<q, o>> \in Link /\ finished'[q]
      BY <1>0, <2>4 DEF EndOfInputTrue, depState
    <3> QED
      BY <1>0, <2>2, <2>3, <2>4, <2>5, <3>1, FetchKeeps
  <2>7. FinishAfterGeneration' /\ RebuildAfterGeneration'
    <3>1. UNCHANGED <<finished, rebuildWorkOrders, rebuildInitiated, assigned>>
      BY <2>4 DEF depState, rebuilds
    <3>2. FinishAfterGeneration'
      BY <1>0, <2>6, <3>1 DEF FinishAfterGeneration, Dependencies
    <3>3. RebuildAfterGeneration'
      BY <1>b, <2>1, <2>6, <3>1 DEF RebuildAfterGeneration
    <3> QED
      BY <3>2, <3>3
  <2>8. LoopsFollowFinish'
    BY <1>0, <2>4 DEF LoopsFollowFinish, Dependencies, depState, control
  <2> QED
    BY <2>5, <2>6, <2>7, <2>8 DEF SchedulingInvariant, DependenciesShrink
<1>8. ASSUME ProcessNewBlock PROVE SchedulingInvariant'
  <2>1. PICK t : Receive(t)
    BY <1>8 DEF ProcessNewBlock
  <2>2. \A i \in DOMAIN inbox' :
          inbox'[i].type = "RebuildComplete" => rebuildInitiated[inbox'[i].op]
    BY <1>0, <2>1, ReceivedRebuilds
  <2>3. UNCHANGED <<opState, depState, control, rebuildInitiated, rebuildWorkOrders, assigned>>
    BY <1>8 DEF ProcessNewBlock, rebuilds, workers
  <2> QED
    BY <1>b, <2>2, <2>3, MovesKeep
<1> QED
  BY <1>1, <1>2, <1>3, <1>4, <1>5, <1>6, <1>7, <1>8 DEF Foreman

(* Every step keeps the scheduling invariant. *)
LEMMA SchedulingStep == TypeOK /\ SchedulingInvariant /\ [Next]_vars => SchedulingInvariant'
<1> SUFFICES ASSUME TypeOK, SchedulingInvariant, [Next]_vars PROVE SchedulingInvariant'
  OBVIOUS
<1>1. CASE Foreman
  BY <1>1, ForemanKeeps
<1>2. CASE Dispatch \/ \E w \in Worker : WorkerStep(w)
  BY <1>2, WorkersKeep DEF Dispatch
<1>3. CASE UNCHANGED vars
  BY <1>3, MovesKeep DEF vars, rebuilds, workers, SchedulingInvariant, RebuildAfterGeneration
<1> QED
  BY <1>1, <1>2, <1>3 DEF Next, Terminated

-----------------------------------------------------------------------------
(* The state of the query manager, its operators and the workers stays well    *)
(* typed: in particular markOperatorFinished() and the message handlers only   *)
(* ever index the per-operator vectors with operators of the plan.             *)
THEOREM TypeCorrect == Spec => []TypeOK
<1>1. Spec => Init /\ [][Next]_vars
  BY DEF Spec
<1> QED
  BY <1>1, TypeInit, TypeStep, PTL

(* The inductive invariant holds in every reachable state. *)
THEOREM SchedulingCorrect == Spec => []SchedulingInvariant
<1>1. Spec => Init /\ [][Next]_vars
  BY DEF Spec
<1> QED
  BY <1>1, TypeCorrect, SchedulingInit, SchedulingStep, PTL

(* fetchNormalWorkOrders() only behind finished blocking dependencies, in      *)
(* every plan: an operator that has generated work has none that is open.      *)
THEOREM BlockingFirst == Spec => []BlockingDependenciesFirst
<1>1. TypeOK /\ SchedulingInvariant => BlockingDependenciesFirst
  <2> SUFFICES ASSUME TypeOK, SchedulingInvariant, NEW o \in Op, HasWork(o),
                      NEW p \in Op, <<p, o>> \in Breaker
               PROVE  finished[p]
    BY DEF BlockingDependenciesFirst
  <2>1. storedGenerated[o]
    BY DEF SchedulingInvariant, GenerationBehindBlocking, FinishAfterGeneration, HasWork
  <2>2. blockingDependencies[o] = {}
    BY <2>1 DEF SchedulingInvariant, GenerationBehindBlocking
  <2> QED
    BY <2>2 DEF SchedulingInvariant, OpenDependenciesKept
<1> QED
  BY <1>1, TypeCorrect, SchedulingCorrect, PTL

(* In a well formed plan the end of all pipelined inputs is known to an        *)
(* operator that is done generating.                                           *)
LEMMA GeneratedMeansFinished ==
  ASSUME WellFormedPlan, TypeOK, SchedulingInvariant, NEW o \in Op, doneGeneration[o],
         NEW p \in Dependencies(o)
  PROVE  finished[p]
<1>1. p \in Op /\ <<p, o>> \in Link
  BY DEF Dependencies
<1>3. CASE <<p, o>> \in Breaker
  BY <1>1, <1>3
  DEF SchedulingInvariant, GenerationBehindBlocking, OpenDependenciesKept
<1>4. CASE <<p, o>> \notin Breaker
  <2>1. p \in Input[o] /\ Kind[o] # "stored"
    BY <1>1, <1>4 DEF WellFormedPlan
  <2>2. DoneFeeding(o, doneFed[o])
    BY DEF SchedulingInvariant, GenerationBehindBlocking
  <2>3. \A q \in doneFed[o] : q \in Op /\ q \in Output /\ <<q, o>> \in Link /\ finished[q]
    BY DEF SchedulingInvariant, EndOfInputTrue, TypeOK
  <2>4. CASE Kind[o] \in {"stream", "closure"}
    <3>1. PICK q \in doneFed[o] : TRUE
      BY <2>2, <2>4 DEF DoneFeeding
    <3>2. q = p
      BY <1>1, <2>1, <2>3, <2>4 DEF WellFormedPlan, Dependencies
    <3> QED
      BY <2>3, <3>2
  <2>5. CASE Kind[o] \in {"probe", "union"}
    BY <2>1, <2>2, <2>3, <2>5 DEF DoneFeeding
  <2>6. Kind[o] \in {"stored", "stream", "probe", "union", "closure"}
    BY PlanAssumption DEF Kinds
  <2> QED
    BY <2>1, <2>4, <2>5, <2>6
<1> QED
  BY <1>3, <1>4

(* The operators a finished one depends on have finished. *)
LEMMA DoneMeansFinished ==
  ASSUME WellFormedPlan, TypeOK, SchedulingInvariant, NEW o \in Op, finished[o],
         NEW p \in Dependencies(o)
  PROVE  finished[p]
<1>1. p \in Op /\ <<p, o>> \in Link
  BY DEF Dependencies
<1>2. doneGeneration[o]
  BY <1>1 DEF SchedulingInvariant, FinishAfterGeneration
<1> QED
  BY <1>2, GeneratedMeansFinished

(* In a well formed plan an operator finishes after all its dependencies, the  *)
(* pipelined ones included, although the message handlers never look at those. *)
THEOREM DependenciesFirst ==
  ASSUME WellFormedPlan
  PROVE  Spec => []DependenciesFinishFirst
<1>1. TypeOK /\ SchedulingInvariant => DependenciesFinishFirst
  BY DoneMeansFinished DEF DependenciesFinishFirst
<1> QED
  BY <1>1, TypeCorrect, SchedulingCorrect, PTL

-----------------------------------------------------------------------------
(* Refinement of the abstract schedule. *)

(* A step that finishes no operator and takes back no started one. *)
NothingFinished ==
  UNCHANGED finished /\ \A p \in Op : storedGenerated[p] => storedGenerated'[p]

(* A step that finishes the operator o and starts no other. *)
OneFinished(o) ==
  /\ finished' = [finished EXCEPT ![o] = TRUE]
  /\ \A p \in Op : storedGenerated'[p] <=> storedGenerated[p] \/ p = o

(* The end of processWorkOrderCompleteMessage() finishes its operator or none. *)
LEMMA RebuildOrFinishShape ==
  ASSUME NEW o \in Op, NEW callers, RebuildOrFinish(o, callers)
  PROVE  UNCHANGED finished \/ finished' = [finished EXCEPT ![o] = TRUE]
BY DEF RebuildOrFinish, MarkOperatorFinished, depState

(* Every step finishes at most one operator, which has started. *)
LEMMA StepShape ==
  ASSUME TypeOK, SchedulingInvariant, [Next]_vars
  PROVE  NothingFinished \/ \E o \in Op : OneFinished(o)
<1> USE DEF NothingFinished, OneFinished
<1>0. \A o \in Op : doneGeneration[o] => storedGenerated[o]
  BY DEF SchedulingInvariant, GenerationBehindBlocking
<1>a. ASSUME NEW S, NEW f, NEW d, Fetch(S, f, d)
      PROVE  \A p \in Op : storedGenerated'[p] <=> storedGenerated[p] \/ p \in S
  BY <1>a DEF Fetch
<1>1. ASSUME NEW o \in Op, StartOperator(o) PROVE NothingFinished \/ OneFinished(o)
  <2>1. UNCHANGED finished \/ finished' = [finished EXCEPT ![o] = TRUE]
    BY <1>1 DEF StartOperator, MarkOperatorFinished, depState
  <2>2. \A p \in Op : storedGenerated'[p] <=> storedGenerated[p] \/ p \in {o}
    BY <1>1, <1>a DEF StartOperator
  <2> QED
    BY <2>1, <2>2
<1>2. ASSUME NEW c \in Op, NotifyReadyDependent(c) PROVE NothingFinished \/ OneFinished(c)
  <2>1. UNCHANGED finished \/ finished' = [finished EXCEPT ![c] = TRUE]
    BY <1>2, RebuildOrFinishShape DEF NotifyReadyDependent, depState
  <2>2. \A p \in Op : storedGenerated'[p] <=> storedGenerated[p] \/ p \in {c}
    BY <1>2, <1>a DEF NotifyReadyDependent
  <2> QED
    BY <2>1, <2>2
<1>3. CASE ProcessWorkOrderComplete
  <2>1. Head(inbox).op \in Op /\ UNCHANGED storedGenerated
    BY <1>3, HeadMessage DEF ProcessWorkOrderComplete, opState
  <2>2. \/ doneGeneration[Head(inbox).op] /\ RebuildOrFinish(Head(inbox).op, << >>)
        \/ UNCHANGED finished
    BY <1>3 DEF ProcessWorkOrderComplete, depState
  <2>3. \/ doneGeneration[Head(inbox).op] /\ finished' = [finished EXCEPT ![Head(inbox).op] = TRUE]
        \/ UNCHANGED finished
    BY <2>1, <2>2, RebuildOrFinishShape
  <2> QED
    BY <1>0, <2>1, <2>3
<1>4. CASE ProcessRebuildWorkOrderComplete
  <2>1. Head(inbox).op \in Op /\ UNCHANGED storedGenerated
    BY <1>4, HeadMessage DEF ProcessRebuildWorkOrderComplete, opState
  <2>2. doneGeneration[Head(inbox).op]
    <3>1. inbox # << >> /\ Head(inbox).type = "RebuildComplete"
      BY <1>4 DEF ProcessRebuildWorkOrderComplete, Receive
    <3>2. 1 \in DOMAIN inbox /\ Head(inbox) = inbox[1]
      BY SMTT(30), <3>1 DEF TypeOK
    <3> QED
      BY <2>1, <3>1, <3>2 DEF SchedulingInvariant, RebuildAfterGeneration
  <2>3. \/ finished' = [finished EXCEPT ![Head(inbox).op] = TRUE]
        \/ UNCHANGED finished
    BY <1>4 DEF ProcessRebuildWorkOrderComplete, MarkOperatorFinished, depState
  <2> QED
    BY <1>0, <2>1, <2>2, <2>3
<1>5. CASE ProcessDataPipeline
  BY <1>5, <1>a DEF ProcessDataPipeline, depState
<1>6. CASE \/ \E c \in Op : NotifyBlockedDependent(c)
           \/ ReturnFromMarkFinished
           \/ ProcessNewBlock
           \/ UNCHANGED vars
  BY <1>6 DEF NotifyBlockedDependent, ReturnFromMarkFinished, ProcessNewBlock, vars,
     opState, depState
<1>7. CASE Dispatch
  BY <1>7 DEF Dispatch, DispatchRebuild, DispatchNormal, opState, depState
<1>8. CASE \E w \in Worker : WorkerStep(w)
  BY <1>8 DEF WorkerStep, ReuseBlock, CreateNewBlock, ReturnFullBlock, ReturnPartialBlock,
     RebuildBlock, SendWorkOrderComplete, opState, depState
<1> QED
  BY <1>1, <1>2, <1>3, <1>4, <1>5, <1>6, <1>7, <1>8 DEF Next, Foreman, Terminated

(* A step of the query manager is a step of the abstract schedule. *)
LEMMA StepImplements ==
  ASSUME WellFormedPlan, TypeOK, TypeOK', SchedulingInvariant, BlockingDependenciesFirst',
         DependenciesFinishFirst', [Next]_vars
  PROVE  [Schedule!Next]_<<{o \in Op : storedGenerated[o]}, {o \in Op : finished[o]}>>
<1> DEFINE A == {o \in Op : storedGenerated[o]}
           D == {o \in Op : finished[o]}
<1>1. CASE NothingFinished
  <2>1. PICK T \in SUBSET Op : T = A' \ A
    OBVIOUS
  <2>2. D' = D /\ A' = A \cup T
    BY <1>1, <2>1 DEF NothingFinished
  <2>3. \A o \in T : \A p \in Op : <<p, o>> \in Breaker => p \in D
    BY <2>1, <2>2 DEF BlockingDependenciesFirst, HasWork
  <2>4. Schedule!Start(T)
    BY <2>2, <2>3 DEF Schedule!Start
  <2> QED
    BY <2>4 DEF Schedule!Next
<1>2. ASSUME NEW o \in Op, OneFinished(o) PROVE Schedule!Next
  <2>0. \A p \in Op : finished'[p] <=> finished[p] \/ p = o
    BY <1>2 DEF OneFinished, TypeOK
  <2>1. D' = D \cup {o} /\ A' = A \cup {o}
    BY <1>2, <2>0 DEF OneFinished
  <2>2. \A p \in Op : <<p, o>> \in Link => p \in D
    BY <2>1 DEF DependenciesFinishFirst, Dependencies, WellFormedPlan
  <2>3. Schedule!Finish(o)
    BY <2>1, <2>2 DEF Schedule!Finish
  <2> QED
    BY <2>3 DEF Schedule!Next
<1> QED
  BY <1>1, <1>2, StepShape

(* In a well formed plan the query manager implements the abstract schedule:   *)
(* fetching work orders is a Start, markOperatorFinished() a Finish, and all   *)
(* else - messages, rebuilds, dispatching, the workers - is invisible there.   *)
THEOREM ScheduleImplemented ==
  ASSUME WellFormedPlan
  PROVE  Spec => ImplementsSchedule
<1>1. Init => Schedule!Init
  BY DEF Init, Schedule!Init
<1>2. /\ WellFormedPlan /\ TypeOK /\ TypeOK' /\ SchedulingInvariant
      /\ BlockingDependenciesFirst' /\ DependenciesFinishFirst' /\ [Next]_vars
      => [Schedule!Next]_<<{o \in Op : storedGenerated[o]}, {o \in Op : finished[o]}>>
  BY StepImplements
<1>3. Spec => Init /\ [][Next]_vars
  BY DEF Spec
<1> QED
  BY <1>1, <1>2, <1>3, TypeCorrect, SchedulingCorrect, BlockingFirst, DependenciesFirst, PTL
  DEF ImplementsSchedule, Schedule!Spec
=============================================================================
