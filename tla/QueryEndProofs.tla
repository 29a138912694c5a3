--------------------------- MODULE QueryEndProofs ---------------------------
(* What an operator's end means in a plan whose dependents are visited         *)
(* downstream first (OrderedPlan): no work order, message or block of it is    *)
(* left anywhere, and its consumers have had all its blocks.  The loop of      *)
(* markOperatorFinished() never comes back to an operator that has ended.      *)
EXTENDS QueryManagerProofs, QueryFlowProofs, SequenceCounts

USE ZenonT(60)

(* The laws of counting that QueryFlowProofs rests on hold. *)
LEMMA TypedIsSound == TypeOK => Sound
BY CountingLawsHold DEF Sound

(* Nothing has been scheduled, sent or created when a query begins. *)
LEMMA FlowInit == Init => FlowInvariant
BY TypeInit, SchedulingInit, FlowBegins, TypedIsSound

(* Every step keeps the numbers of work orders, messages and blocks. *)
LEMMA FlowInvariantStep == FlowInvariant /\ [Next]_vars => FlowInvariant'
BY TypeStep, SchedulingStep, FlowGoesOn, CountingLawsHold DEF FlowInvariant, Sound

(* The invariant holds in every reachable state of every plan. *)
THEOREM FlowCorrect == Spec => []FlowInvariant
<1>1. Spec => Init /\ [][Next]_vars
  BY DEF Spec
<1> QED
  BY <1>1, FlowInit, FlowInvariantStep, PTL

(* In every plan queued_workorders_per_op_ counts exactly the normal work      *)
(* orders at the workers and the completions in the inbox.                     *)
THEOREM QueuedIsExact == Spec => []QueuedCounterExact
BY FlowCorrect, QueuedFollows, PTL

(* In every plan an output block has one writer, and none once it has been     *)
(* streamed to the consumers.                                                  *)
THEOREM OneWriter == Spec => []OneWriterPerBlock
BY FlowCorrect, OneWriterFollows, PTL

-----------------------------------------------------------------------------
(* An operator's normal work is over: it waits for rebuilds or has finished. *)
Ended(o) == finished[o] \/ rebuildInitiated[o]

EndInv ==
  \A o \in Op : Ended(o) =>
    normalWorkOrders[o] = << >> /\ queuedWorkOrders[o] = 0 /\ available[o] = << >>

(* num_rebuild_workorders counts the rebuild work orders that wait, are at a   *)
(* worker or whose completion is in the inbox.                                 *)
RebuildInv ==
  \A o \in Op :
    /\ IsFiniteSet(Places(assigned, RebuildOf(o)))
    /\ numRebuildWorkOrders[o]
         = Len(rebuildWorkOrders[o]) + Total(assigned, RebuildOf(o))
             + Count(inbox, MessagesOf("RebuildComplete", o))

FinishInv == \A o \in Op : finished[o] => numRebuildWorkOrders[o] = 0

(* The operators that the constructor has yet to start have had no work, and   *)
(* the dependents that the pending loops have yet to visit have not ended: an  *)
(* inner loop runs for an operator that no outer loop's dependent depends on.  *)
LoopInv ==
  /\ \A o \in toStart : ~storedGenerated[o]
  /\ \A i \in DOMAIN stack : \A c \in stack[i].todo :
       ~Ended(c) /\ \A j \in 1 .. i - 1 : stack[j].op \notin Upstream(c)

NumInv == numFinished = Cardinality({o \in Op : finished[o]})

EndInvariant == FlowInvariant /\ EndInv /\ RebuildInv /\ FinishInv /\ LoopInv /\ NumInv

-----------------------------------------------------------------------------
(* What the invariants say of an operator that has ended. *)

(* The producers an operator reads from are upstream of it. *)
LEMMA UpstreamDependencies ==
  ASSUME NEW c \in Op, NEW p \in Dependencies(c)
  PROVE  p \in Upstream(c)
BY DEF Upstream, Dependencies

(* The producers of an operator upstream are upstream too. *)
LEMMA UpstreamClosed ==
  ASSUME NEW c \in Op, NEW d \in Upstream(c), NEW p \in Dependencies(d)
  PROVE  p \in Upstream(c)
<1>1. p \in Op /\ d \in Op
  BY DEF Upstream, Dependencies
<1>2. ASSUME NEW S \in SUBSET Op, Dependencies(c) \subseteq S,
             \A y \in S : Dependencies(y) \subseteq S
      PROVE  p \in S
  <2>1. d \in S
    BY <1>2 DEF Upstream
  <2>2. QED BY <1>2, <2>1
<1>3. QED BY <1>1, <1>2 DEF Upstream

(* An operator that is done generating has been started and all it depends on  *)
(* has finished.                                                               *)
LEMMA EndedIsLast ==
  ASSUME WellFormedPlan, TypeOK, SchedulingInvariant, NEW o \in Op, Ended(o)
  PROVE  storedGenerated[o] /\ \A p \in Dependencies(o) : finished[p]
<1>1. storedGenerated[o]
  BY DEF Ended, SchedulingInvariant, FinishAfterGeneration, RebuildAfterGeneration,
         GenerationBehindBlocking
<1>2. CASE finished[o]
  BY <1>1, <1>2, DoneMeansFinished
<1>3. CASE rebuildInitiated[o]
  <2>1. doneGeneration[o]
    BY <1>3 DEF SchedulingInvariant, RebuildAfterGeneration
  <2>2. QED BY <1>1, <2>1, GeneratedMeansFinished
<1>4. QED BY <1>2, <1>3 DEF Ended

(* A work order at a worker, or its completion in the inbox: the operator has  *)
(* not ended, or not finished, when it is a rebuild.                           *)
LEMMA WorkIsOpen ==
  ASSUME TypeOK, SchedulingInvariant, QueuedInv, EndInv, RebuildInv, FinishInv
  PROVE  /\ \A w \in Worker : \A i \in DOMAIN assigned[w] :
              IF assigned[w][i].rebuild
              THEN rebuildInitiated[assigned[w][i].op] /\ ~finished[assigned[w][i].op]
              ELSE ~Ended(assigned[w][i].op)
         /\ \A i \in DOMAIN inbox :
              /\ inbox[i].type = "Complete" => ~Ended(inbox[i].op)
              /\ inbox[i].type = "RebuildComplete" =>
                   rebuildInitiated[inbox[i].op] /\ ~finished[inbox[i].op]
         /\ \A o \in Op : finished[o] => rebuildWorkOrders[o] = << >>
<1>0. /\ assigned \in [Worker -> Seq(WorkOrder)] /\ inbox \in Seq(Message)
      /\ rebuildWorkOrders \in [Op -> Seq(Block)]
  BY DEF TypeOK
<1>1. ASSUME NEW o \in Op, finished[o]
      PROVE  /\ rebuildWorkOrders[o] = << >>
             /\ \A w \in Worker : \A i \in DOMAIN assigned[w] :
                  assigned[w][i] \notin RebuildOf(o)
             /\ \A i \in DOMAIN inbox : inbox[i] \notin MessagesOf("RebuildComplete", o)
  <2> DEFINE X == RebuildOf(o)
             Y == MessagesOf("RebuildComplete", o)
  <2>1. IsFiniteSet(Places(assigned, X)) /\ numRebuildWorkOrders[o] = 0
        /\ numRebuildWorkOrders[o] = Len(rebuildWorkOrders[o]) + Total(assigned, X) + Count(inbox, Y)
    BY <1>1 DEF RebuildInv, FinishInv
  <2> HIDE DEF X, Y
  <2>2. rebuildWorkOrders[o] \in Seq(Block)
    BY <1>0
  <2>3. Len(rebuildWorkOrders[o]) \in Nat /\ Total(assigned, X) \in Nat /\ Count(inbox, Y) \in Nat
    BY SMTT(30), <1>0, <2>1, <2>2, TotalZero, CountType
  <2>4. Len(rebuildWorkOrders[o]) = 0 /\ Total(assigned, X) = 0 /\ Count(inbox, Y) = 0
    BY ONLY SMTT(30), <2>1, <2>3
  <2>5. rebuildWorkOrders[o] = << >>
    BY SMTT(30), <2>2, <2>4
  <2>6. \A w \in Worker : \A i \in DOMAIN assigned[w] : assigned[w][i] \notin X
    BY <1>0, <2>1, <2>4, TotalZero
  <2>7. \A i \in DOMAIN inbox : inbox[i] \notin Y
    BY <1>0, <2>4, CountType
  <2>8. QED BY <2>5, <2>6, <2>7 DEF X, Y
<1>2. ASSUME NEW o \in Op, Ended(o)
      PROVE  /\ \A w \in Worker : \A i \in DOMAIN assigned[w] :
                  assigned[w][i].op = o => assigned[w][i].rebuild
             /\ \A i \in DOMAIN inbox : inbox[i].op = o => inbox[i].type # "Complete"
  <2>1. queuedWorkOrders[o] = 0
    BY <1>2 DEF EndInv
  <2>2. QED BY <2>1, NothingQueued, TypedIsSound
<1>3. ASSUME NEW w \in Worker, NEW i \in DOMAIN assigned[w]
      PROVE  IF assigned[w][i].rebuild
             THEN rebuildInitiated[assigned[w][i].op] /\ ~finished[assigned[w][i].op]
             ELSE ~Ended(assigned[w][i].op)
  <2>1. assigned[w] \in Seq(WorkOrder)
    BY <1>0
  <2>2. assigned[w][i] \in WorkOrder
    BY SMTT(30), <2>1
  <2>3. assigned[w][i].op \in Op
    BY <2>2 DEF WorkOrder
  <2>4. CASE assigned[w][i].rebuild
    <3>1. assigned[w][i] \in RebuildOf(assigned[w][i].op)
      BY <2>2, <2>4 DEF RebuildOf
    <3>2. ~finished[assigned[w][i].op]
      BY <1>1, <2>3, <3>1
    <3>3. rebuildInitiated[assigned[w][i].op]
      BY <2>4 DEF SchedulingInvariant, RebuildAfterGeneration
    <3>4. QED BY <2>4, <3>2, <3>3
  <2>5. CASE ~assigned[w][i].rebuild
    BY <1>2, <2>3, <2>5
  <2>6. QED BY <2>4, <2>5
<1>4. ASSUME NEW i \in DOMAIN inbox
      PROVE  /\ inbox[i].type = "Complete" => ~Ended(inbox[i].op)
             /\ inbox[i].type = "RebuildComplete" =>
                  rebuildInitiated[inbox[i].op] /\ ~finished[inbox[i].op]
  <2>1. inbox[i] \in Message
    BY SMTT(30), <1>0
  <2>2. inbox[i].op \in Op
    BY <2>1 DEF Message
  <2>3. inbox[i].type = "RebuildComplete" => inbox[i] \in MessagesOf("RebuildComplete", inbox[i].op)
    BY <2>1 DEF MessagesOf
  <2>4. inbox[i].type = "RebuildComplete" => rebuildInitiated[inbox[i].op]
    BY DEF SchedulingInvariant, RebuildAfterGeneration
  <2>5. QED BY <1>1, <1>2, <2>2, <2>3, <2>4
<1>5. QED BY <1>1, <1>3, <1>4

(* Once an operator has finished, nobody runs work of it or speaks of it. *)
LEMMA FinishedIsSilent ==
  ASSUME TypeOK, SchedulingInvariant, QueuedInv, FollowInv, EndInv, RebuildInv, FinishInv,
         NEW o \in Op, finished[o]
  PROVE  /\ \A w \in Worker : \A i \in DOMAIN assigned[w] : assigned[w][i].op # o
         /\ \A i \in DOMAIN inbox : inbox[i].op # o
<1>1. \A w \in Worker : \A i \in DOMAIN assigned[w] : assigned[w][i].op # o
  BY WorkIsOpen DEF Ended
<1>2. ASSUME NEW i \in DOMAIN inbox, inbox[i].type \notin BlockMessage PROVE inbox[i].op # o
  <2>1. inbox[i] \in Message
    BY SMTT(30) DEF TypeOK
  <2>2. inbox[i].type \in {"Complete", "RebuildComplete"}
    BY <1>2, <2>1 DEF Message, BlockMessage
  <2>3. QED BY <2>2, WorkIsOpen DEF Ended
<1>3. ASSUME NEW i \in DOMAIN inbox, inbox[i].type \in BlockMessage PROVE inbox[i].op # o
  <2>1. Followed(i)
    BY <1>3 DEF FollowInv
  <2>2. \A w \in Worker : assigned[w] # << >> => Head(assigned[w]).op # o
    BY <1>1, RunningOrder, TypedIsSound
  <2>3. QED BY <1>2, <2>1, <2>2 DEF Followed
<1>4. QED BY <1>1, <1>2, <1>3

(* An operator that has not begun to rebuild has no rebuild work orders. *)
LEMMA NoRebuilds ==
  ASSUME TypeOK, SchedulingInvariant, RebuildInv, NEW o \in Op, ~rebuildInitiated[o]
  PROVE  /\ rebuildWorkOrders[o] = << >> /\ Total(assigned, RebuildOf(o)) = 0
         /\ Count(inbox, MessagesOf("RebuildComplete", o)) = 0 /\ numRebuildWorkOrders[o] = 0
<1>0. assigned \in [Worker -> Seq(WorkOrder)] /\ inbox \in Seq(Message)
  BY DEF TypeOK
<1> DEFINE X == RebuildOf(o)
           Y == MessagesOf("RebuildComplete", o)
<1>1. rebuildWorkOrders[o] = << >>
  BY DEF SchedulingInvariant, RebuildAfterGeneration
<1>2. \A w \in Worker : \A i \in DOMAIN assigned[w] : assigned[w][i] \notin X
  BY DEF SchedulingInvariant, RebuildAfterGeneration, RebuildOf
<1>3. \A i \in DOMAIN inbox : inbox[i] \notin Y
  BY DEF SchedulingInvariant, RebuildAfterGeneration, MessagesOf
<1>4. IsFiniteSet(Places(assigned, X))
      /\ numRebuildWorkOrders[o] = Len(rebuildWorkOrders[o]) + Total(assigned, X) + Count(inbox, Y)
  BY DEF RebuildInv
<1> HIDE DEF X, Y
<1>5. Total(assigned, X) = 0 /\ Count(inbox, Y) = 0 /\ Len(rebuildWorkOrders[o]) = 0
  BY <1>0, <1>1, <1>2, <1>3, <1>4, TotalZero, CountType
<1>6. numRebuildWorkOrders[o] = 0
  BY ONLY SMTT(30), <1>4, <1>5
<1>7. QED BY <1>1, <1>5, <1>6 DEF X, Y

-----------------------------------------------------------------------------
(* An operator that has ended gets no more work. *)

(* An operator's normal execution ends. *)
LEMMA RebuildOrFinishEnds ==
  ASSUME TypeOK, ListInv, NEW o \in Op, NEW callers, RebuildOrFinish(o, callers)
  PROVE  /\ \A p \in Op : Ended(p)' <=> (Ended(p) \/ p = o)
         /\ \A p \in Op : available'[p] = IF p = o THEN << >> ELSE available[p]
<1>0. /\ finished \in [Op -> BOOLEAN] /\ rebuildInitiated \in [Op -> BOOLEAN]
      /\ available \in [Op -> Seq(Block)]
  BY DEF TypeOK
<1>1. CASE InitiateRebuild(o)
  <2>1. /\ rebuildInitiated'[o] /\ \A p \in Op \ {o} : rebuildInitiated'[p] = rebuildInitiated[p]
        /\ available'[o] = << >> /\ \A p \in Op \ {o} : available'[p] = available[p]
    BY <1>0, <1>1 DEF InitiateRebuild
  <2>2. \A p \in Op \ {o} : finished'[p] = finished[p]
    BY <1>0 DEF RebuildOrFinish, depState, MarkOperatorFinished
  <2>3. QED BY <2>1, <2>2 DEF Ended
<1>2. CASE ~InitiateRebuild(o)
  <2>1. MarkOperatorFinished(o, callers) /\ UNCHANGED rebuilds /\ o \notin Destination
    BY <1>2 DEF RebuildOrFinish
  <2>2. finished'[o] /\ \A p \in Op \ {o} : finished'[p] = finished[p]
    BY <1>0, <2>1 DEF MarkOperatorFinished
  <2>3. available[o] = << >>
    BY <2>1 DEF ListInv
  <2>4. QED BY <2>1, <2>2, <2>3 DEF Ended, rebuilds
<1>3. QED BY <1>1, <1>2

(* markOperatorFinished() ends one operator. *)
LEMMA MarkEnds ==
  ASSUME TypeOK, NEW o \in Op, NEW callers, MarkOperatorFinished(o, callers),
         UNCHANGED rebuildInitiated
  PROVE  \A p \in Op : Ended(p)' <=> (Ended(p) \/ p = o)
<1>1. finished'[o] /\ \A p \in Op \ {o} : finished'[p] = finished[p]
  BY DEF TypeOK, MarkOperatorFinished
<1>2. QED BY <1>1 DEF Ended

(* Fetching changes the work orders of the operators that are asked. *)
LEMMA FetchedNormal ==
  ASSUME TypeOK, NEW S, NEW feds, NEW dones, Fetch(S, feds, dones), NEW o \in Op,
         o \in S => NewWorkOrders(o, feds[o]) = << >>
  PROVE  normalWorkOrders'[o] = normalWorkOrders[o]
<1>1. normalWorkOrders[o] \in Seq(Block)
  BY DEF TypeOK
<1>2. normalWorkOrders[o] \o << >> = normalWorkOrders[o]
  BY SMTT(30), <1>1
<1>3. QED BY <1>2 DEF Fetch

(* What is left of ended operators depends on their work and inputs only. *)
LEMMA EndSame ==
  ASSUME EndInv, UNCHANGED <<finished, rebuildInitiated, normalWorkOrders, queuedWorkOrders, available>>
  PROVE  EndInv'
BY DEF EndInv, Ended

(* The operators that no one has asked for work have not ended. *)
LEMMA StartedFresh ==
  ASSUME WellFormedPlan, FlowInvariant, LoopInv, NEW o \in toStart
  PROVE  /\ o \in Op /\ ~Ended(o) /\ normalWorkOrders[o] = << >> /\ queuedWorkOrders[o] = 0
         /\ available[o] = << >>
<1>1. o \in Op /\ ~storedGenerated[o]
  BY DEF FlowInvariant, Sound, TypeOK, LoopInv
<1>2. normalWorkOrders[o] = << >> /\ queuedWorkOrders[o] = 0 /\ created[o] = 0
  BY <1>1 DEF FlowInvariant, Sound, StartInv
<1>3. ~Ended(o)
  BY <1>1, EndedIsLast DEF FlowInvariant, Sound
<1>4. Made(o, created) = {} /\ available[o] \in Seq(Block)
  BY SMTT(30), <1>1, <1>2 DEF Made, FlowInvariant, Sound, TypeOK
<1>5. DOMAIN available[o] = {}
  BY <1>1, <1>4 DEF FlowInvariant, Sound, PlaceInv, ListInv
<1>6. available[o] = << >>
  <2>1. Len(available[o]) \in Nat /\ DOMAIN available[o] = 1 .. Len(available[o])
    BY SMTT(30), <1>4
  <2>2. Len(available[o]) = 0
    <3>1. Len(available[o]) # 0 => 1 \in 1 .. Len(available[o])
      BY SMTT(30), <2>1
    <3>2. QED BY <1>5, <2>1, <3>1
  <2>3. QED BY SMTT(30), <1>4, <2>2
<1>7. QED BY <1>1, <1>2, <1>3, <1>6

(* No step gives work to an operator that has ended. *)
LEMMA EndStep ==
  ASSUME OrderedPlan, EndInvariant, [Next]_vars
  PROVE  EndInv'
<1>0. /\ WellFormedPlan /\ FlowInvariant /\ TypeOK /\ SchedulingInvariant /\ QueuedInv /\ ListInv
      /\ EndInv /\ RebuildInv /\ FinishInv /\ LoopInv /\ FollowInv
      /\ queuedWorkOrders \in [Op -> Int] /\ available \in [Op -> Seq(Block)]
      /\ normalWorkOrders \in [Op -> Seq(Block)]
  BY DEF OrderedPlan, EndInvariant, FlowInvariant, Sound, PlaceInv, TypeOK
<1>1. ASSUME NEW o \in Op, StartOperator(o) PROVE EndInv'
  <2>1. /\ o \in toStart /\ Fetch({o}, fed, doneFed) /\ queuedWorkOrders' = queuedWorkOrders
        /\ UNCHANGED rebuilds
    BY <1>1 DEF StartOperator
  <2>2. ~Ended(o) /\ normalWorkOrders[o] = << >> /\ queuedWorkOrders[o] = 0 /\ available[o] = << >>
    BY <1>0, <2>1, StartedFresh
  <2>3. \A p \in Op \ {o} : normalWorkOrders'[p] = normalWorkOrders[p]
    BY <1>0, <2>1, FetchedNormal
  <2>4. CASE NewWorkOrders(o, fed[o]) # << >>
    <3>1. \A p \in Op : Ended(p)' <=> Ended(p)
      BY <1>1, <2>1, <2>4 DEF StartOperator, depState, rebuilds, Ended
    <3>2. QED BY <1>0, <2>1, <2>2, <2>3, <3>1 DEF EndInv, rebuilds
  <2>5. CASE NewWorkOrders(o, fed[o]) = << >>
    <3>1. MarkOperatorFinished(o, << >>) /\ UNCHANGED <<rebuildInitiated, available>>
      BY <1>1, <2>1, <2>5 DEF StartOperator, rebuilds
    <3>2. \A p \in Op : Ended(p)' <=> (Ended(p) \/ p = o)
      BY <1>0, <3>1, MarkEnds
    <3>3. normalWorkOrders'[o] = normalWorkOrders[o]
      BY <1>0, <2>1, <2>5, FetchedNormal
    <3>4. QED BY <1>0, <2>1, <2>2, <2>3, <3>1, <3>2, <3>3 DEF EndInv
  <2>6. QED BY <2>4, <2>5
<1>2. ASSUME NEW c \in Op, NotifyBlockedDependent(c) PROVE EndInv'
  BY <1>0, <1>2, EndSame DEF NotifyBlockedDependent, depState, queues, rebuilds
<1>3. ASSUME NEW c \in Op, NotifyReadyDependent(c) PROVE EndInv'
  <2>1. /\ Fetch({c}, fed, DoneFedBy(Head(stack).op, c)) /\ queuedWorkOrders' = queuedWorkOrders
        /\ stack # << >> /\ c \in Head(stack).todo
    BY <1>3 DEF NotifyReadyDependent, NextDependent
  <2>2. ~Ended(c)
    <3>1. stack \in Seq(Frame)
      BY <1>0 DEF TypeOK
    <3>2. 1 \in DOMAIN stack /\ stack[1] = Head(stack)
      BY SMTT(30), <2>1, <3>1
    <3>3. QED BY <1>0, <2>1, <3>2 DEF LoopInv
  <2>3. \A p \in Op \ {c} : normalWorkOrders'[p] = normalWorkOrders[p]
    BY <1>0, <2>1, FetchedNormal
  <2>4. CASE UNCHANGED <<depState, rebuilds>>
    BY <1>0, <2>1, <2>2, <2>3, <2>4 DEF EndInv, Ended, depState, rebuilds
  <2>5. CASE ~UNCHANGED <<depState, rebuilds>>
    <3>1. /\ RebuildOrFinish(c, CallersAfter(c)) /\ NewWorkOrders(c, fed[c]) = << >>
          /\ normalWorkOrders[c] = << >> /\ queuedWorkOrders[c] = 0
      BY <1>3, <2>5 DEF NotifyReadyDependent
    <3>2. /\ \A p \in Op : Ended(p)' <=> (Ended(p) \/ p = c)
          /\ \A p \in Op : available'[p] = IF p = c THEN << >> ELSE available[p]
      BY <1>0, <3>1, RebuildOrFinishEnds
    <3>3. normalWorkOrders'[c] = normalWorkOrders[c]
      BY <1>0, <2>1, <3>1, FetchedNormal
    <3>4. QED BY <1>0, <2>1, <2>3, <3>1, <3>2, <3>3 DEF EndInv
  <2>6. QED BY <2>4, <2>5
<1>4. ASSUME ReturnFromMarkFinished \/ ProcessNewBlock PROVE EndInv'
  BY <1>0, <1>4, EndSame DEF ReturnFromMarkFinished, ProcessNewBlock, depState, queues, rebuilds
<1>5. ASSUME ProcessWorkOrderComplete PROVE EndInv'
  <2> DEFINE o == Head(inbox).op
  <2>1. o \in Op /\ 1 \in DOMAIN inbox /\ inbox[1].op = o /\ inbox[1].type = "Complete"
    <3>1. inbox \in Seq(Message) /\ inbox # << >> /\ Head(inbox).type = "Complete"
      BY <1>0, <1>5 DEF ProcessWorkOrderComplete, Receive, TypeOK
    <3>2. Head(inbox) \in Message /\ 1 \in DOMAIN inbox /\ inbox[1] = Head(inbox)
      BY SMTT(30), <3>1
    <3>3. QED BY <3>1, <3>2 DEF Message
  <2>2. ~Ended(o)
    BY <1>0, <2>1, WorkIsOpen
  <2>3. /\ queuedWorkOrders' = [queuedWorkOrders EXCEPT ![o] = @ - 1]
        /\ normalWorkOrders' = normalWorkOrders
    BY <1>5 DEF ProcessWorkOrderComplete
  <2>4. \A p \in Op \ {o} : queuedWorkOrders'[p] = queuedWorkOrders[p]
    BY <1>0, <2>3
  <2>5. CASE UNCHANGED <<depState, rebuilds>>
    BY <1>0, <2>2, <2>3, <2>4, <2>5 DEF EndInv, Ended, depState, rebuilds
  <2>6. CASE ~UNCHANGED <<depState, rebuilds>>
    <3>1. RebuildOrFinish(o, << >>) /\ normalWorkOrders[o] = << >> /\ queuedWorkOrders'[o] = 0
      BY <1>5, <2>6 DEF ProcessWorkOrderComplete
    <3> HIDE DEF o
    <3>2. /\ \A p \in Op : Ended(p)' <=> (Ended(p) \/ p = o)
          /\ \A p \in Op : available'[p] = IF p = o THEN << >> ELSE available[p]
      BY <1>0, <2>1, <3>1, RebuildOrFinishEnds
    <3>3. QED BY <1>0, <2>3, <2>4, <3>1, <3>2 DEF EndInv
  <2>7. QED BY <2>5, <2>6
<1>6. ASSUME ProcessRebuildWorkOrderComplete PROVE EndInv'
  <2> DEFINE o == Head(inbox).op
  <2>1. o \in Op /\ 1 \in DOMAIN inbox /\ inbox[1].op = o /\ inbox[1].type = "RebuildComplete"
    <3>1. inbox \in Seq(Message) /\ inbox # << >> /\ Head(inbox).type = "RebuildComplete"
      BY <1>0, <1>6 DEF ProcessRebuildWorkOrderComplete, Receive, TypeOK
    <3>2. Head(inbox) \in Message /\ 1 \in DOMAIN inbox /\ inbox[1] = Head(inbox)
      BY SMTT(30), <3>1
    <3>3. QED BY <3>1, <3>2 DEF Message
  <2>2. Ended(o)
    BY <1>0, <2>1, WorkIsOpen DEF Ended
  <2>3. UNCHANGED <<normalWorkOrders, queuedWorkOrders, available, rebuildInitiated>>
    BY <1>6 DEF ProcessRebuildWorkOrderComplete, queues
  <2>4. UNCHANGED depState \/ MarkOperatorFinished(o, << >>)
    BY <1>6 DEF ProcessRebuildWorkOrderComplete
  <2> HIDE DEF o
  <2>5. \A p \in Op : Ended(p)' <=> Ended(p)
    BY <1>0, <2>1, <2>2, <2>3, <2>4, MarkEnds DEF Ended, depState
  <2>6. QED BY <1>0, <2>3, <2>5 DEF EndInv
<1>7. ASSUME ProcessDataPipeline PROVE EndInv'
  <2>1. PICK m \in Message, S \in SUBSET Op :
             /\ 1 \in DOMAIN inbox /\ inbox[1] = m /\ S \subseteq OutputConsumers(m.op)
             /\ \E feds, dones : Fetch(S, feds, dones)
    <3>1. inbox \in Seq(Message) /\ inbox # << >>
      BY <1>0, <1>7 DEF ProcessDataPipeline, Receive, TypeOK
    <3>2. Head(inbox) \in Message /\ 1 \in DOMAIN inbox /\ inbox[1] = Head(inbox)
      BY SMTT(30), <3>1
    <3>3. OutputConsumers(Head(inbox).op) \subseteq Op
      BY DEF OutputConsumers
    <3>4. QED BY <1>7, <3>2, <3>3 DEF ProcessDataPipeline
  <2>2. UNCHANGED <<finished, rebuildInitiated, queuedWorkOrders, available>>
    BY <1>7 DEF ProcessDataPipeline, depState, rebuilds
  <2>3. ASSUME NEW c \in Op, Ended(c) PROVE c \notin S
    <3>1. m.op \in Op
      BY <2>1 DEF Message
    <3>2. SUFFICES ASSUME c \in S PROVE FALSE
      OBVIOUS
    <3>3. m.op \in Dependencies(c)
      BY <2>1, <3>1, <3>2 DEF OutputConsumers, Dependencies
    <3>4. finished[m.op]
      BY <1>0, <2>3, <3>3, EndedIsLast
    <3>5. QED BY <1>0, <2>1, <3>1, <3>4, FinishedIsSilent
  <2>4. \A c \in Op : Ended(c) => normalWorkOrders'[c] = normalWorkOrders[c]
    BY <1>0, <2>1, <2>3, FetchedNormal
  <2>5. QED BY <1>0, <2>2, <2>4 DEF EndInv, Ended
<1>8. ASSUME NEW o \in Op, NEW w \in Worker, DispatchRebuild(o, w) PROVE EndInv'
  BY <1>0, <1>8, EndSame DEF DispatchRebuild, depState, queues
<1>9. ASSUME NEW o \in Op, NEW w \in Worker, DispatchNormal(o, w) PROVE EndInv'
  <2>1. /\ normalWorkOrders[o] # << >>
        /\ normalWorkOrders' = [normalWorkOrders EXCEPT ![o] = Tail(@)]
        /\ queuedWorkOrders' = [queuedWorkOrders EXCEPT ![o] = @ + 1]
        /\ UNCHANGED <<finished, rebuildInitiated, available>>
    BY <1>9 DEF DispatchNormal, depState, rebuilds
  <2>2. ~Ended(o)
    BY <1>0, <2>1 DEF EndInv
  <2>3. QED BY <1>0, <2>1, <2>2 DEF EndInv, Ended
<1>10. ASSUME NEW w \in Worker, ReuseBlock(w) \/ ReturnPartialBlock(w) PROVE EndInv'
  <2> DEFINE o == Head(assigned[w]).op
  <2>1. assigned[w] # << >> /\ ~Head(assigned[w]).rebuild
    BY <1>10 DEF ReuseBlock, ReturnPartialBlock, Running
  <2>2. o \in Op /\ 1 \in DOMAIN assigned[w] /\ assigned[w][1] = Head(assigned[w])
    BY <1>0, <2>1, RunningOrder, TypedIsSound
  <2>3. ~Ended(o)
    BY <1>0, <2>1, <2>2, WorkIsOpen
  <2>4. UNCHANGED <<finished, rebuildInitiated, normalWorkOrders, queuedWorkOrders>>
    BY <1>10 DEF ReuseBlock, ReturnPartialBlock, depState, queues
  <2>5. \A p \in Op \ {o} : available'[p] = available[p]
    BY <1>0, <1>10 DEF ReuseBlock, ReturnPartialBlock
  <2> HIDE DEF o
  <2>6. QED BY <1>0, <2>3, <2>4, <2>5 DEF EndInv, Ended
<1>11. ASSUME NEW w \in Worker, CreateNewBlock(w) \/ ReturnFullBlock(w) \/ RebuildBlock(w)
                                  \/ SendWorkOrderComplete(w)
       PROVE  EndInv'
  BY <1>0, <1>11, EndSame DEF CreateNewBlock, ReturnFullBlock, RebuildBlock, SendWorkOrderComplete,
                               depState, queues, rebuilds
<1>12. ASSUME UNCHANGED vars PROVE EndInv'
  BY <1>0, <1>12, EndSame DEF vars, depState, queues, rebuilds
<1>13. QED
  BY <1>1, <1>2, <1>3, <1>4, <1>5, <1>6, <1>7, <1>8, <1>9, <1>10, <1>11, <1>12
  DEF Next, Foreman, Dispatch, WorkerStep, Terminated

-----------------------------------------------------------------------------
(* The counter of rebuild work orders. *)

(* The rebuild count depends on rebuild work orders and completions only. *)
LEMMA RebuildSame ==
  ASSUME RebuildInv, UNCHANGED <<numRebuildWorkOrders, rebuildWorkOrders, assigned>>,
         \A o \in Op : Count(inbox', MessagesOf("RebuildComplete", o))
                         = Count(inbox, MessagesOf("RebuildComplete", o))
  PROVE  RebuildInv'
BY DEF RebuildInv

(* initiateRebuild() of an operator that has not begun to rebuild. *)
LEMMA InitiateCounted ==
  ASSUME TypeOK, SchedulingInvariant, RebuildInv, NEW o \in Op, ~rebuildInitiated[o],
         InitiateRebuild(o), UNCHANGED assigned,
         \A p \in Op : Count(inbox', MessagesOf("RebuildComplete", p))
                         = Count(inbox, MessagesOf("RebuildComplete", p))
  PROVE  RebuildInv'
<1>1. /\ rebuildWorkOrders \in [Op -> Seq(Block)] /\ available[o] \in Seq(Block)
      /\ numRebuildWorkOrders \in [Op -> Int]
  BY DEF TypeOK
<1>2. /\ rebuildWorkOrders[o] = << >> /\ Total(assigned, RebuildOf(o)) = 0
      /\ Count(inbox, MessagesOf("RebuildComplete", o)) = 0
  BY NoRebuilds
<1>3. /\ rebuildWorkOrders'[o] = rebuildWorkOrders[o] \o available[o]
      /\ numRebuildWorkOrders'[o] = Len(available[o])
      /\ \A p \in Op \ {o} : /\ rebuildWorkOrders'[p] = rebuildWorkOrders[p]
                              /\ numRebuildWorkOrders'[p] = numRebuildWorkOrders[p]
  BY <1>1 DEF InitiateRebuild
<1>4. << >> \o available[o] = available[o] /\ Len(available[o]) \in Nat
  BY SMTT(30), <1>1
<1>5. numRebuildWorkOrders'[o] = Len(rebuildWorkOrders'[o]) /\ Len(rebuildWorkOrders'[o]) \in Nat
  BY <1>2, <1>3, <1>4
<1>6. ASSUME NEW p \in Op
      PROVE  /\ IsFiniteSet(Places(assigned', RebuildOf(p)))
             /\ numRebuildWorkOrders'[p]
                  = Len(rebuildWorkOrders'[p]) + Total(assigned', RebuildOf(p))
                      + Count(inbox', MessagesOf("RebuildComplete", p))
  <2>1. CASE p = o
    BY SMTT(30), <1>2, <1>5, <2>1 DEF RebuildInv
  <2>2. CASE p # o
    BY <1>3, <2>2 DEF RebuildInv
  <2>3. QED BY <2>1, <2>2
<1>7. QED BY <1>6 DEF RebuildInv

(* The rebuild work orders are counted at the end of normal work. *)
LEMMA RebuildOrFinishCounted ==
  ASSUME TypeOK, SchedulingInvariant, RebuildInv, NEW o \in Op, ~rebuildInitiated[o],
         NEW callers, RebuildOrFinish(o, callers), UNCHANGED assigned,
         \A p \in Op : Count(inbox', MessagesOf("RebuildComplete", p))
                         = Count(inbox, MessagesOf("RebuildComplete", p))
  PROVE  RebuildInv'
<1>1. InitiateRebuild(o) \/ UNCHANGED rebuilds
  BY DEF RebuildOrFinish
<1>2. QED BY <1>1, InitiateCounted, RebuildSame DEF rebuilds

(* The rebuild count stays the number of rebuild work orders under way. *)
LEMMA RebuildStep ==
  ASSUME OrderedPlan, EndInvariant, [Next]_vars
  PROVE  RebuildInv'
<1>0. /\ TypeOK /\ SchedulingInvariant /\ QueuedInv /\ EndInv /\ RebuildInv /\ FinishInv /\ LoopInv
      /\ rebuildWorkOrders \in [Op -> Seq(Block)] /\ numRebuildWorkOrders \in [Op -> Int]
      /\ inbox \in Seq(Message) /\ NoBlock \in Block
  BY DEF EndInvariant, FlowInvariant, Sound, TypeOK, NoBlock, Block
<1>a. \A X : Count(inbox, X) \in Nat
  BY <1>0, CountType
<1>1. ASSUME UNCHANGED <<numRebuildWorkOrders, rebuildWorkOrders, assigned, inbox>> PROVE RebuildInv'
  BY <1>0, <1>1, RebuildSame
<1>2. ASSUME NEW o \in Op, StartOperator(o) \/ NotifyBlockedDependent(o) PROVE RebuildInv'
  BY <1>1, <1>2 DEF StartOperator, NotifyBlockedDependent, rebuilds, workers
<1>3. ASSUME NEW c \in Op, NotifyReadyDependent(c) PROVE RebuildInv'
  <2>1. UNCHANGED <<assigned, inbox>> /\ stack # << >> /\ c \in Head(stack).todo
    BY <1>3 DEF NotifyReadyDependent, NextDependent, workers
  <2>2. ~rebuildInitiated[c]
    <3>1. stack \in Seq(Frame)
      BY <1>0 DEF TypeOK
    <3>2. 1 \in DOMAIN stack /\ stack[1] = Head(stack)
      BY SMTT(30), <2>1, <3>1
    <3>3. QED BY <1>0, <2>1, <3>2 DEF LoopInv, Ended
  <2>3. UNCHANGED rebuilds \/ RebuildOrFinish(c, CallersAfter(c))
    BY <1>3 DEF NotifyReadyDependent
  <2>4. QED BY <1>0, <1>1, <2>1, <2>2, <2>3, RebuildOrFinishCounted DEF rebuilds
<1>4. ASSUME ReturnFromMarkFinished PROVE RebuildInv'
  BY <1>1, <1>4 DEF ReturnFromMarkFinished, rebuilds, workers
<1>5. ASSUME ProcessWorkOrderComplete PROVE RebuildInv'
  <2>1. Receive("Complete") /\ assigned' = assigned
    BY <1>5 DEF ProcessWorkOrderComplete, workers
  <2>2. PICK m \in Message : 1 \in DOMAIN inbox /\ inbox[1] = m /\ m = Head(inbox) /\ m.type = "Complete"
    BY SMTT(30), <1>0, <2>1 DEF Receive
  <2>3. m.op \in Op
    BY <2>2 DEF Message
  <2>4. ~rebuildInitiated[m.op]
    BY <1>0, <2>2, <2>3, WorkIsOpen DEF Ended
  <2>5. \A o \in Op : Count(inbox', MessagesOf("RebuildComplete", o))
                        = Count(inbox, MessagesOf("RebuildComplete", o))
    BY SMTT(30), <1>0, <2>1, OtherReceived, TypedIsSound
  <2>6. UNCHANGED rebuilds \/ RebuildOrFinish(m.op, << >>)
    BY <1>5, <2>2 DEF ProcessWorkOrderComplete
  <2>7. QED BY <1>0, <2>1, <2>3, <2>4, <2>5, <2>6, RebuildOrFinishCounted, RebuildSame DEF rebuilds
<1>6. ASSUME ProcessRebuildWorkOrderComplete PROVE RebuildInv'
  <2>1. /\ Receive("RebuildComplete") /\ UNCHANGED <<assigned, rebuildWorkOrders>>
        /\ numRebuildWorkOrders' = [numRebuildWorkOrders EXCEPT ![Head(inbox).op] = @ - 1]
    BY <1>6 DEF ProcessRebuildWorkOrderComplete, workers
  <2>2. PICK m \in Message : m = Head(inbox) /\ m.type = "RebuildComplete"
    BY SMTT(30), <1>0, <2>1 DEF Receive
  <2>3. m.op \in Op
    BY <2>2 DEF Message
  <2>4. ASSUME NEW o \in Op
        PROVE  /\ IsFiniteSet(Places(assigned', RebuildOf(o)))
               /\ numRebuildWorkOrders'[o]
                    = Len(rebuildWorkOrders'[o]) + Total(assigned', RebuildOf(o))
                        + Count(inbox', MessagesOf("RebuildComplete", o))
    <3> DEFINE X == MessagesOf("RebuildComplete", o)
               n == numRebuildWorkOrders[o]
               k == numRebuildWorkOrders'[o]
               t == Total(assigned, RebuildOf(o))
               l == Len(rebuildWorkOrders[o])
    <3>1. m \in X <=> o = m.op
      BY <2>2 DEF MessagesOf
    <3>2. One(m, X) = IF o = m.op THEN 1 ELSE 0
      BY <3>1 DEF One
    <3>3. /\ Count(inbox, X) \in Nat /\ Count(inbox', X) \in Nat
          /\ Count(inbox, X) = Count(inbox', X) + One(m, X)
      BY <1>0, <2>1, <2>2, ReceivedCount, TypedIsSound
    <3>4. IsFiniteSet(Places(assigned, RebuildOf(o))) /\ n = l + t + Count(inbox, X)
      BY <1>0 DEF RebuildInv
    <3>5. t \in Nat /\ l \in Nat
      BY SMTT(30), <1>0, <3>4, FS_CardinalityType DEF Total
    <3>6. k = n - IF o = m.op THEN 1 ELSE 0
      <4>1. CASE o = m.op
        BY <1>0, <2>1, <2>2, <4>1
      <4>2. CASE o # m.op
        BY SMTT(30), <1>0, <2>1, <2>2, <4>2
      <4>3. QED BY <4>1, <4>2
    <3> HIDE DEF X, n, k, t, l
    <3>7. k = l + t + Count(inbox', X)
      BY ONLY SMTT(30), <3>2, <3>3, <3>4, <3>5, <3>6
    <3>8. QED BY <2>1, <3>4, <3>7 DEF X, n, k, t, l
  <2>5. QED BY <2>4 DEF RebuildInv
<1>7. ASSUME ProcessDataPipeline PROVE RebuildInv'
  BY SMTT(30), <1>0, <1>7, OtherReceived, TypedIsSound, RebuildSame DEF ProcessDataPipeline, rebuilds, workers
<1>8. ASSUME ProcessNewBlock PROVE RebuildInv'
  BY SMTT(30), <1>0, <1>8, OtherReceived, TypedIsSound, RebuildSame DEF ProcessNewBlock, rebuilds, workers
<1>9. ASSUME NEW o \in Op, NEW w \in Worker, DispatchRebuild(o, w) PROVE RebuildInv'
  <2> DEFINE x == [op |-> o, rebuild |-> TRUE, block |-> Head(rebuildWorkOrders[o])]
  <2>1. rebuildWorkOrders[o] \in Seq(Block) /\ rebuildWorkOrders[o] # << >>
    BY <1>0, <1>9 DEF DispatchRebuild
  <2>2. x \in WorkOrder /\ \A p : x \in RebuildOf(p) <=> p = o
    BY SMTT(30), <2>1 DEF WorkOrder, RebuildOf
  <2>3. /\ assigned' = [assigned EXCEPT ![w] = Append(@, x)]
        /\ rebuildWorkOrders' = [rebuildWorkOrders EXCEPT ![o] = Tail(@)]
        /\ UNCHANGED <<numRebuildWorkOrders, inbox>>
    BY <1>9 DEF DispatchRebuild
  <2> HIDE DEF x
  <2>4. ASSUME NEW p \in Op
        PROVE  /\ IsFiniteSet(Places(assigned', RebuildOf(p)))
               /\ numRebuildWorkOrders[p]
                    = Len(rebuildWorkOrders'[p]) + Total(assigned', RebuildOf(p))
                        + Count(inbox, MessagesOf("RebuildComplete", p))
    <3> DEFINE n == numRebuildWorkOrders[p]
               t == Total(assigned, RebuildOf(p))
               u == Total(assigned', RebuildOf(p))
               l == Len(rebuildWorkOrders[p])
               k == Len(rebuildWorkOrders'[p])
               c == Count(inbox, MessagesOf("RebuildComplete", p))
    <3>1. IsFiniteSet(Places(assigned, RebuildOf(p))) /\ n = l + t + c
      BY <1>0 DEF RebuildInv
    <3>2. One(x, RebuildOf(p)) = IF p = o THEN 1 ELSE 0
      BY <2>2 DEF One
    <3>3. /\ IsFiniteSet(Places(assigned', RebuildOf(p))) /\ u \in Nat /\ t \in Nat
          /\ u = t + One(x, RebuildOf(p))
      BY <1>0, <2>2, <2>3, <3>1, DispatchedTotal, TypedIsSound
    <3>4. c \in Nat /\ l \in Nat /\ k \in Nat /\ k = l - IF p = o THEN 1 ELSE 0
      <4>1. c \in Nat /\ rebuildWorkOrders[p] \in Seq(Block)
        BY <1>0, <1>a
      <4>2. CASE p = o
        BY SMTT(30), <1>0, <2>1, <2>3, <4>1, <4>2
      <4>3. CASE p # o
        BY SMTT(30), <1>0, <2>3, <4>1, <4>3
      <4>4. QED BY <4>2, <4>3
    <3> HIDE DEF n, t, u, l, k, c
    <3>5. n = k + u + c
      BY ONLY SMTT(30), <3>1, <3>2, <3>3, <3>4
    <3>6. QED BY <3>3, <3>5 DEF n, t, u, l, k, c
  <2>5. QED BY <2>3, <2>4 DEF RebuildInv
<1>10. ASSUME NEW o \in Op, NEW w \in Worker, DispatchNormal(o, w) PROVE RebuildInv'
  <2> DEFINE x == [op |-> o, rebuild |-> FALSE, block |-> Head(normalWorkOrders[o])]
  <2>1. normalWorkOrders[o] \in Seq(Block) /\ normalWorkOrders[o] # << >>
    BY <1>0, <1>10 DEF DispatchNormal, TypeOK
  <2>2. x \in WorkOrder /\ \A p : x \notin RebuildOf(p)
    BY SMTT(30), <2>1 DEF WorkOrder, RebuildOf
  <2>3. /\ assigned' = [assigned EXCEPT ![w] = Append(@, x)]
        /\ UNCHANGED <<numRebuildWorkOrders, rebuildWorkOrders, inbox>>
    BY <1>10 DEF DispatchNormal, rebuilds
  <2> HIDE DEF x
  <2>4. ASSUME NEW p \in Op
        PROVE  /\ IsFiniteSet(Places(assigned', RebuildOf(p)))
               /\ Total(assigned', RebuildOf(p)) = Total(assigned, RebuildOf(p))
    <3>1. IsFiniteSet(Places(assigned, RebuildOf(p)))
      BY <1>0 DEF RebuildInv
    <3>2. One(x, RebuildOf(p)) = 0
      BY <2>2 DEF One
    <3>3. /\ IsFiniteSet(Places(assigned', RebuildOf(p))) /\ Total(assigned, RebuildOf(p)) \in Nat
          /\ Total(assigned', RebuildOf(p)) = Total(assigned, RebuildOf(p)) + One(x, RebuildOf(p))
      BY <1>0, <2>2, <2>3, <3>1, DispatchedTotal, TypedIsSound
    <3>4. QED BY ONLY SMTT(30), <3>2, <3>3
  <2>5. QED BY <1>0, <2>3, <2>4 DEF RebuildInv
<1>11. ASSUME NEW w \in Worker, ReuseBlock(w) \/ ReturnPartialBlock(w) PROVE RebuildInv'
  BY <1>1, <1>11 DEF ReuseBlock, ReturnPartialBlock
<1>12. ASSUME NEW t \in BlockMessage, NEW o \in Op, NEW b \in Block, Send(t, o, b),
              UNCHANGED <<numRebuildWorkOrders, rebuildWorkOrders, assigned>>
       PROVE  RebuildInv'
  <2>1. [type |-> t, op |-> o, block |-> b] \in Message /\ t # "RebuildComplete"
    BY <1>12 DEF Message, BlockMessage
  <2>2. QED BY <1>0, <1>12, <2>1, OtherSent, TypedIsSound, RebuildSame
<1>13. ASSUME NEW w \in Worker, CreateNewBlock(w) PROVE RebuildInv'
  <2>1. Head(assigned[w]).op \in Op
    BY <1>0, <1>13, RunningOrder, TypedIsSound DEF CreateNewBlock, Running
  <2>2. [from |-> Head(assigned[w]).op, id |-> created[Head(assigned[w]).op] + 1] \in Block
    <3>1. created[Head(assigned[w]).op] + 1 \in Nat
      BY SMTT(30), <1>0, <2>1 DEF TypeOK
    <3>2. QED BY <2>1, <3>1 DEF Block
  <2>3. QED BY <1>12, <1>13, <2>1, <2>2 DEF CreateNewBlock, rebuilds, BlockMessage
<1>14. ASSUME NEW w \in Worker, ReturnFullBlock(w) \/ RebuildBlock(w) PROVE RebuildInv'
  <2>1. Head(assigned[w]).op \in Op /\ Head(assigned[w]).block \in Block /\ held[w] \in Block
    BY <1>0, <1>14, RunningOrder, TypedIsSound DEF ReturnFullBlock, RebuildBlock, Running, TypeOK
  <2>2. QED BY <1>12, <1>14, <2>1 DEF ReturnFullBlock, RebuildBlock, rebuilds, BlockMessage
<1>15. ASSUME NEW w \in Worker, SendWorkOrderComplete(w) PROVE RebuildInv'
  <2> DEFINE x == Head(assigned[w])
             ty == IF x.rebuild THEN "RebuildComplete" ELSE "Complete"
             m == [type |-> ty, op |-> x.op, block |-> NoBlock]
  <2>1. assigned[w] # << >>
    BY <1>15 DEF SendWorkOrderComplete, Running
  <2>2. x \in WorkOrder /\ x.op \in Op /\ x.rebuild \in BOOLEAN
    BY <1>0, <2>1, RunningOrder, TypedIsSound
  <2>3. m \in Message
    BY <1>0, <2>2 DEF Message
  <2>4. /\ assigned' = [assigned EXCEPT ![w] = Tail(@)] /\ Send(ty, x.op, NoBlock)
        /\ UNCHANGED <<numRebuildWorkOrders, rebuildWorkOrders>>
    BY <1>15 DEF SendWorkOrderComplete, rebuilds
  <2>5. \A p : x \in RebuildOf(p) <=> m \in MessagesOf("RebuildComplete", p)
    BY <2>2, <2>3 DEF RebuildOf, MessagesOf
  <2>6. ASSUME NEW p \in Op
        PROVE  /\ IsFiniteSet(Places(assigned', RebuildOf(p)))
               /\ numRebuildWorkOrders[p]
                    = Len(rebuildWorkOrders[p]) + Total(assigned', RebuildOf(p))
                        + Count(inbox', MessagesOf("RebuildComplete", p))
    <3> DEFINE X == RebuildOf(p)
               Y == MessagesOf("RebuildComplete", p)
               n == numRebuildWorkOrders[p]
               l == Len(rebuildWorkOrders[p])
    <3>1. IsFiniteSet(Places(assigned, X)) /\ n = l + Total(assigned, X) + Count(inbox, Y)
      BY <1>0 DEF RebuildInv
    <3>2. Count(inbox, Y) \in Nat /\ Count(inbox', Y) = Count(inbox, Y) + One(m, Y)
      <4> HIDE DEF ty, Y
      <4>1. QED BY <1>0, <2>3, <2>4, SentCount, TypedIsSound
    <3>3. One(x, X) = One(m, Y) /\ One(x, X) \in Nat
      BY <2>5 DEF One
    <3> HIDE DEF m
    <3>4. /\ IsFiniteSet(Places(assigned', X))
          /\ Total(assigned', X) \in Nat /\ Total(assigned, X) \in Nat
          /\ Total(assigned, X) = Total(assigned', X) + One(x, X)
      BY <1>0, <2>1, <2>4, <3>1, CompletedTotal, TypedIsSound
    <3>5. l \in Nat
      BY SMTT(30), <1>0
    <3> HIDE DEF x, X, Y, n, l
    <3>6. n = l + Total(assigned', X) + Count(inbox', Y)
      BY ONLY SMTT(30), <3>1, <3>2, <3>3, <3>4, <3>5
    <3>7. QED BY <3>4, <3>6 DEF X, Y, n, l
  <2>7. QED BY <2>4, <2>6 DEF RebuildInv
<1>16. ASSUME UNCHANGED vars PROVE RebuildInv'
  BY <1>1, <1>16 DEF vars, rebuilds, workers
<1>17. QED
  BY <1>2, <1>3, <1>4, <1>5, <1>6, <1>7, <1>8, <1>9, <1>10, <1>11, <1>13, <1>14, <1>15, <1>16
  DEF Next, Foreman, Dispatch, WorkerStep, Terminated

-----------------------------------------------------------------------------
(* Finishing. *)

(* That no finished operator rebuilds depends on the flag and the count. *)
LEMMA FinishSame ==
  ASSUME FinishInv, UNCHANGED <<finished, numRebuildWorkOrders>>
  PROVE  FinishInv'
BY DEF FinishInv

(* An operator that did not rebuild finishes with no rebuild work order. *)
LEMMA RebuildOrFinishDone ==
  ASSUME TypeOK, SchedulingInvariant, RebuildInv, FinishInv, NEW o \in Op, ~Ended(o),
         NEW callers, RebuildOrFinish(o, callers)
  PROVE  FinishInv'
<1>0. /\ finished \in [Op -> BOOLEAN] /\ numRebuildWorkOrders \in [Op -> Int]
      /\ available[o] \in Seq(Block)
  BY DEF TypeOK
<1>1. numRebuildWorkOrders[o] = 0
  BY NoRebuilds DEF Ended
<1>2. CASE UNCHANGED finished
  <2>1. \A p \in Op \ {o} : numRebuildWorkOrders'[p] = numRebuildWorkOrders[p]
    BY <1>0 DEF RebuildOrFinish, InitiateRebuild, rebuilds
  <2>2. QED BY <1>2, <2>1 DEF FinishInv, Ended
<1>3. CASE ~UNCHANGED finished
  <2>1. /\ finished' = [finished EXCEPT ![o] = TRUE] /\ ~MustRebuild(o)
        /\ IF o \in Destination THEN InitiateRebuild(o) ELSE UNCHANGED rebuilds
    BY <1>3 DEF RebuildOrFinish, MarkOperatorFinished, depState
  <2>2. numRebuildWorkOrders'[o] = 0
    <3>1. CASE o \in Destination
      <4>1. Len(available[o]) = 0 /\ numRebuildWorkOrders'[o] = Len(available[o])
        BY <1>0, <2>1, <3>1 DEF MustRebuild, InitiateRebuild
      <4>2. QED BY <4>1
    <3>2. CASE o \notin Destination
      BY <1>1, <2>1, <3>2 DEF rebuilds
    <3>3. QED BY <3>1, <3>2
  <2>3. \A p \in Op \ {o} : /\ numRebuildWorkOrders'[p] = numRebuildWorkOrders[p]
                            /\ finished'[p] = finished[p]
    BY <1>0, <2>1 DEF InitiateRebuild, rebuilds
  <2>4. QED BY <2>2, <2>3 DEF FinishInv
<1>4. QED BY <1>2, <1>3

(* An operator finishes only when its last rebuild work order is complete. *)
LEMMA FinishStep ==
  ASSUME OrderedPlan, EndInvariant, [Next]_vars
  PROVE  FinishInv'
<1>0. /\ WellFormedPlan /\ FlowInvariant /\ TypeOK /\ SchedulingInvariant /\ QueuedInv /\ EndInv
      /\ RebuildInv /\ FinishInv /\ LoopInv
      /\ finished \in [Op -> BOOLEAN] /\ numRebuildWorkOrders \in [Op -> Int]
      /\ inbox \in Seq(Message)
  BY DEF OrderedPlan, EndInvariant, FlowInvariant, Sound, TypeOK
<1>1. ASSUME NEW o \in Op, StartOperator(o) PROVE FinishInv'
  <2>1. o \in toStart /\ UNCHANGED numRebuildWorkOrders
    BY <1>1 DEF StartOperator, rebuilds
  <2>2. ~Ended(o)
    BY <1>0, <2>1, StartedFresh
  <2>3. numRebuildWorkOrders[o] = 0
    BY <1>0, <2>2, NoRebuilds DEF Ended
  <2>4. finished' = finished \/ finished' = [finished EXCEPT ![o] = TRUE]
    BY <1>1 DEF StartOperator, depState, MarkOperatorFinished
  <2>5. QED BY <1>0, <2>1, <2>3, <2>4 DEF FinishInv
<1>2. ASSUME NEW c \in Op, NotifyBlockedDependent(c) PROVE FinishInv'
  BY <1>0, <1>2, FinishSame DEF NotifyBlockedDependent, depState, rebuilds
<1>3. ASSUME NEW c \in Op, NotifyReadyDependent(c) PROVE FinishInv'
  <2>1. stack # << >> /\ c \in Head(stack).todo
    BY <1>3 DEF NotifyReadyDependent, NextDependent
  <2>2. ~Ended(c)
    <3>1. stack \in Seq(Frame)
      BY <1>0 DEF TypeOK
    <3>2. 1 \in DOMAIN stack /\ stack[1] = Head(stack)
      BY SMTT(30), <2>1, <3>1
    <3>3. QED BY <1>0, <2>1, <3>2 DEF LoopInv
  <2>3. UNCHANGED <<depState, rebuilds>> \/ RebuildOrFinish(c, CallersAfter(c))
    BY <1>3 DEF NotifyReadyDependent
  <2>4. QED BY <1>0, <2>2, <2>3, FinishSame, RebuildOrFinishDone DEF depState, rebuilds
<1>4. ASSUME ReturnFromMarkFinished \/ ProcessNewBlock \/ ProcessDataPipeline PROVE FinishInv'
  BY <1>0, <1>4, FinishSame
  DEF ReturnFromMarkFinished, ProcessNewBlock, ProcessDataPipeline, depState, rebuilds
<1>5. ASSUME ProcessWorkOrderComplete PROVE FinishInv'
  <2>1. PICK m \in Message : 1 \in DOMAIN inbox /\ inbox[1] = m /\ m = Head(inbox) /\ m.type = "Complete"
    BY SMTT(30), <1>0, <1>5 DEF ProcessWorkOrderComplete, Receive
  <2>2. m.op \in Op
    BY <2>1 DEF Message
  <2>3. ~Ended(m.op)
    BY <1>0, <2>1, <2>2, WorkIsOpen
  <2>4. UNCHANGED <<depState, rebuilds>> \/ RebuildOrFinish(m.op, << >>)
    BY <1>5, <2>1 DEF ProcessWorkOrderComplete
  <2>5. QED BY <1>0, <2>2, <2>3, <2>4, FinishSame, RebuildOrFinishDone DEF depState, rebuilds
<1>6. ASSUME ProcessRebuildWorkOrderComplete PROVE FinishInv'
  <2>1. PICK m \in Message : /\ 1 \in DOMAIN inbox /\ inbox[1] = m /\ m = Head(inbox)
                             /\ m.type = "RebuildComplete"
    BY SMTT(30), <1>0, <1>6 DEF ProcessRebuildWorkOrderComplete, Receive
  <2>2. m.op \in Op
    BY <2>1 DEF Message
  <2>3. ~finished[m.op]
    BY <1>0, <2>1, <2>2, WorkIsOpen
  <2>4. /\ numRebuildWorkOrders' = [numRebuildWorkOrders EXCEPT ![m.op] = @ - 1]
        /\ \/ UNCHANGED finished
           \/ numRebuildWorkOrders'[m.op] = 0 /\ finished' = [finished EXCEPT ![m.op] = TRUE]
    BY <1>6, <2>1 DEF ProcessRebuildWorkOrderComplete, depState, MarkOperatorFinished
  <2>5. \A p \in Op \ {m.op} : numRebuildWorkOrders'[p] = numRebuildWorkOrders[p]
    BY <1>0, <2>4
  <2>6. QED BY <1>0, <2>2, <2>3, <2>4, <2>5 DEF FinishInv
<1>7. ASSUME NEW o \in Op, NEW w \in Worker, DispatchRebuild(o, w) \/ DispatchNormal(o, w)
      PROVE  FinishInv'
  BY <1>0, <1>7, FinishSame DEF DispatchRebuild, DispatchNormal, depState, rebuilds
<1>8. ASSUME NEW w \in Worker, WorkerStep(w) PROVE FinishInv'
  BY <1>0, <1>8, FinishSame DEF WorkerStep, ReuseBlock, CreateNewBlock, ReturnFullBlock,
     ReturnPartialBlock, RebuildBlock, SendWorkOrderComplete, depState, rebuilds
<1>9. ASSUME UNCHANGED vars PROVE FinishInv'
  BY <1>0, <1>9, FinishSame DEF vars, depState, rebuilds
<1>10. QED
  BY <1>1, <1>2, <1>3, <1>4, <1>5, <1>6, <1>7, <1>8, <1>9 DEF Next, Foreman, Dispatch, Terminated

(* The counter of finished operators: only one that has not finished does. *)
LEMMA NumMarked ==
  ASSUME TypeOK, NumInv, NEW o \in Op, ~finished[o], NEW callers, MarkOperatorFinished(o, callers)
  PROVE  NumInv'
<1> DEFINE F == {p \in Op : finished[p]}
<1>1. IsFiniteSet(Op)
  BY SMTT(30), PlanAssumption, FS_Interval DEF Op
<1>2. IsFiniteSet(F) /\ o \notin F
  BY <1>1, FS_Subset
<1>3. {p \in Op : finished'[p]} = F \cup {o}
  BY DEF MarkOperatorFinished, TypeOK
<1>4. Cardinality(F \cup {o}) = Cardinality(F) + 1
  <2> HIDE DEF F
  <2>1. QED BY <1>2, FS_AddElement
<1>5. numFinished' = Cardinality(F) + 1
  BY DEF MarkOperatorFinished, NumInv
<1>6. QED BY <1>3, <1>4, <1>5 DEF NumInv

(* num_operators_finished_ counts every finished operator once. *)
LEMMA NumStep ==
  ASSUME OrderedPlan, EndInvariant, [Next]_vars
  PROVE  NumInv'
<1>0. /\ WellFormedPlan /\ FlowInvariant /\ TypeOK /\ SchedulingInvariant /\ QueuedInv /\ EndInv
      /\ RebuildInv /\ FinishInv /\ LoopInv /\ NumInv /\ inbox \in Seq(Message)
  BY DEF OrderedPlan, EndInvariant, FlowInvariant, Sound, TypeOK
<1>1. ASSUME UNCHANGED <<finished, numFinished>> PROVE NumInv'
  BY <1>0, <1>1 DEF NumInv
<1>2. ASSUME NEW o \in Op, NEW callers, ~Ended(o), RebuildOrFinish(o, callers) PROVE NumInv'
  BY <1>0, <1>1, <1>2, NumMarked DEF RebuildOrFinish, depState, Ended
<1>3. ASSUME NEW o \in Op, StartOperator(o) PROVE NumInv'
  <2>1. ~Ended(o)
    BY <1>0, <1>3, StartedFresh DEF StartOperator
  <2>2. QED BY <1>0, <1>1, <1>3, <2>1, NumMarked DEF StartOperator, depState, Ended
<1>4. ASSUME NEW c \in Op, NotifyReadyDependent(c) PROVE NumInv'
  <2>1. stack # << >> /\ c \in Head(stack).todo
    BY <1>4 DEF NotifyReadyDependent, NextDependent
  <2>2. ~Ended(c)
    <3>1. stack \in Seq(Frame)
      BY <1>0 DEF TypeOK
    <3>2. 1 \in DOMAIN stack /\ stack[1] = Head(stack)
      BY SMTT(30), <2>1, <3>1
    <3>3. QED BY <1>0, <2>1, <3>2 DEF LoopInv
  <2>3. UNCHANGED depState \/ RebuildOrFinish(c, CallersAfter(c))
    BY <1>4 DEF NotifyReadyDependent
  <2>4. QED BY <1>1, <1>2, <2>2, <2>3 DEF depState
<1>5. ASSUME ProcessWorkOrderComplete PROVE NumInv'
  <2>1. PICK m \in Message : 1 \in DOMAIN inbox /\ inbox[1] = m /\ m = Head(inbox) /\ m.type = "Complete"
    BY SMTT(30), <1>0, <1>5 DEF ProcessWorkOrderComplete, Receive
  <2>2. m.op \in Op
    BY <2>1 DEF Message
  <2>3. ~Ended(m.op)
    BY <1>0, <2>1, <2>2, WorkIsOpen
  <2>4. UNCHANGED depState \/ RebuildOrFinish(m.op, << >>)
    BY <1>5, <2>1 DEF ProcessWorkOrderComplete
  <2>5. QED BY <1>1, <1>2, <2>2, <2>3, <2>4 DEF depState
<1>6. ASSUME ProcessRebuildWorkOrderComplete PROVE NumInv'
  <2>1. PICK m \in Message : /\ 1 \in DOMAIN inbox /\ inbox[1] = m /\ m = Head(inbox)
                             /\ m.type = "RebuildComplete"
    BY SMTT(30), <1>0, <1>6 DEF ProcessRebuildWorkOrderComplete, Receive
  <2>2. m.op \in Op
    BY <2>1 DEF Message
  <2>3. ~finished[m.op]
    BY <1>0, <2>1, <2>2, WorkIsOpen
  <2>4. UNCHANGED depState \/ MarkOperatorFinished(m.op, << >>)
    BY <1>6, <2>1 DEF ProcessRebuildWorkOrderComplete
  <2>5. QED BY <1>0, <1>1, <2>2, <2>3, <2>4, NumMarked DEF depState
<1>7. ASSUME \/ \E o \in Op : NotifyBlockedDependent(o)
             \/ ReturnFromMarkFinished \/ ProcessNewBlock \/ ProcessDataPipeline
             \/ \E o \in Op, w \in Worker : DispatchRebuild(o, w) \/ DispatchNormal(o, w)
      PROVE  NumInv'
  BY <1>1, <1>7 DEF NotifyBlockedDependent, ReturnFromMarkFinished, ProcessNewBlock,
     ProcessDataPipeline, DispatchRebuild, DispatchNormal, depState
<1>8. ASSUME NEW w \in Worker, WorkerStep(w) PROVE NumInv'
  BY <1>1, <1>8 DEF WorkerStep, ReuseBlock, CreateNewBlock, ReturnFullBlock,
     ReturnPartialBlock, RebuildBlock, SendWorkOrderComplete, depState
<1>9. ASSUME UNCHANGED vars PROVE NumInv'
  BY <1>1, <1>9 DEF vars, depState
<1>10. QED
  BY <1>3, <1>4, <1>5, <1>6, <1>7, <1>8, <1>9 DEF Next, Foreman, Dispatch, Terminated

-----------------------------------------------------------------------------
(* The pending loops of markOperatorFinished(). *)

(* The dependents of an operator that has not finished have not ended. *)
LEMMA DependentsOpen ==
  ASSUME WellFormedPlan, TypeOK, SchedulingInvariant, NEW o \in Op, ~finished[o],
         NEW c \in Dependents(o)
  PROVE  c \in Op /\ c # o /\ ~Ended(c)
<1>1. c \in Op /\ <<o, c>> \in Link
  BY DEF Dependents
<1>2. c # o
  BY <1>1 DEF WellFormedPlan
<1>3. o \in Dependencies(c)
  BY <1>1 DEF Dependencies
<1>4. QED BY <1>1, <1>2, <1>3, EndedIsLast

(* The first loop: an operator finishes that no other operator's end ends. *)
LEMMA LoopBegins ==
  ASSUME WellFormedPlan, TypeOK, SchedulingInvariant, NEW o \in Op, ~finished[o],
         \A p \in Op : Ended(p)' => Ended(p) \/ p = o,
         \A p \in toStart' : ~storedGenerated'[p],
         stack' = << >> \/ stack' = <<[op |-> o, todo |-> Dependents(o)]>> \o << >>
  PROVE  LoopInv'
<1>1. CASE stack' = << >>
  BY SMTT(30), <1>1 DEF LoopInv
<1>2. CASE stack' = <<[op |-> o, todo |-> Dependents(o)]>> \o << >>
  <2>1. DOMAIN stack' = {1} /\ stack'[1] = [op |-> o, todo |-> Dependents(o)]
    BY SMTT(30), <1>2
  <2>2. \A c \in Dependents(o) : ~Ended(c)'
    BY DependentsOpen
  <2>3. \A i \in DOMAIN stack' : \A j \in 1 .. i - 1 : FALSE
    BY SMTT(30), <2>1
  <2>4. QED BY SMTT(30), <2>1, <2>2, <2>3 DEF LoopInv
<1>3. QED BY <1>1, <1>2

(* A step outside the loops. *)
LEMMA LoopSame ==
  ASSUME LoopInv, UNCHANGED <<stack, finished, rebuildInitiated>>,
         \A o \in toStart' : ~storedGenerated'[o]
  PROVE  LoopInv'
BY DEF LoopInv, Ended

(* A loop visits a dependent: what is left of the stack. *)
LEMMA CallersLeft ==
  ASSUME TypeOK, stack # << >>, NEW c
  PROVE  /\ CallersAfter(c) \in Seq(Frame) /\ Len(CallersAfter(c)) = Len(stack)
         /\ DOMAIN CallersAfter(c) = DOMAIN stack
         /\ \A i \in DOMAIN stack :
              /\ CallersAfter(c)[i].op = stack[i].op
              /\ CallersAfter(c)[i].todo = IF i = 1 THEN stack[1].todo \ {c} ELSE stack[i].todo
<1>1. stack \in Seq(Frame)
  BY DEF TypeOK
<1>2. /\ Head(stack) \in Frame /\ Head(stack) = stack[1] /\ Tail(stack) \in Seq(Frame)
      /\ Len(stack) \in Nat \ {0} /\ Len(Tail(stack)) = Len(stack) - 1
      /\ \A i \in 1 .. Len(stack) - 1 : Tail(stack)[i] = stack[i + 1]
  BY SMTT(30), <1>1
<1> DEFINE f == [Head(stack) EXCEPT !.todo = @ \ {c}]
<1>3. f \in Frame /\ f.op = stack[1].op /\ f.todo = stack[1].todo \ {c}
  BY <1>2 DEF Frame
<1>4. CallersAfter(c) = <<f>> \o Tail(stack)
  BY DEF CallersAfter
<1> HIDE DEF f
<1> DEFINE t == Tail(stack)
<1>5. t \in Seq(Frame) /\ Len(t) = Len(stack) - 1
  BY <1>2
<1> HIDE DEF t
<1>6. /\ <<f>> \o t \in Seq(Frame) /\ Len(<<f>> \o t) = Len(t) + 1
      /\ (<<f>> \o t)[1] = f
      /\ \A i \in 2 .. Len(t) + 1 : (<<f>> \o t)[i] = t[i - 1]
  BY SMTT(30), <1>3, <1>5
<1>7. \A i \in 2 .. Len(stack) : t[i - 1] = stack[i]
  BY SMTT(30), <1>2 DEF t
<1>8. Len(CallersAfter(c)) = Len(stack) /\ CallersAfter(c) \in Seq(Frame)
  BY SMTT(30), <1>2, <1>4, <1>5, <1>6 DEF t
<1>9. DOMAIN CallersAfter(c) = DOMAIN stack
  BY SMTT(30), <1>1, <1>8
<1>10. CallersAfter(c)[1] = f /\ \A i \in 2 .. Len(stack) : CallersAfter(c)[i] = stack[i]
  BY SMTT(30), <1>2, <1>4, <1>5, <1>6, <1>7 DEF t
<1>11. DOMAIN stack = 1 .. Len(stack)
  BY SMTT(30), <1>1
<1>12. ASSUME NEW i \in DOMAIN stack
       PROVE  /\ CallersAfter(c)[i].op = stack[i].op
              /\ CallersAfter(c)[i].todo = IF i = 1 THEN stack[1].todo \ {c} ELSE stack[i].todo
  <2>1. CASE i = 1
    BY <1>3, <1>10, <2>1
  <2>2. CASE i # 1
    <3>1. i \in 2 .. Len(stack)
      BY SMTT(30), <1>2, <1>11, <2>2
    <3>2. QED BY <1>10, <2>2, <3>1
  <2>3. QED BY <2>1, <2>2
<1>13. QED BY <1>8, <1>9, <1>12

(* A dependent is visited and does not end. *)
LEMMA LoopGoesOn ==
  ASSUME TypeOK, LoopInv, stack # << >>, NEW c, stack' = CallersAfter(c),
         \A i \in DOMAIN stack : \A p \in stack[i].todo :
           ~Ended(p) /\ (i # 1 \/ p # c) => ~Ended(p)',
         \A o \in toStart' : ~storedGenerated'[o]
  PROVE  LoopInv'
<1>1. /\ DOMAIN stack' = DOMAIN stack
      /\ \A i \in DOMAIN stack :
           /\ stack'[i].op = stack[i].op
           /\ stack'[i].todo = IF i = 1 THEN stack[1].todo \ {c} ELSE stack[i].todo
  BY CallersLeft
<1>2. ASSUME NEW i \in DOMAIN stack', NEW p \in stack'[i].todo
      PROVE  ~Ended(p)' /\ \A j \in 1 .. i - 1 : stack'[j].op \notin Upstream(p)
  <2>1. i \in DOMAIN stack /\ p \in stack[i].todo /\ (i # 1 \/ p # c)
    BY <1>1, <1>2
  <2>2. ~Ended(p) /\ \A j \in 1 .. i - 1 : stack[j].op \notin Upstream(p)
    BY <2>1 DEF LoopInv
  <2>3. \A j \in 1 .. i - 1 : j \in DOMAIN stack
    <3>1. stack \in Seq(Frame)
      BY DEF TypeOK
    <3>2. QED BY SMTT(30), <2>1, <3>1
  <2>4. QED BY <1>1, <2>1, <2>2, <2>3
<1>3. QED BY <1>2 DEF LoopInv

(* A dependent is visited and ends, and perhaps finishes: it is in no other    *)
(* pending loop, because the finished operator of this loop is upstream of it, *)
(* and the dependents still to visit do not depend on it.                      *)
LEMMA LoopNests ==
  ASSUME OrderedPlan, TypeOK, SchedulingInvariant, LoopInv, NEW c \in Op, NextDependent(c),
         \A p \in Op : Ended(p)' => Ended(p) \/ p = c,
         \A o \in toStart' : ~storedGenerated'[o],
         \/ stack' = CallersAfter(c)
         \/ stack' = <<[op |-> c, todo |-> Dependents(c)]>> \o CallersAfter(c)
  PROVE  LoopInv'
<1> DEFINE h == stack[1].op
           s == CallersAfter(c)
<1>0. /\ WellFormedPlan /\ DownstreamFirst /\ stack \in Seq(Frame) /\ stack # << >>
      /\ Head(stack) = stack[1] /\ 1 \in DOMAIN stack
  BY SMTT(30) DEF OrderedPlan, TypeOK, NextDependent
<1>1. /\ c \in stack[1].todo
      /\ \A d \in stack[1].todo : LinkOrder[<<h, d>>] <= LinkOrder[<<h, c>>]
  BY <1>0 DEF NextDependent
<1>2. \A i \in DOMAIN stack : stack[i] \in Frame
  BY SMTT(30), <1>0
<1>3. \A i \in DOMAIN stack : /\ stack[i].op \in Op /\ stack[i].todo \subseteq Op
                             /\ \A p \in stack[i].todo : <<stack[i].op, p>> \in Link
  BY <1>2 DEF Frame, SchedulingInvariant, LoopsFollowFinish
<1>4. h \in Op /\ h \in Dependencies(c) /\ ~Ended(c)
  BY <1>0, <1>1, <1>3 DEF Dependencies, LoopInv
<1>5. /\ s \in Seq(Frame) /\ Len(s) = Len(stack) /\ DOMAIN s = DOMAIN stack
      /\ \A i \in DOMAIN stack :
           /\ s[i].op = stack[i].op
           /\ s[i].todo = IF i = 1 THEN stack[1].todo \ {c} ELSE stack[i].todo
  BY <1>0, CallersLeft
<1> HIDE DEF s
<1>6. ASSUME NEW i \in DOMAIN stack, NEW p \in s[i].todo
      PROVE  /\ p \in Op /\ ~Ended(p)' /\ c \notin Upstream(p)
             /\ \A j \in 1 .. i - 1 : s[j].op \notin Upstream(p)
  <2>0. p \in stack[i].todo /\ p \in Op /\ (i = 1 => p # c)
    BY <1>3, <1>5, <1>6
  <2>1. ~Ended(p) /\ \A j \in 1 .. i - 1 : stack[j].op \notin Upstream(p)
    BY <2>0 DEF LoopInv
  <2>2. i \in Nat \ {0} /\ \A j \in 1 .. i - 1 : j \in DOMAIN stack
    BY SMTT(30), <1>0
  <2>3. \A j \in 1 .. i - 1 : s[j].op \notin Upstream(p)
    BY <1>5, <2>1, <2>2
  <2>4. CASE i = 1
    <3>1. p # c /\ LinkOrder[<<h, p>>] <= LinkOrder[<<h, c>>] /\ <<h, p>> \in Link /\ <<h, c>> \in Link
      BY <1>1, <1>3, <2>0, <2>4
    <3>2. /\ LinkOrder[<<h, p>>] \in Int /\ LinkOrder[<<h, c>>] \in Int
      BY SMTT(30), <3>1, PlanAssumption
    <3>3. c \notin Upstream(p)
      <4>1. c \in Upstream(p) => LinkOrder[<<h, c>>] < LinkOrder[<<h, p>>]
        BY <1>0, <1>4, <2>0, <3>1 DEF DownstreamFirst
      <4>2. QED BY SMTT(30), <3>1, <3>2, <4>1
    <3>4. QED BY <2>0, <2>1, <2>3, <3>1, <3>3
  <2>5. CASE i # 1
    <3>1. 1 \in 1 .. i - 1
      BY SMTT(30), <2>2, <2>5
    <3>2. h \notin Upstream(p)
      BY <2>1, <3>1
    <3>3. p # c
      BY <1>4, <2>0, <3>2, UpstreamDependencies
    <3>4. c \notin Upstream(p)
      BY <1>4, <2>0, <3>2, UpstreamClosed
    <3>5. QED BY <2>0, <2>1, <2>3, <3>3, <3>4
  <2>6. QED BY <2>4, <2>5
<1>7. CASE stack' = s
  BY <1>5, <1>6, <1>7 DEF LoopInv
<1>8. CASE stack' = <<[op |-> c, todo |-> Dependents(c)]>> \o s
  <2> DEFINE f == [op |-> c, todo |-> Dependents(c)]
  <2>1. f \in Frame /\ f.op = c /\ f.todo = Dependents(c)
    BY DEF Frame, Dependents
  <2> HIDE DEF f
  <2>2. /\ <<f>> \o s \in Seq(Frame) /\ Len(<<f>> \o s) = Len(s) + 1
        /\ (<<f>> \o s)[1] = f
        /\ \A i \in 2 .. Len(s) + 1 : (<<f>> \o s)[i] = s[i - 1]
    BY SMTT(30), <1>5, <2>1
  <2>3. /\ DOMAIN stack' = 1 .. Len(s) + 1 /\ stack'[1] = f /\ Len(s) \in Nat
        /\ \A i \in 2 .. Len(s) + 1 : stack'[i] = s[i - 1]
    BY SMTT(30), <1>5, <1>8, <2>2 DEF f
  <2>4. ASSUME NEW i \in DOMAIN stack', NEW p \in stack'[i].todo
        PROVE  ~Ended(p)' /\ \A j \in 1 .. i - 1 : stack'[j].op \notin Upstream(p)
    <3>1. CASE i = 1
      <4>1. p \in Dependents(c)
        BY <2>1, <2>3, <2>4, <3>1
      <4>2. p \in Op /\ p # c /\ ~Ended(p)
        BY <1>0, <1>4, <4>1, DependentsOpen DEF Ended
      <4>3. \A j \in 1 .. i - 1 : FALSE
        BY SMTT(30), <3>1
      <4>4. QED BY <4>2, <4>3
    <3>2. CASE i # 1
      <4>1. i \in 2 .. Len(s) + 1 /\ i - 1 \in DOMAIN stack
        BY SMTT(30), <1>5, <2>3, <3>2
      <4>2. p \in s[i - 1].todo
        BY <2>3, <2>4, <4>1
      <4>3. /\ ~Ended(p)' /\ c \notin Upstream(p)
            /\ \A j \in 1 .. i - 1 - 1 : s[j].op \notin Upstream(p)
        BY <1>6, <4>1, <4>2
      <4>4. ASSUME NEW j \in 1 .. i - 1 PROVE stack'[j].op \notin Upstream(p)
        <5>1. CASE j = 1
          BY <2>1, <2>3, <4>3, <5>1
        <5>2. CASE j # 1
          <6>1. j \in 2 .. Len(s) + 1 /\ j - 1 \in 1 .. i - 1 - 1
            BY SMTT(30), <2>3, <4>1, <4>4, <5>2
          <6>2. QED BY <2>3, <4>3, <6>1
        <5>3. QED BY <5>1, <5>2
      <4>5. QED BY <4>3, <4>4
    <3>3. QED BY <3>1, <3>2
  <2>5. QED BY <2>4 DEF LoopInv
<1>9. QED BY <1>7, <1>8 DEF s
(* A loop that has visited all its dependents returns to its caller. *)
LEMMA LoopReturns ==
  ASSUME TypeOK, LoopInv, stack # << >>, stack' = Tail(stack),
         UNCHANGED <<finished, rebuildInitiated, toStart, storedGenerated>>
  PROVE  LoopInv'
<1>1. stack \in Seq(Frame)
  BY DEF TypeOK
<1>2. /\ Len(stack) \in Nat \ {0} /\ DOMAIN stack = 1 .. Len(stack)
      /\ DOMAIN stack' = 1 .. Len(stack) - 1
      /\ \A i \in 1 .. Len(stack) - 1 : stack'[i] = stack[i + 1]
  BY SMTT(30), <1>1
<1>3. ASSUME NEW i \in DOMAIN stack', NEW p \in stack'[i].todo
      PROVE  ~Ended(p)' /\ \A j \in 1 .. i - 1 : stack'[j].op \notin Upstream(p)
  <2>1. i + 1 \in DOMAIN stack /\ p \in stack[i + 1].todo /\ i \in Nat
    BY SMTT(30), <1>2, <1>3
  <2>2. ~Ended(p) /\ \A j \in 1 .. i + 1 - 1 : stack[j].op \notin Upstream(p)
    BY SMTT(30), <2>1 DEF LoopInv
  <2>3. \A j \in 1 .. i - 1 : j + 1 \in 1 .. i + 1 - 1 /\ stack'[j] = stack[j + 1]
    BY SMTT(30), <1>2, <1>3, <2>1
  <2>4. \A j \in 1 .. i - 1 : stack'[j].op \notin Upstream(p)
    BY <2>2, <2>3
  <2>5. QED BY <2>2, <2>4 DEF Ended
<1>4. QED BY <1>3 DEF LoopInv

(* The loops over dependents only hold operators that have not ended. *)
LEMMA LoopStep ==
  ASSUME OrderedPlan, EndInvariant, [Next]_vars
  PROVE  LoopInv'
<1>0. /\ WellFormedPlan /\ FlowInvariant /\ TypeOK /\ SchedulingInvariant /\ QueuedInv /\ ListInv
      /\ EndInv /\ RebuildInv /\ FinishInv /\ LoopInv /\ inbox \in Seq(Message)
      /\ \A o \in toStart : o \in Op /\ Dependencies(o) = {} /\ ~storedGenerated[o]
  BY DEF OrderedPlan, EndInvariant, FlowInvariant, Sound, PlaceInv, TypeOK, LoopInv,
         SchedulingInvariant, LoopsFollowFinish
<1>1. ASSUME NEW o \in Op, StartOperator(o) PROVE LoopInv'
  <2>1. /\ o \in toStart /\ toStart' = toStart \ {o} /\ Fetch({o}, fed, doneFed) /\ stack = << >>
        /\ UNCHANGED rebuildInitiated
    BY <1>1 DEF StartOperator, rebuilds
  <2>2. ~Ended(o)
    BY <1>0, <2>1, StartedFresh
  <2>3. \A p \in toStart' : ~storedGenerated'[p]
    BY <1>0, <2>1 DEF Fetch
  <2>4. CASE UNCHANGED <<depState, stack>>
    BY <1>0, <2>1, <2>3, <2>4, LoopSame DEF depState
  <2>5. CASE MarkOperatorFinished(o, << >>)
    <3>1. \A p \in Op : Ended(p)' <=> (Ended(p) \/ p = o)
      BY <1>0, <2>1, <2>5, MarkEnds
    <3>2. stack' = <<[op |-> o, todo |-> Dependents(o)]>> \o << >>
      BY <2>5 DEF MarkOperatorFinished
    <3>3. ~finished[o]
      BY <2>2 DEF Ended
    <3>4. QED BY <1>0, <2>3, <3>1, <3>2, <3>3, LoopBegins
  <2>6. QED BY <1>1, <2>4, <2>5 DEF StartOperator
<1>2. ASSUME NEW c \in Op, NotifyBlockedDependent(c) PROVE LoopInv'
  <2>1. /\ stack # << >> /\ stack' = CallersAfter(c)
        /\ UNCHANGED <<toStart, storedGenerated, finished, rebuildInitiated>>
    BY <1>2 DEF NotifyBlockedDependent, NextDependent, depState, rebuilds
  <2>2. \A p : Ended(p)' <=> Ended(p)
    BY <2>1 DEF Ended
  <2>3. QED BY <1>0, <2>1, <2>2, LoopGoesOn
<1>3. ASSUME NEW c \in Op, NotifyReadyDependent(c) PROVE LoopInv'
  <2>1. /\ NextDependent(c) /\ Fetch({c}, fed, DoneFedBy(Head(stack).op, c)) /\ toStart' = toStart
    BY <1>3 DEF NotifyReadyDependent
  <2>2. \A p \in toStart' : ~storedGenerated'[p]
    <3>1. /\ stack \in Seq(Frame) /\ stack # << >> /\ c \in Head(stack).todo
      BY <1>0, <2>1 DEF TypeOK, NextDependent
    <3>2. /\ 1 \in DOMAIN stack /\ stack[1] = Head(stack) /\ Head(stack) \in Frame
      BY SMTT(30), <3>1
    <3>3. <<stack[1].op, c>> \in Link /\ stack[1].op \in Op
      BY <1>0, <3>1, <3>2 DEF SchedulingInvariant, LoopsFollowFinish, Frame
    <3>4. c \notin toStart
      BY <1>0, <3>3 DEF Dependencies
    <3>5. QED BY <1>0, <2>1, <3>4 DEF Fetch
  <2>3. CASE stack' = CallersAfter(c) /\ UNCHANGED <<depState, rebuilds>>
    <3>1. \A p : Ended(p)' <=> Ended(p)
      BY <2>3 DEF Ended, depState, rebuilds
    <3>2. QED BY <1>0, <2>1, <2>2, <2>3, <3>1, LoopGoesOn DEF NextDependent
  <2>4. CASE RebuildOrFinish(c, CallersAfter(c))
    <3>1. \A p \in Op : Ended(p)' <=> (Ended(p) \/ p = c)
      BY <1>0, <2>4, RebuildOrFinishEnds
    <3>2. \/ stack' = CallersAfter(c)
          \/ stack' = <<[op |-> c, todo |-> Dependents(c)]>> \o CallersAfter(c)
      BY <2>4 DEF RebuildOrFinish, MarkOperatorFinished
    <3>3. QED BY <1>0, <2>1, <2>2, <3>1, <3>2, LoopNests
  <2>5. QED BY <1>3, <2>3, <2>4 DEF NotifyReadyDependent
<1>4. ASSUME ReturnFromMarkFinished PROVE LoopInv'
  BY <1>0, <1>4, LoopReturns DEF ReturnFromMarkFinished, depState, rebuilds, opState
<1>5. ASSUME ProcessWorkOrderComplete PROVE LoopInv'
  <2>1. PICK m \in Message : 1 \in DOMAIN inbox /\ inbox[1] = m /\ m = Head(inbox) /\ m.type = "Complete"
    BY SMTT(30), <1>0, <1>5 DEF ProcessWorkOrderComplete, Receive
  <2>2. m.op \in Op
    BY <2>1 DEF Message
  <2>3. ~Ended(m.op) /\ ~finished[m.op]
    BY <1>0, <2>1, <2>2, WorkIsOpen DEF Ended
  <2>4. toStart = {} /\ toStart' = {} /\ stack = << >>
    BY <1>5 DEF ProcessWorkOrderComplete, Receive, Idle
  <2>5. UNCHANGED <<depState, rebuilds, stack>> \/ RebuildOrFinish(m.op, << >>)
    BY <1>5, <2>1 DEF ProcessWorkOrderComplete
  <2>6. CASE UNCHANGED <<depState, rebuilds, stack>>
    BY <1>0, <2>4, <2>6, LoopSame DEF depState, rebuilds
  <2>7. CASE RebuildOrFinish(m.op, << >>)
    <3>1. \A p \in Op : Ended(p)' <=> (Ended(p) \/ p = m.op)
      BY <1>0, <2>2, <2>7, RebuildOrFinishEnds
    <3>2. stack' = << >> \/ stack' = <<[op |-> m.op, todo |-> Dependents(m.op)]>> \o << >>
      BY <2>7 DEF RebuildOrFinish, MarkOperatorFinished
    <3>3. QED BY <1>0, <2>2, <2>3, <2>4, <3>1, <3>2, LoopBegins
  <2>8. QED BY <2>5, <2>6, <2>7
<1>6. ASSUME ProcessRebuildWorkOrderComplete PROVE LoopInv'
  <2>1. PICK m \in Message : /\ 1 \in DOMAIN inbox /\ inbox[1] = m /\ m = Head(inbox)
                             /\ m.type = "RebuildComplete"
    BY SMTT(30), <1>0, <1>6 DEF ProcessRebuildWorkOrderComplete, Receive
  <2>2. m.op \in Op
    BY <2>1 DEF Message
  <2>3. ~finished[m.op]
    BY <1>0, <2>1, <2>2, WorkIsOpen
  <2>4. toStart = {} /\ toStart' = {} /\ stack = << >> /\ UNCHANGED rebuildInitiated
    BY <1>6 DEF ProcessRebuildWorkOrderComplete, Receive, Idle
  <2>5. UNCHANGED <<depState, stack>> \/ MarkOperatorFinished(m.op, << >>)
    BY <1>6, <2>1 DEF ProcessRebuildWorkOrderComplete
  <2>6. CASE UNCHANGED <<depState, stack>>
    BY <1>0, <2>4, <2>6, LoopSame DEF depState
  <2>7. CASE MarkOperatorFinished(m.op, << >>)
    <3>1. \A p \in Op : Ended(p)' <=> (Ended(p) \/ p = m.op)
      BY <1>0, <2>2, <2>4, <2>7, MarkEnds
    <3>2. stack' = <<[op |-> m.op, todo |-> Dependents(m.op)]>> \o << >>
      BY <2>7 DEF MarkOperatorFinished
    <3>3. QED BY <1>0, <2>2, <2>3, <2>4, <3>1, <3>2, LoopBegins
  <2>8. QED BY <2>5, <2>6, <2>7
<1>7. ASSUME ProcessDataPipeline \/ ProcessNewBlock PROVE LoopInv'
  <2>1. toStart' = {} /\ UNCHANGED <<stack, finished, rebuildInitiated>>
    BY <1>7 DEF ProcessDataPipeline, ProcessNewBlock, Receive, Idle, control, depState, rebuilds
  <2>2. QED BY <1>0, <2>1, LoopSame
<1>8. ASSUME NEW o \in Op, NEW w \in Worker, DispatchRebuild(o, w) \/ DispatchNormal(o, w)
      PROVE  LoopInv'
  BY <1>0, <1>8, LoopSame DEF DispatchRebuild, DispatchNormal, depState, rebuilds, control, opState
<1>9. ASSUME NEW w \in Worker, WorkerStep(w) PROVE LoopInv'
  BY <1>0, <1>9, LoopSame DEF WorkerStep, ReuseBlock, CreateNewBlock, ReturnFullBlock,
     ReturnPartialBlock, RebuildBlock, SendWorkOrderComplete, depState, rebuilds, control, opState
<1>10. ASSUME UNCHANGED vars PROVE LoopInv'
  BY <1>0, <1>10, LoopSame DEF vars, depState, rebuilds, control, opState
<1>11. QED
  BY <1>1, <1>2, <1>3, <1>4, <1>5, <1>6, <1>7, <1>8, <1>9, <1>10
  DEF Next, Foreman, Dispatch, Terminated
-----------------------------------------------------------------------------
(* The invariant, and what follows from it. *)

(* Nothing has ended or been counted when a query begins. *)
LEMMA EndInit == Init => EndInvariant
<1> SUFFICES ASSUME Init PROVE EndInvariant
  OBVIOUS
<1>1. FlowInvariant
  BY FlowInit
<1>2. EndInv /\ FinishInv /\ LoopInv
  BY SMTT(30) DEF Init, EndInv, FinishInv, LoopInv, Ended
<1>3. RebuildInv
  <2> SUFFICES ASSUME NEW o \in Op
               PROVE  /\ IsFiniteSet(Places(assigned, RebuildOf(o)))
                      /\ numRebuildWorkOrders[o]
                           = Len(rebuildWorkOrders[o]) + Total(assigned, RebuildOf(o))
                               + Count(inbox, MessagesOf("RebuildComplete", o))
    BY DEF RebuildInv
  <2>1. IsFiniteSet(Places(assigned, RebuildOf(o))) /\ Total(assigned, RebuildOf(o)) = 0
    BY NoPlaces, CountingLawsHold DEF Init
  <2>2. /\ Count(inbox, MessagesOf("RebuildComplete", o)) = 0
        /\ numRebuildWorkOrders[o] = 0 /\ Len(rebuildWorkOrders[o]) = 0
    BY CountEmpty DEF Init
  <2>3. QED BY SMTT(30), <2>1, <2>2
<1>4. NumInv
  <2>1. {o \in Op : finished[o]} = {} /\ numFinished = 0
    BY DEF Init
  <2>2. QED BY <2>1, FS_EmptySet DEF NumInv
<1>5. QED BY <1>1, <1>2, <1>3, <1>4 DEF EndInvariant

(* Every step keeps the invariant when the plan is ordered. *)
LEMMA EndInvariantStep == OrderedPlan /\ EndInvariant /\ [Next]_vars => EndInvariant'
<1> SUFFICES ASSUME OrderedPlan, EndInvariant, [Next]_vars PROVE EndInvariant'
  OBVIOUS
<1>1. FlowInvariant'
  BY FlowInvariantStep DEF EndInvariant
<1>2. EndInv' /\ RebuildInv' /\ FinishInv' /\ LoopInv' /\ NumInv'
  BY EndStep, RebuildStep, FinishStep, LoopStep, NumStep
<1>3. QED BY <1>1, <1>2 DEF EndInvariant

(* In an ordered plan the invariant holds in every reachable state. *)
THEOREM EndCorrect == OrderedPlan => (Spec => []EndInvariant)
<1>1. Spec => Init /\ [][Next]_vars
  BY DEF Spec
<1> SUFFICES ASSUME OrderedPlan PROVE Spec => []EndInvariant
  OBVIOUS
<1>2. EndInvariant /\ [Next]_vars => EndInvariant'
  BY EndInvariantStep
<1> QED
  BY <1>1, <1>2, EndInit, PTL

(* In an ordered plan the catalog lists every block of an operator's output    *)
(* relation before the operator finishes.                                      *)
THEOREM OutputIsCataloged == OrderedPlan => (Spec => []CatalogKnowsOutput)
<1> SUFFICES ASSUME OrderedPlan PROVE Spec => []CatalogKnowsOutput
  OBVIOUS
<1>1. EndInvariant => CatalogKnowsOutput
  <2> SUFFICES ASSUME EndInvariant, NEW o \in Op, finished[o] PROVE catalog[o] = Created(o)
    BY DEF CatalogKnowsOutput
  <2>1. \A i \in DOMAIN inbox : inbox[i].op # o
    BY FinishedIsSilent DEF EndInvariant, FlowInvariant, Sound
  <2>2. Created(o) = Made(o, created)
    BY DEF Created, Made
  <2>3. catalog[o] \subseteq Made(o, created) /\ Made(o, created) \subseteq catalog[o]
    BY <2>1 DEF EndInvariant, FlowInvariant, Sound, CatalogInv
  <2>4. QED BY <2>2, <2>3
<1> QED
  BY <1>1, EndCorrect, PTL

(* In an ordered plan nothing refers to a query manager any more when its      *)
(* query is reported as executed.                                              *)
THEOREM ExecutedIsQuiescent == OrderedPlan => (Spec => []QuiescentWhenExecuted)
<1> SUFFICES ASSUME OrderedPlan PROVE Spec => []QuiescentWhenExecuted
  OBVIOUS
<1>1. EndInvariant => QuiescentWhenExecuted
  <2> SUFFICES ASSUME EndInvariant, QueryExecuted
               PROVE  /\ inbox = << >>
                      /\ \A o \in Op : normalWorkOrders[o] = << >> /\ rebuildWorkOrders[o] = << >>
                                       /\ available[o] = << >>
                      /\ \A w \in Worker : assigned[w] = << >>
    BY DEF QuiescentWhenExecuted
  <2>0. /\ TypeOK /\ SchedulingInvariant /\ QueuedInv /\ FollowInv /\ EndInv /\ RebuildInv
        /\ FinishInv /\ NumInv
    BY DEF EndInvariant, FlowInvariant, Sound
  <2>1. \A o \in Op : finished[o]
    <3> DEFINE F == {o \in Op : finished[o]}
    <3>1. IsFiniteSet(Op) /\ Cardinality(Op) = NumOperators
      BY SMTT(30), PlanAssumption, FS_Interval DEF Op
    <3>2. F \subseteq Op /\ Cardinality(F) = NumOperators
      BY <2>0 DEF NumInv, QueryExecuted, HasQueryExecutionFinished
    <3>3. F = Op
      <4> HIDE DEF F
      <4>1. QED BY <3>1, <3>2, FS_Subset
    <3>4. QED BY <3>3
  <2>2. \A o \in Op : normalWorkOrders[o] = << >> /\ available[o] = << >>
    BY <2>0, <2>1 DEF EndInv, Ended
  <2>3. \A o \in Op : rebuildWorkOrders[o] = << >>
    BY <2>0, <2>1, WorkIsOpen
  <2>4. inbox = << >>
    <3> SUFFICES ASSUME inbox # << >> PROVE FALSE
      OBVIOUS
    <3>1. inbox \in Seq(Message)
      BY <2>0 DEF TypeOK
    <3>2. 1 \in DOMAIN inbox /\ inbox[1] \in Message
      BY SMTT(30), <3>1
    <3>3. inbox[1].op \in Op
      BY <3>2 DEF Message
    <3>4. QED BY <2>0, <2>1, <3>2, <3>3, FinishedIsSilent
  <2>5. ASSUME NEW w \in Worker, assigned[w] # << >> PROVE FALSE
    <3>1. assigned[w] \in Seq(WorkOrder)
      BY <2>0 DEF TypeOK
    <3>2. 1 \in DOMAIN assigned[w] /\ assigned[w][1] \in WorkOrder
      BY SMTT(30), <2>5, <3>1
    <3>3. assigned[w][1].op \in Op
      BY <3>2 DEF WorkOrder
    <3>4. QED BY <2>0, <2>1, <3>2, <3>3, FinishedIsSilent
  <2>6. QED BY <2>2, <2>3, <2>4, <2>5
<1> QED
  BY <1>1, EndCorrect, PTL

(* A finished operator's blocks wait nowhere: they have all been streamed. *)
LEMMA FinishedHasStreamed ==
  ASSUME EndInvariant, NEW o \in Op, finished[o], NEW b \in Block, b.from = o
  PROVE  Waiting(o, b) = 0
<1>0. /\ TypeOK /\ SchedulingInvariant /\ QueuedInv /\ FollowInv /\ EndInv /\ RebuildInv
      /\ FinishInv /\ HandInv /\ SentInv /\ FlowInv
      /\ inbox \in Seq(Message) /\ assigned \in [Worker -> Seq(WorkOrder)]
  BY DEF EndInvariant, FlowInvariant, Sound, PlaceInv, TypeOK
<1>1. available[o] = << >> /\ rebuildWorkOrders[o] = << >>
  BY <1>0, WorkIsOpen DEF EndInv, Ended
<1>2. /\ \A w \in Worker : \A i \in DOMAIN assigned[w] : assigned[w][i].op # o
      /\ \A i \in DOMAIN inbox : inbox[i].op # o
  BY <1>0, FinishedIsSilent
<1>3. Count(available[o], {b}) = 0 /\ Count(rebuildWorkOrders[o], {b}) = 0
  BY <1>1, CountEmpty
<1>4. Count(inbox, Streams(b)) = 0
  <2>1. ASSUME NEW i \in DOMAIN inbox, inbox[i] \in Streams(b) PROVE FALSE
    <3>1. b \in Made(inbox[i].op, created)
      BY <1>0, <2>1 DEF Streams, SentInv, BlockMessage
    <3>2. b.from = inbox[i].op
      BY <3>1, MadeFrom
    <3>3. QED BY <1>2, <3>2
  <2>2. QED BY <1>0, <2>1, CountType
<1>5. Total(Hands, Pending(b)) = 0
  <2>1. ASSUME NEW w \in Worker, NEW i \in DOMAIN Hands[w], Hands[w][i] \in Pending(b) PROVE FALSE
    <3> DEFINE a == IF held[w] = NoBlock THEN << >> ELSE <<AsOrder(held[w])>>
               q == IF returned[w] THEN Tail(assigned[w]) ELSE assigned[w]
    <3>1. assigned[w] \in Seq(WorkOrder) /\ held[w] \in Block
      BY <1>0 DEF TypeOK
    <3>2. /\ returned[w] => assigned[w] # << >>
          /\ held[w] # NoBlock => held[w] \in Made(Head(assigned[w]).op, created) /\ assigned[w] # << >>
          /\ \A j \in DOMAIN assigned[w] :
               assigned[w][j].rebuild => assigned[w][j].block \in Made(assigned[w][j].op, created)
      BY <1>0 DEF HandInv, HandOf
    <3>3. q \in Seq(WorkOrder) /\ \A j \in DOMAIN q : \E k \in DOMAIN assigned[w] : q[j] = assigned[w][k]
      <4>1. CASE ~returned[w]
        BY <3>1, <4>1
      <4>2. CASE returned[w]
        <5>1. /\ Tail(assigned[w]) \in Seq(WorkOrder)
              /\ \A j \in DOMAIN Tail(assigned[w]) :
                   j + 1 \in DOMAIN assigned[w] /\ Tail(assigned[w])[j] = assigned[w][j + 1]
          BY SMTT(30), <3>1, <3>2, <4>2
        <5>2. QED BY <4>2, <5>1
      <4>3. QED BY <4>1, <4>2
    <3>4. AsOrder(held[w]) \in WorkOrder
      BY SMTT(30), <3>1, PlanAssumption DEF AsOrder, WorkOrder, Op
    <3>5. a \in Seq(WorkOrder) /\ \A j \in DOMAIN a : a[j] = AsOrder(held[w]) /\ held[w] # NoBlock
      BY SMTT(30), <3>4
    <3>6. Hands[w] = a \o q
      BY DEF Hands, Hand
    <3> HIDE DEF a, q
    <3>7. (\E j \in DOMAIN a : Hands[w][i] = a[j]) \/ (\E j \in DOMAIN q : Hands[w][i] = q[j])
      <4>1. /\ DOMAIN (a \o q) = 1 .. Len(a) + Len(q) /\ Len(a) \in Nat /\ Len(q) \in Nat
            /\ DOMAIN a = 1 .. Len(a) /\ DOMAIN q = 1 .. Len(q)
            /\ \A j \in 1 .. Len(a) : (a \o q)[j] = a[j]
            /\ \A j \in Len(a) + 1 .. Len(a) + Len(q) : (a \o q)[j] = q[j - Len(a)]
        BY SMTT(30), <3>3, <3>5
      <4>2. CASE i <= Len(a)
        BY SMTT(30), <3>6, <4>1, <4>2
      <4>3. CASE i > Len(a)
        <5>1. i \in Len(a) + 1 .. Len(a) + Len(q) /\ i - Len(a) \in 1 .. Len(q)
          BY SMTT(30), <3>6, <4>1, <4>3
        <5>2. QED BY SMTT(30), <3>6, <4>1, <5>1
      <4>4. QED BY SMTT(30), <3>6, <4>1, <4>2, <4>3
    <3>8. CASE \E j \in DOMAIN a : Hands[w][i] = a[j]
      <4>1. held[w] # NoBlock /\ AsOrder(held[w]) \in Pending(b)
        BY <2>1, <3>5, <3>8
      <4>2. held[w] = b
        BY <4>1 DEF AsOrder, Pending
      <4>3. b.from = Head(assigned[w]).op
        BY <3>2, <4>1, <4>2, MadeFrom
      <4>4. 1 \in DOMAIN assigned[w] /\ Head(assigned[w]) = assigned[w][1]
        BY SMTT(30), <3>1, <3>2, <4>1
      <4>5. QED BY <1>2, <4>3, <4>4
    <3>9. CASE \E j \in DOMAIN q : Hands[w][i] = q[j]
      <4>1. PICK k \in DOMAIN assigned[w] : assigned[w][k] \in Pending(b)
        BY <2>1, <3>3, <3>9
      <4>2. b \in Made(assigned[w][k].op, created)
        BY <3>2, <4>1 DEF Pending
      <4>3. b.from = assigned[w][k].op
        BY <4>2, MadeFrom
      <4>4. QED BY <1>2, <4>3
    <3>10. QED BY <3>7, <3>8, <3>9
  <2>2. Places(Hands, Pending(b)) = {}
    BY <2>1 DEF Places, Hands
  <2>3. QED BY <2>2, FS_EmptySet DEF Total
<1>6. QED BY SMTT(30), <1>3, <1>4, <1>5 DEF Waiting

(* A sequence without repetition is as long as its range is large. *)
LEMMA RangeCardinality ==
  ASSUME NEW S, NEW s \in Seq(S), \A i, j \in DOMAIN s : s[i] = s[j] => i = j
  PROVE  Cardinality(RangeOf(s)) = Len(s)
<1>1. DOMAIN s = 1 .. Len(s) /\ Len(s) \in Nat
  BY SMTT(30)
<1>2. IsFiniteSet(1 .. Len(s)) /\ Cardinality(1 .. Len(s)) = Len(s)
  BY SMTT(30), <1>1, FS_Interval
<1> DEFINE f == [i \in 1 .. Len(s) |-> s[i]]
<1>3. f \in [1 .. Len(s) -> RangeOf(s)] /\ \A i \in 1 .. Len(s) : f[i] = s[i]
  BY <1>1 DEF RangeOf
<1> HIDE DEF f
<1>4. /\ \A i, j \in 1 .. Len(s) : f[i] = f[j] => i = j
      /\ \A b \in RangeOf(s) : \E i \in 1 .. Len(s) : f[i] = b
  BY <1>1, <1>3 DEF RangeOf
<1>5. f \in Bijection(1 .. Len(s), RangeOf(s))
  BY <1>3, <1>4 DEF Bijection, Injection, Surjection, IsInjective
<1>6. ExistsBijection(1 .. Len(s), RangeOf(s))
  BY <1>5 DEF ExistsBijection
<1>7. QED BY <1>2, <1>6, FS_Bijection

(* What is counted once is at one position. *)
LEMMA CountedOnce ==
  ASSUME NEW S, NEW s \in Seq(S), NEW i \in DOMAIN s, NEW j \in DOMAIN s, s[i] = s[j],
         Count(s, {s[i]}) <= 1
  PROVE  i = j
<1> DEFINE P == Positions(s, {s[i]})
<1>1. IsFiniteSet(P) /\ Cardinality(P) <= 1 /\ Cardinality(P) \in Nat
  BY CountType DEF Count
<1>2. i \in P /\ j \in P
  BY DEF Positions
<1> HIDE DEF P
<1>3. SUFFICES ASSUME i # j PROVE FALSE
  OBVIOUS
<1>4. IsFiniteSet({i}) /\ Cardinality({i}) = 1 /\ j \notin {i}
  BY <1>3, FS_Singleton
<1>5. Cardinality({i} \cup {j}) = Cardinality({i}) + 1
  BY <1>4, FS_AddElement
<1>6. {i} \cup {j} \subseteq P
  BY <1>2
<1>7. Cardinality({i} \cup {j}) <= Cardinality(P)
  BY <1>1, <1>6, FS_Subset
<1>8. PICK m \in Nat : m = Cardinality(P)
  BY <1>1
<1>9. 1 + 1 <= m /\ m <= 1
  BY ONLY Zenon, <1>1, <1>4, <1>5, <1>7, <1>8
<1>10. QED BY ONLY SMTT(30), <1>8, <1>9

(* In an ordered plan whose streamed inputs are pipelined, an operator that    *)
(* finishes has been fed every block of its input relations exactly once and   *)
(* has made work orders of them.                                               *)
THEOREM BlocksAreNotLost == OrderedPlan /\ InputsPipelined => (Spec => []NoBlockLost)
<1> SUFFICES ASSUME OrderedPlan, InputsPipelined PROVE Spec => []NoBlockLost
  OBVIOUS
<1>1. EndInvariant => NoBlockLost
  <2> SUFFICES ASSUME EndInvariant, NEW o \in Op, finished[o], Kind[o] # "stored"
               PROVE  /\ numGenerated[o] = Len(fed[o])
                      /\ RangeOf(fed[o]) = UNION {Created(p) : p \in Input[o]}
                      /\ Cardinality(RangeOf(fed[o])) = Len(fed[o])
    BY DEF NoBlockLost
  <2>0. /\ WellFormedPlan /\ FlowInvariant /\ TypeOK /\ SchedulingInvariant /\ StartInv /\ FedInv
        /\ FlowInv /\ fed[o] \in Seq(Block) /\ Input[o] \subseteq Op
    BY PlanAssumption DEF EndInvariant, FlowInvariant, Sound, PlaceInv, TypeOK, OrderedPlan
  <2>1. storedGenerated[o] /\ \A p \in Dependencies(o) : finished[p]
    BY <2>0, EndedIsLast DEF Ended
  <2>2. numGenerated[o] = Len(fed[o])
    BY <2>0, <2>1 DEF StartInv
  <2>3. \A p : Created(p) = Made(p, created)
    BY DEF Created, Made
  <2>4. ASSUME NEW i \in DOMAIN fed[o]
        PROVE  \E p \in Input[o] : p \in Op /\ fed[o][i] \in Made(p, created) /\ fed[o][i].from = p
    BY SMTT(30), <2>0, MadeFrom DEF FedInv
  <2>5. RangeOf(fed[o]) \subseteq UNION {Created(p) : p \in Input[o]}
    BY SMTT(30), <2>3, <2>4 DEF RangeOf
  <2>6. ASSUME NEW p \in Input[o], NEW b \in Made(p, created) PROVE b \in RangeOf(fed[o])
    <3>1. p \in Op /\ <<p, o>> \in Link \ Breaker
      BY <2>0 DEF InputsPipelined
    <3>2. p \in Dependencies(o) /\ Reads(o, p)
      BY <3>1 DEF Dependencies, Reads, OutputConsumers
    <3>3. b \in Block /\ b.from = p
      <4>1. created[p] \in Nat
        BY <2>0, <3>1 DEF TypeOK
      <4>2. QED BY SMTT(30), <3>1, <4>1 DEF Made, Block
    <3>4. Waiting(p, b) = 0
      BY <2>1, <3>1, <3>2, <3>3, FinishedHasStreamed
    <3>5. Waiting(p, b) + Count(fed[o], {b}) = 1
      BY <2>0, <3>1, <3>2, <3>3 DEF FlowInv, FlowOf, One
    <3>6. Count(fed[o], {b}) # 0
      BY SMTT(30), <3>4, <3>5
    <3>7. \E i \in DOMAIN fed[o] : fed[o][i] \in {b}
      BY <2>0, <3>6, CountType
    <3>8. QED BY <3>7 DEF RangeOf
  <2>7. RangeOf(fed[o]) = UNION {Created(p) : p \in Input[o]}
    BY <2>3, <2>5, <2>6
  <2>8. ASSUME NEW i \in DOMAIN fed[o], NEW j \in DOMAIN fed[o], fed[o][i] = fed[o][j] PROVE i = j
    <3>1. PICK p \in Op : fed[o][i].from = p
      BY <2>4
    <3>2. PICK b \in Block : b = fed[o][i]
      BY SMTT(30), <2>0
    <3>3. /\ Waiting(p, b) \in Nat /\ Waiting(p, b) + Count(fed[o], {b}) <= One(b, Made(p, created))
      BY <2>0, <3>1, <3>2, FlowTypes, TypedIsSound DEF FlowInv, FlowOf
    <3>4. Count(fed[o], {b}) \in Nat /\ One(b, Made(p, created)) \in {0, 1}
      BY <2>0, CountType DEF One
    <3>5. Count(fed[o], {b}) <= 1
      BY ONLY SMTT(30), <3>3, <3>4
    <3>6. QED BY <2>0, <2>8, <3>2, <3>5, CountedOnce
  <2>9. Cardinality(RangeOf(fed[o])) = Len(fed[o])
    BY <2>0, <2>8, RangeCardinality
  <2>10. QED BY <2>2, <2>7, <2>9
<1> QED
  BY <1>1, EndCorrect, PTL
=============================================================================
