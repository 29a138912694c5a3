-------------------------- MODULE QueryFlowProofs --------------------------
(* What a query plan's execution keeps of its work orders, its messages and    *)
(* its output blocks: the counters of the query manager are exact and every    *)
(* block is in one place.  Proved by counting: the work orders at the workers  *)
(* with Total, the messages and the block lists with Count (SequenceCounts).   *)
EXTENDS QueryManager, Counting, TLAPS

USE ZenonT(60)

(* What every lemma about a state starts from: its variables have their types, *)
(* and the laws of counting.                                                   *)
Sound == TypeOK /\ CountingLaws

NormalOf(o)  == {x \in WorkOrder : x.op = o /\ ~x.rebuild}
RebuildOf(o) == {x \in WorkOrder : x.op = o /\ x.rebuild}
MessagesOf(type, o) == {m \in Message : m.type = type /\ m.op = o}

(* The blocks that operator o's InsertDestination has created when n counts    *)
(* them: Created(o) = Made(o, created).                                        *)
Made(o, n) == {[from |-> o, id |-> i] : i \in 1 .. n[o]}

(* queued_workorders_per_op_, as a sum over workers and messages. *)
QueuedInv ==
  \A o \in Op :
    /\ IsFiniteSet(Places(assigned, NormalOf(o)))
    /\ queuedWorkOrders[o]
         = Total(assigned, NormalOf(o)) + Count(inbox, MessagesOf("Complete", o))

(* A worker's queue is bounded, it holds an output block only of the operator  *)
(* whose work order it runs, and rebuild work orders are for blocks of their   *)
(* operator's output.                                                          *)
HandOf(w) ==
  /\ Len(assigned[w]) <= MaxLoad
  /\ returned[w] => assigned[w] # << >>
  /\ held[w] # NoBlock =>
       /\ assigned[w] # << >> /\ ~returned[w]
       /\ ~Head(assigned[w]).rebuild /\ Head(assigned[w]).op \in Destination
       /\ held[w] \in Made(Head(assigned[w]).op, created)
  /\ \A i \in DOMAIN assigned[w] :
       assigned[w][i].rebuild => assigned[w][i].block \in Made(assigned[w][i].op, created)
HandInv == \A w \in Worker : HandOf(w)

(* An InsertDestination's pool and an operator's rebuild work orders hold      *)
(* blocks of the operator's output relation.                                   *)
ListInv ==
  \A o \in Op :
    /\ available[o] # << >> => o \in Destination
    /\ \A i \in DOMAIN available[o] : available[o][i] \in Made(o, created)
    /\ \A i \in DOMAIN rebuildWorkOrders[o] : rebuildWorkOrders[o][i] \in Made(o, created)

(* Messages name blocks of their operator's output relation, and an operator   *)
(* is fed blocks of the relations that it streams.                             *)
BlockMessage == {"NewBlock", "DataPipeline"}
SentInv ==
  \A i \in DOMAIN inbox : inbox[i].type \in BlockMessage => inbox[i].block \in Made(inbox[i].op, created)
FedInv ==
  \A c \in Op : \A i \in DOMAIN fed[c] :
    \E p \in Input[c] : c \in OutputConsumers(p) /\ fed[c][i] \in Made(p, created)

PlaceInv == HandInv /\ ListInv /\ SentInv /\ FedInv

(* A block of an operator is in the catalog or is still being announced. *)
CatalogInv ==
  \A o \in Op :
    /\ catalog[o] \subseteq Made(o, created)
    /\ \A b \in Made(o, created) :
         \/ b \in catalog[o]
         \/ \E i \in DOMAIN inbox :
              inbox[i].type = "NewBlock" /\ inbox[i].op = o /\ inbox[i].block = b

(* A worker sends the completion of a work order after what it sent while      *)
(* running it: behind a message about a block there is a completion of the     *)
(* same operator, or a worker still runs a work order of it.                   *)
Followed(i) ==
  \/ \E j \in DOMAIN inbox :
       i < j /\ inbox[j].type \notin BlockMessage /\ inbox[j].op = inbox[i].op
  \/ \E w \in Worker : assigned[w] # << >> /\ Head(assigned[w]).op = inbox[i].op
FollowInv == \A i \in DOMAIN inbox : inbox[i].type \in BlockMessage => Followed(i)

(* What was fed to an operator that has been asked for work has become work    *)
(* orders; one that was never asked has had none.                              *)
StartInv ==
  \A o \in Op :
    /\ storedGenerated[o] => numGenerated[o] = Len(fed[o])
    /\ ~storedGenerated[o] =>
         normalWorkOrders[o] = << >> /\ queuedWorkOrders[o] = 0 /\ created[o] = 0

(* Where a block waits until it is streamed to the consumers: in the pool,     *)
(* among the rebuild work orders, at a worker - which is filling it or has yet *)
(* to rebuild it - or in a DataPipeline message.  A worker's hand is a         *)
(* sequence of work orders; the block that it fills counts as one.             *)
AsOrder(b)    == [op |-> 0, rebuild |-> TRUE, block |-> b]
Hand(h, r, q) == (IF h = NoBlock THEN << >> ELSE <<AsOrder(h)>>) \o (IF r THEN Tail(q) ELSE q)
Hands         == [w \in Worker |-> Hand(held[w], returned[w], assigned[w])]
Pending(b)    == {x \in WorkOrder : x.rebuild /\ x.block = b}
Streams(b)    == {m \in Message : m.type = "DataPipeline" /\ m.block = b}
Waiting(o, b) ==
  Count(available[o], {b}) + Count(rebuildWorkOrders[o], {b})
    + Total(Hands, Pending(b)) + Count(inbox, Streams(b))

(* A block is waiting in one place or has been fed, once, to each operator     *)
(* that reads its relation; to others it may never be fed.                     *)
Reads(c, o) == c \in OutputConsumers(o) /\ o \in Input[c]
FlowOf(o, b) ==
  /\ IsFiniteSet(Places(Hands, Pending(b)))
  /\ \A c \in Op :
       /\ Waiting(o, b) + Count(fed[c], {b}) <= One(b, Made(o, created))
       /\ Reads(c, o) => Waiting(o, b) + Count(fed[c], {b}) = One(b, Made(o, created))
FlowInv == \A o \in Op : \A b \in Block : b.from = o => FlowOf(o, b)

-----------------------------------------------------------------------------
(* Counting messages and work orders. *)

(* What is added to the end of a queue leaves its head. *)
LEMMA LongerQueue ==
  \A S : \A q \in Seq(S) : \A e \in S :
    /\ Len(Append(q, e)) = Len(q) + 1 /\ Append(q, e) # << >>
    /\ q # << >> => Head(Append(q, e)) = Head(q)
<1> SUFFICES ASSUME NEW S, NEW q \in Seq(S), NEW e \in S
             PROVE  /\ Len(Append(q, e)) = Len(q) + 1 /\ Append(q, e) # << >>
                    /\ q # << >> => Head(Append(q, e)) = Head(q)
  OBVIOUS
<1>1. Len(Append(q, e)) = Len(q) + 1 /\ Len(q) \in Nat
  BY SMTT(30)
<1>2. Append(q, e) # << >>
  BY SMTT(30), <1>1
<1>3. q # << >> => Head(Append(q, e)) = Head(q)
  BY SMTT(30)
<1>4. QED BY <1>1, <1>2, <1>3

(* A worker's message adds one to the messages of its kind. *)
LEMMA SentCount ==
  ASSUME Sound, NEW t, NEW o, NEW b, [type |-> t, op |-> o, block |-> b] \in Message,
         Send(t, o, b), NEW X
  PROVE  /\ Count(inbox, X) \in Nat /\ Count(inbox', X) \in Nat
         /\ Count(inbox', X) = Count(inbox, X) + One([type |-> t, op |-> o, block |-> b], X)
<1> TypeOK /\ CountingLaws BY DEF Sound
<1> DEFINE m == [type |-> t, op |-> o, block |-> b]
<1>1. inbox \in Seq(Message) /\ inbox' = Append(inbox, m) /\ m \in Message
  BY DEF TypeOK, Send
<1> HIDE DEF m
<1>2. Count(inbox', X) = Count(inbox, X) + One(m, X)
  BY <1>1 DEF CountingLaws, AppendCounts
<1>3. Count(inbox, X) \in Nat
  BY <1>1 DEF CountingLaws, CountTypes
<1>4. QED BY SMTT(30), <1>2, <1>3 DEF m, One

(* The message the foreman receives is about an operator. *)
LEMMA FirstOperator ==
  ASSUME Sound, NEW t, Receive(t)
  PROVE  Head(inbox).op \in Op
<1> TypeOK /\ CountingLaws BY DEF Sound
<1>1. Head(inbox) \in Message
  BY SMTT(30) DEF TypeOK, Receive
<1>2. QED BY <1>1 DEF Message

(* The foreman takes one message. *)
LEMMA ReceivedCount ==
  ASSUME Sound, NEW t, Receive(t), NEW X
  PROVE  /\ Count(inbox, X) \in Nat /\ Count(inbox', X) \in Nat
         /\ Count(inbox, X) = Count(inbox', X) + One(Head(inbox), X)
<1> TypeOK /\ CountingLaws BY DEF Sound
<1>1. inbox \in Seq(Message) /\ inbox # << >> /\ inbox' = Tail(inbox)
  BY DEF TypeOK, Receive
<1>2. inbox' \in Seq(Message)
  BY SMTT(30), <1>1
<1>3. Count(inbox, X) = Count(inbox', X) + One(Head(inbox), X)
  BY <1>1 DEF CountingLaws, TailCounts
<1>4. QED BY <1>1, <1>2, <1>3 DEF CountingLaws, CountTypes

-----------------------------------------------------------------------------
(* The counter of queued work orders. *)

(* What the workers send and run is well typed. *)
LEMMA RunningOrder ==
  ASSUME Sound, NEW w \in Worker, assigned[w] # << >>
  PROVE  /\ Head(assigned[w]) \in WorkOrder /\ Tail(assigned[w]) \in Seq(WorkOrder)
         /\ Head(assigned[w]).op \in Op /\ Head(assigned[w]).rebuild \in BOOLEAN
         /\ Head(assigned[w]).block \in Block
         /\ 1 \in DOMAIN assigned[w] /\ assigned[w][1] = Head(assigned[w])
<1> TypeOK /\ CountingLaws BY DEF Sound
<1>1. assigned[w] \in Seq(WorkOrder)
  BY DEF TypeOK
<1>2. /\ Head(assigned[w]) \in WorkOrder /\ Tail(assigned[w]) \in Seq(WorkOrder)
      /\ 1 \in DOMAIN assigned[w] /\ assigned[w][1] = Head(assigned[w])
  BY SMTT(30), <1>1
<1>3. QED BY <1>2 DEF WorkOrder

(* A worker's queue changes: so do the work orders of a kind at workers. *)
LEMMA WorkChanged ==
  ASSUME Sound, NEW w \in Worker, NEW t \in Seq(WorkOrder),
         assigned' = [assigned EXCEPT ![w] = t], NEW X, IsFiniteSet(Places(assigned, X))
  PROVE  /\ IsFiniteSet(Places(assigned', X))
         /\ Total(assigned', X) \in Nat /\ Total(assigned, X) \in Nat
         /\ Count(assigned[w], X) \in Nat /\ Count(t, X) \in Nat
         /\ Total(assigned', X) + Count(assigned[w], X) = Total(assigned, X) + Count(t, X)
<1> TypeOK /\ CountingLaws BY DEF Sound
<1>1. assigned \in [Worker -> Seq(WorkOrder)]
  BY DEF TypeOK
<1>2. assigned' \in [Worker -> Seq(WorkOrder)] /\ assigned'[w] = t
      /\ \A v \in Worker \ {w} : assigned'[v] = assigned[v]
  BY <1>1
<1>3. assigned \in Queues(Worker, WorkOrder) /\ assigned' \in Queues(Worker, WorkOrder)
  BY <1>1, <1>2 DEF Queues
<1>4. w \in Worker /\ IsFiniteSet(Places(assigned, X))
  OBVIOUS
<1>5. \A v \in Worker \ {w} : assigned'[v] = assigned[v]
  BY <1>2
<1>6. /\ IsFiniteSet(Places(assigned', X))
      /\ Total(assigned, X) \in Nat /\ Total(assigned', X) \in Nat
      /\ Total(assigned', X) + Count(assigned[w], X) = Total(assigned, X) + Count(assigned'[w], X)
  BY ONLY SMTT(30), <1>3, <1>4, <1>5, CountingLaws DEF CountingLaws, TotalChanges
<1>7. Count(assigned[w], X) \in Nat /\ Count(t, X) \in Nat
  BY <1>1 DEF CountingLaws, CountTypes
<1>8. QED BY <1>2, <1>6, <1>7

(* A dispatched work order joins a worker's queue. *)
LEMMA DispatchedTotal ==
  ASSUME Sound, NEW w \in Worker, NEW x \in WorkOrder,
         assigned' = [assigned EXCEPT ![w] = Append(@, x)], NEW X, IsFiniteSet(Places(assigned, X))
  PROVE  /\ IsFiniteSet(Places(assigned', X))
         /\ Total(assigned', X) \in Nat /\ Total(assigned, X) \in Nat
         /\ Total(assigned', X) = Total(assigned, X) + One(x, X)
<1> TypeOK /\ CountingLaws BY DEF Sound
<1>1. assigned[w] \in Seq(WorkOrder)
  BY DEF TypeOK
<1> DEFINE t == Append(assigned[w], x)
<1>2. t \in Seq(WorkOrder) /\ assigned' = [assigned EXCEPT ![w] = t]
  BY SMTT(30), <1>1
<1>3. Count(t, X) = Count(assigned[w], X) + One(x, X)
  BY <1>1 DEF CountingLaws, AppendCounts
<1> HIDE DEF t
<1>4. /\ IsFiniteSet(Places(assigned', X))
      /\ Total(assigned', X) \in Nat /\ Total(assigned, X) \in Nat
      /\ Count(assigned[w], X) \in Nat /\ Count(t, X) \in Nat
      /\ Total(assigned', X) + Count(assigned[w], X) = Total(assigned, X) + Count(t, X)
  BY <1>2, WorkChanged
<1>5. One(x, X) \in Nat
  BY DEF One
<1>6. QED BY ONLY SMTT(30), <1>3, <1>4, <1>5

(* A completed work order leaves it. *)
LEMMA CompletedTotal ==
  ASSUME Sound, NEW w \in Worker, assigned[w] # << >>,
         assigned' = [assigned EXCEPT ![w] = Tail(@)], NEW X, IsFiniteSet(Places(assigned, X))
  PROVE  /\ IsFiniteSet(Places(assigned', X))
         /\ Total(assigned', X) \in Nat /\ Total(assigned, X) \in Nat
         /\ Total(assigned, X) = Total(assigned', X) + One(Head(assigned[w]), X)
<1> TypeOK /\ CountingLaws BY DEF Sound
<1>1. assigned[w] \in Seq(WorkOrder)
  BY DEF TypeOK
<1> DEFINE t == Tail(assigned[w])
<1>2. t \in Seq(WorkOrder) /\ assigned' = [assigned EXCEPT ![w] = t]
  BY SMTT(30), <1>1
<1>3. Count(assigned[w], X) = Count(t, X) + One(Head(assigned[w]), X)
  BY <1>1 DEF CountingLaws, TailCounts
<1> HIDE DEF t
<1>4. /\ IsFiniteSet(Places(assigned', X))
      /\ Total(assigned', X) \in Nat /\ Total(assigned, X) \in Nat
      /\ Count(assigned[w], X) \in Nat /\ Count(t, X) \in Nat
      /\ Total(assigned', X) + Count(assigned[w], X) = Total(assigned, X) + Count(t, X)
  BY <1>2, WorkChanged
<1>5. One(Head(assigned[w]), X) \in Nat
  BY DEF One
<1>6. QED BY ONLY SMTT(30), <1>3, <1>4, <1>5

(* A message of another type is received. *)
LEMMA OtherReceived ==
  ASSUME Sound, NEW t, Receive(t), NEW u, u # t, NEW o
  PROVE  Count(inbox', MessagesOf(u, o)) = Count(inbox, MessagesOf(u, o))
<1>1. Head(inbox) \notin MessagesOf(u, o)
  BY DEF Receive, MessagesOf
<1>2. One(Head(inbox), MessagesOf(u, o)) = 0
  BY <1>1 DEF One
<1>3. QED BY SMTT(30), <1>2, ReceivedCount

(* A message of another type is sent. *)
LEMMA OtherSent ==
  ASSUME Sound, NEW t, NEW p, NEW b, [type |-> t, op |-> p, block |-> b] \in Message,
         Send(t, p, b), NEW u, u # t, NEW o
  PROVE  Count(inbox', MessagesOf(u, o)) = Count(inbox, MessagesOf(u, o))
<1> DEFINE m == [type |-> t, op |-> p, block |-> b]
<1>1. m \notin MessagesOf(u, o)
  BY DEF MessagesOf
<1>2. One(m, MessagesOf(u, o)) = 0
  BY <1>1 DEF One
<1> HIDE DEF m
<1>3. /\ Count(inbox, MessagesOf(u, o)) \in Nat
      /\ Count(inbox', MessagesOf(u, o)) = Count(inbox, MessagesOf(u, o)) + One(m, MessagesOf(u, o))
  BY SentCount DEF m
<1>4. QED BY SMTT(30), <1>2, <1>3

(* A step that moves no normal work order and no completion of one. *)
LEMMA QueuedSame ==
  ASSUME QueuedInv, UNCHANGED <<queuedWorkOrders, assigned>>,
         \A o \in Op : Count(inbox', MessagesOf("Complete", o))
                         = Count(inbox, MessagesOf("Complete", o))
  PROVE  QueuedInv'
BY QueuedSame DEF QueuedInv

(* The foreman's and the workers' steps keep the counter exact. *)
LEMMA QueuedStep == Sound /\ QueuedInv /\ [Next]_vars => QueuedInv'
<1> SUFFICES ASSUME Sound, QueuedInv, [Next]_vars PROVE QueuedInv'
  OBVIOUS
<1> TypeOK /\ CountingLaws BY DEF Sound
<1>0. NoBlock \in Block
  BY DEF NoBlock, Block
<1>1. ASSUME UNCHANGED <<queuedWorkOrders, assigned, inbox>> PROVE QueuedInv'
  BY <1>1, QueuedSame
<1>2. ASSUME NEW o \in Op,
             StartOperator(o) \/ NotifyBlockedDependent(o) \/ NotifyReadyDependent(o)
      PROVE  QueuedInv'
  BY <1>1, <1>2
  DEF StartOperator, NotifyBlockedDependent, NotifyReadyDependent, queues, workers
<1>3. ASSUME ReturnFromMarkFinished PROVE QueuedInv'
  BY <1>1, <1>3 DEF ReturnFromMarkFinished, queues, workers
<1>4. ASSUME ProcessWorkOrderComplete PROVE QueuedInv'
  <2>0. Receive("Complete") /\ assigned' = assigned
    BY <1>4 DEF ProcessWorkOrderComplete, workers
  <2>1. Head(inbox) \in Message /\ Head(inbox).op \in Op /\ Head(inbox).type = "Complete"
    <3>1. inbox \in Seq(Message) /\ inbox # << >>
      BY <2>0 DEF Receive, TypeOK
    <3>2. Head(inbox) \in Message
      BY SMTT(30), <3>1
    <3>3. QED BY <2>0, <3>2 DEF Receive, Message
  <2>2. queuedWorkOrders' = [queuedWorkOrders EXCEPT ![Head(inbox).op] = @ - 1]
    BY <1>4 DEF ProcessWorkOrderComplete
  <2>3. ASSUME NEW o \in Op
        PROVE  /\ IsFiniteSet(Places(assigned', NormalOf(o)))
               /\ queuedWorkOrders'[o]
                    = Total(assigned', NormalOf(o)) + Count(inbox', MessagesOf("Complete", o))
    <3> DEFINE X == MessagesOf("Complete", o)
    <3>1. Head(inbox) \in X <=> o = Head(inbox).op
      BY <2>1 DEF MessagesOf
    <3>2. One(Head(inbox), X) = IF o = Head(inbox).op THEN 1 ELSE 0
      BY <3>1 DEF One
    <3> HIDE DEF X
    <3>3. /\ Count(inbox, X) \in Nat /\ Count(inbox', X) \in Nat
          /\ Count(inbox, X) = Count(inbox', X) + One(Head(inbox), X)
      BY <2>0, ReceivedCount
    <3>4. /\ IsFiniteSet(Places(assigned, NormalOf(o)))
          /\ queuedWorkOrders[o] = Total(assigned, NormalOf(o)) + Count(inbox, X)
      BY DEF QueuedInv, X
    <3>5. Total(assigned, NormalOf(o)) \in Nat
      BY <3>4 DEF CountingLaws, SetSizes, Total
    <3>6. queuedWorkOrders'[o] = queuedWorkOrders[o] - IF o = Head(inbox).op THEN 1 ELSE 0
      <4>1. queuedWorkOrders \in [Op -> Int]
        BY DEF TypeOK
      <4>2. CASE o = Head(inbox).op
        BY <2>2, <4>1, <4>2
      <4>3. CASE o # Head(inbox).op
        BY SMTT(30), <2>2, <4>1, <4>3
      <4>4. QED BY <4>2, <4>3
    <3>7. queuedWorkOrders'[o] = Total(assigned, NormalOf(o)) + Count(inbox', X)
      BY ONLY SMTT(30), <3>2, <3>3, <3>4, <3>5, <3>6
    <3>8. QED BY <2>0, <3>4, <3>7 DEF X
  <2>4. QED BY <2>3 DEF QueuedInv
<1>5. ASSUME ProcessRebuildWorkOrderComplete PROVE QueuedInv'
  BY SMTT(30), <1>5, OtherReceived, QueuedSame DEF ProcessRebuildWorkOrderComplete, queues, workers
<1>6. ASSUME ProcessDataPipeline PROVE QueuedInv'
  BY SMTT(30), <1>6, OtherReceived, QueuedSame DEF ProcessDataPipeline, workers
<1>7. ASSUME ProcessNewBlock PROVE QueuedInv'
  BY SMTT(30), <1>7, OtherReceived, QueuedSame DEF ProcessNewBlock, queues, workers
<1>8. ASSUME NEW o \in Op, NEW w \in Worker, DispatchRebuild(o, w) PROVE QueuedInv'
  <2> DEFINE x == [op |-> o, rebuild |-> TRUE, block |-> Head(rebuildWorkOrders[o])]
  <2>1. rebuildWorkOrders[o] \in Seq(Block) /\ rebuildWorkOrders[o] # << >>
    BY <1>8 DEF DispatchRebuild, TypeOK
  <2>2. x \in WorkOrder /\ \A p : x \notin NormalOf(p)
    BY SMTT(30), <2>1 DEF WorkOrder, NormalOf
  <2>3. /\ assigned' = [assigned EXCEPT ![w] = Append(@, x)]
        /\ UNCHANGED <<queuedWorkOrders, inbox>>
    BY <1>8 DEF DispatchRebuild, queues
  <2> HIDE DEF x
  <2>4. ASSUME NEW p \in Op
        PROVE  /\ IsFiniteSet(Places(assigned', NormalOf(p)))
               /\ Total(assigned', NormalOf(p)) = Total(assigned, NormalOf(p))
    <3>1. IsFiniteSet(Places(assigned, NormalOf(p)))
      BY DEF QueuedInv
    <3>2. One(x, NormalOf(p)) = 0
      BY <2>2 DEF One
    <3>3. /\ IsFiniteSet(Places(assigned', NormalOf(p))) /\ Total(assigned, NormalOf(p)) \in Nat
          /\ Total(assigned', NormalOf(p)) = Total(assigned, NormalOf(p)) + One(x, NormalOf(p))
      BY <2>2, <2>3, <3>1, DispatchedTotal
    <3>4. QED BY ONLY SMTT(30), <3>2, <3>3
  <2>5. QED BY <2>3, <2>4 DEF QueuedInv
<1>9. ASSUME NEW o \in Op, NEW w \in Worker, DispatchNormal(o, w) PROVE QueuedInv'
  <2> DEFINE x == [op |-> o, rebuild |-> FALSE, block |-> Head(normalWorkOrders[o])]
  <2>1. normalWorkOrders[o] \in Seq(Block) /\ normalWorkOrders[o] # << >>
    BY <1>9 DEF DispatchNormal, TypeOK
  <2>2. x \in WorkOrder /\ \A p : x \in NormalOf(p) <=> p = o
    BY SMTT(30), <2>1 DEF WorkOrder, NormalOf
  <2>3. /\ assigned' = [assigned EXCEPT ![w] = Append(@, x)] /\ inbox' = inbox
        /\ queuedWorkOrders' = [queuedWorkOrders EXCEPT ![o] = @ + 1]
    BY <1>9 DEF DispatchNormal
  <2> HIDE DEF x
  <2>4. ASSUME NEW p \in Op
        PROVE  /\ IsFiniteSet(Places(assigned', NormalOf(p)))
               /\ queuedWorkOrders'[p]
                    = Total(assigned', NormalOf(p)) + Count(inbox', MessagesOf("Complete", p))
    <3>1. /\ IsFiniteSet(Places(assigned, NormalOf(p)))
          /\ queuedWorkOrders[p]
               = Total(assigned, NormalOf(p)) + Count(inbox, MessagesOf("Complete", p))
      BY DEF QueuedInv
    <3>2. One(x, NormalOf(p)) = IF p = o THEN 1 ELSE 0
      BY <2>2 DEF One
    <3>3. /\ IsFiniteSet(Places(assigned', NormalOf(p)))
          /\ Total(assigned', NormalOf(p)) \in Nat /\ Total(assigned, NormalOf(p)) \in Nat
          /\ Total(assigned', NormalOf(p)) = Total(assigned, NormalOf(p)) + One(x, NormalOf(p))
      BY <2>2, <2>3, <3>1, DispatchedTotal
    <3>4. queuedWorkOrders'[p] = queuedWorkOrders[p] + IF p = o THEN 1 ELSE 0
      <4>1. queuedWorkOrders \in [Op -> Int]
        BY DEF TypeOK
      <4>2. CASE p = o
        BY <2>3, <4>1, <4>2
      <4>3. CASE p # o
        BY SMTT(30), <2>3, <4>1, <4>3
      <4>4. QED BY <4>2, <4>3
    <3>5. Count(inbox, MessagesOf("Complete", p)) \in Nat
      BY DEF CountingLaws, CountTypes, TypeOK
    <3>6. queuedWorkOrders'[p]
            = Total(assigned', NormalOf(p)) + Count(inbox, MessagesOf("Complete", p))
      BY ONLY SMTT(30), <3>1, <3>2, <3>3, <3>4, <3>5
    <3>7. QED BY <2>3, <3>3, <3>6
  <2>5. QED BY <2>4 DEF QueuedInv
<1>10. ASSUME NEW w \in Worker, ReuseBlock(w) \/ ReturnPartialBlock(w) PROVE QueuedInv'
  BY <1>1, <1>10 DEF ReuseBlock, ReturnPartialBlock, queues
<1>11. ASSUME NEW w \in Worker, CreateNewBlock(w) PROVE QueuedInv'
  <2> DEFINE o == Head(assigned[w]).op
             b == [from |-> o, id |-> created[o] + 1]
  <2>1. o \in Op
    BY <1>11, RunningOrder DEF CreateNewBlock, Running
  <2>2. [type |-> "NewBlock", op |-> o, block |-> b] \in Message
    BY SMTT(30), <2>1 DEF Message, Block, TypeOK
  <2>3. Send("NewBlock", o, b) /\ UNCHANGED <<queuedWorkOrders, assigned>>
    BY <1>11 DEF CreateNewBlock, queues
  <2> HIDE DEF o, b
  <2>4. QED BY SMTT(30), <2>2, <2>3, OtherSent, QueuedSame
<1>12. ASSUME NEW w \in Worker, ReturnFullBlock(w) PROVE QueuedInv'
  <2>1. Head(assigned[w]).op \in Op
    BY <1>12, RunningOrder DEF ReturnFullBlock, Running
  <2>2. [type |-> "DataPipeline", op |-> Head(assigned[w]).op, block |-> held[w]] \in Message
    BY <2>1 DEF Message, TypeOK
  <2>3. Send("DataPipeline", Head(assigned[w]).op, held[w])
        /\ UNCHANGED <<queuedWorkOrders, assigned>>
    BY <1>12 DEF ReturnFullBlock, queues
  <2>4. QED BY SMTT(30), <2>2, <2>3, OtherSent, QueuedSame
<1>13. ASSUME NEW w \in Worker, RebuildBlock(w) PROVE QueuedInv'
  <2> DEFINE x == Head(assigned[w])
  <2>1. x.op \in Op /\ x.block \in Block
    BY <1>13, RunningOrder DEF RebuildBlock, Running
  <2>2. [type |-> "DataPipeline", op |-> x.op, block |-> x.block] \in Message
    BY <2>1 DEF Message
  <2>3. Send("DataPipeline", x.op, x.block) /\ UNCHANGED <<queuedWorkOrders, assigned>>
    BY <1>13 DEF RebuildBlock, queues
  <2> HIDE DEF x
  <2>4. QED BY SMTT(30), <2>2, <2>3, OtherSent, QueuedSame
<1>14. ASSUME NEW w \in Worker, SendWorkOrderComplete(w) PROVE QueuedInv'
  <2> DEFINE x == Head(assigned[w])
             t == IF x.rebuild THEN "RebuildComplete" ELSE "Complete"
             m == [type |-> t, op |-> x.op, block |-> NoBlock]
  <2>0. assigned[w] # << >>
    BY <1>14 DEF SendWorkOrderComplete, Running
  <2>1. x \in WorkOrder /\ x.op \in Op /\ x.rebuild \in BOOLEAN
    BY <2>0, RunningOrder
  <2>2. m \in Message
    BY <1>0, <2>1 DEF Message
  <2>3. /\ Send(t, x.op, NoBlock) /\ UNCHANGED queuedWorkOrders
        /\ assigned' = [assigned EXCEPT ![w] = Tail(@)]
    BY <1>14 DEF SendWorkOrderComplete, queues
  <2>4. ASSUME NEW p \in Op
        PROVE  /\ IsFiniteSet(Places(assigned', NormalOf(p)))
               /\ queuedWorkOrders'[p]
                    = Total(assigned', NormalOf(p)) + Count(inbox', MessagesOf("Complete", p))
    <3>1. /\ IsFiniteSet(Places(assigned, NormalOf(p)))
          /\ queuedWorkOrders[p]
               = Total(assigned, NormalOf(p)) + Count(inbox, MessagesOf("Complete", p))
      BY DEF QueuedInv
    <3>2. x \in NormalOf(p) <=> m \in MessagesOf("Complete", p)
      BY <2>1, <2>2 DEF NormalOf, MessagesOf
    <3>3. One(x, NormalOf(p)) = One(m, MessagesOf("Complete", p)) /\ One(x, NormalOf(p)) \in Nat
      BY <3>2 DEF One
    <3> HIDE DEF x
    <3>4. /\ IsFiniteSet(Places(assigned', NormalOf(p)))
          /\ Total(assigned', NormalOf(p)) \in Nat /\ Total(assigned, NormalOf(p)) \in Nat
          /\ Total(assigned, NormalOf(p)) = Total(assigned', NormalOf(p)) + One(x, NormalOf(p))
      BY <2>0, <2>3, <3>1, CompletedTotal DEF x
    <3>5. /\ Count(inbox, MessagesOf("Complete", p)) \in Nat
          /\ Count(inbox', MessagesOf("Complete", p))
               = Count(inbox, MessagesOf("Complete", p)) + One(m, MessagesOf("Complete", p))
      <4> HIDE DEF t
      <4>1. QED BY <2>2, <2>3, SentCount
    <3> HIDE DEF m
    <3>6. queuedWorkOrders[p]
            = Total(assigned', NormalOf(p)) + Count(inbox', MessagesOf("Complete", p))
      BY ONLY SMTT(30), <3>1, <3>3, <3>4, <3>5
    <3>7. QED BY <2>3, <3>4, <3>6
  <2>5. QED BY <2>4 DEF QueuedInv
<1>15. ASSUME UNCHANGED vars PROVE QueuedInv'
  BY <1>1, <1>15 DEF vars, queues, workers
<1>16. QED
  BY <1>2, <1>3, <1>4, <1>5, <1>6, <1>7, <1>8, <1>9, <1>10, <1>11, <1>12, <1>13, <1>14, <1>15
  DEF Next, Foreman, Dispatch, WorkerStep, Terminated

-----------------------------------------------------------------------------
(* Blocks are where their operator's are. *)

(* Blocks are created and never forgotten. *)
LEMMA CreatedGrows ==
  ASSUME Sound, [Next]_vars
  PROVE  /\ \A o \in Op : Made(o, created) \subseteq Made(o, created')
         /\ created' # created => \E w \in Worker : CreateNewBlock(w)
<1> TypeOK /\ CountingLaws BY DEF Sound
<1>1. ASSUME NEW o \in Op, created'[o] \in Nat, created[o] <= created'[o]
      PROVE  Made(o, created) \subseteq Made(o, created')
  BY SMTT(30), <1>1 DEF Made, TypeOK
<1>2. ASSUME UNCHANGED created PROVE \A o \in Op : Made(o, created) \subseteq Made(o, created')
  BY <1>2 DEF Made
<1>3. ASSUME NEW w \in Worker, CreateNewBlock(w)
      PROVE  \A o \in Op : Made(o, created) \subseteq Made(o, created')
  <2>1. created \in [Op -> Nat] /\ created' = [created EXCEPT ![Head(assigned[w]).op] = @ + 1]
    BY <1>3 DEF CreateNewBlock, TypeOK
  <2>2. ASSUME NEW o \in Op PROVE created'[o] \in Nat /\ created[o] <= created'[o]
    <3>1. CASE o = Head(assigned[w]).op
      BY SMTT(30), <2>1, <3>1
    <3>2. CASE o # Head(assigned[w]).op
      BY SMTT(30), <2>1, <3>2
    <3>3. QED BY <3>1, <3>2
  <2>3. QED BY <1>1, <2>2
<1>4. ASSUME NEW o \in Op,
             StartOperator(o) \/ NotifyBlockedDependent(o) \/ NotifyReadyDependent(o)
      PROVE  UNCHANGED created
  BY <1>4 DEF StartOperator, NotifyBlockedDependent, NotifyReadyDependent, workers
<1>5. ASSUME \/ ReturnFromMarkFinished \/ ProcessWorkOrderComplete
             \/ ProcessRebuildWorkOrderComplete \/ ProcessDataPipeline \/ ProcessNewBlock
      PROVE  UNCHANGED created
  BY <1>5 DEF ReturnFromMarkFinished, ProcessWorkOrderComplete, ProcessRebuildWorkOrderComplete,
              ProcessDataPipeline, ProcessNewBlock, workers
<1>6. ASSUME NEW o \in Op, NEW w \in Worker, DispatchRebuild(o, w) \/ DispatchNormal(o, w)
      PROVE  UNCHANGED created
  BY <1>6 DEF DispatchRebuild, DispatchNormal
<1>7. ASSUME NEW w \in Worker,
             \/ ReuseBlock(w) \/ ReturnFullBlock(w) \/ ReturnPartialBlock(w)
             \/ RebuildBlock(w) \/ SendWorkOrderComplete(w)
      PROVE  UNCHANGED created
  BY <1>7 DEF ReuseBlock, ReturnFullBlock, ReturnPartialBlock, RebuildBlock, SendWorkOrderComplete
<1>8. ASSUME UNCHANGED vars PROVE UNCHANGED created
  BY <1>8 DEF vars, workers
<1>9. UNCHANGED created \/ \E w \in Worker : CreateNewBlock(w)
  BY <1>4, <1>5, <1>6, <1>7, <1>8 DEF Next, Foreman, Dispatch, WorkerStep, Terminated
<1>10. QED BY <1>2, <1>3, <1>9

(* A queued work order is one of an operator of the plan. *)
LEMMA QueuedOrder ==
  ASSUME Sound, NEW w \in Worker
  PROVE  \A i \in DOMAIN assigned[w] :
           /\ assigned[w][i] \in WorkOrder /\ assigned[w][i].op \in Op
           /\ assigned[w][i].rebuild \in BOOLEAN /\ assigned[w][i].block \in Block
<1> TypeOK /\ CountingLaws BY DEF Sound
<1>1. assigned[w] \in Seq(WorkOrder)
  BY DEF TypeOK
<1>2. \A i \in DOMAIN assigned[w] : assigned[w][i] \in WorkOrder
  BY SMTT(30), <1>1
<1>3. QED BY <1>2 DEF WorkOrder

(* A worker that does not take part keeps its hand. *)
LEMMA HandKept ==
  ASSUME Sound, \A o \in Op : Made(o, created) \subseteq Made(o, created'), NEW w \in Worker, HandOf(w),
         assigned'[w] = assigned[w], held'[w] = held[w], returned'[w] = returned[w]
  PROVE  HandOf(w)'
<1>1. ASSUME assigned[w] # << >> PROVE Head(assigned[w]).op \in Op
  BY <1>1, RunningOrder
<1>2. \A i \in DOMAIN assigned[w] : assigned[w][i].op \in Op
  BY QueuedOrder
<1>3. QED BY <1>1, <1>2 DEF HandOf

(* The hands of the workers after a step of one of them. *)
LEMMA HandsStep == Sound /\ PlaceInv /\ [Next]_vars => HandInv'
<1> SUFFICES ASSUME Sound, PlaceInv, [Next]_vars PROVE HandInv'
  OBVIOUS
<1> TypeOK /\ CountingLaws BY DEF Sound
<1>0. \A o \in Op : Made(o, created) \subseteq Made(o, created')
  BY CreatedGrows
<1>1. ASSUME UNCHANGED <<assigned, held, returned>> PROVE HandInv'
  BY <1>0, <1>1, HandKept DEF HandInv, PlaceInv
<1>2. ASSUME NEW w \in Worker, HandOf(w)',
             \A v \in Worker \ {w} :
               assigned'[v] = assigned[v] /\ held'[v] = held[v] /\ returned'[v] = returned[v]
      PROVE  HandInv'
  BY <1>0, <1>2, HandKept DEF HandInv, PlaceInv
<1>3. ASSUME NEW o \in Op,
             StartOperator(o) \/ NotifyBlockedDependent(o) \/ NotifyReadyDependent(o)
      PROVE  HandInv'
  BY <1>1, <1>3 DEF StartOperator, NotifyBlockedDependent, NotifyReadyDependent, workers
<1>4. ASSUME \/ ReturnFromMarkFinished \/ ProcessWorkOrderComplete
             \/ ProcessRebuildWorkOrderComplete \/ ProcessDataPipeline \/ ProcessNewBlock
      PROVE  HandInv'
  BY <1>1, <1>4 DEF ReturnFromMarkFinished, ProcessWorkOrderComplete,
     ProcessRebuildWorkOrderComplete, ProcessDataPipeline, ProcessNewBlock, workers
<1>5. ASSUME NEW w \in Worker, NEW x \in WorkOrder, Len(assigned[w]) < MaxLoad,
             x.rebuild => x.block \in Made(x.op, created),
             assigned' = [assigned EXCEPT ![w] = Append(@, x)], UNCHANGED <<created, held, returned>>
      PROVE  HandInv'
  <2>1. assigned[w] \in Seq(WorkOrder) /\ assigned'[w] = Append(assigned[w], x)
    BY <1>5 DEF TypeOK
  <2>2. \A o : Made(o, created') = Made(o, created)
    BY <1>5 DEF Made
  <2>3. HandOf(w)
    BY DEF PlaceInv, HandInv
  <2>4. Len(assigned'[w]) = Len(assigned[w]) + 1 /\ assigned'[w] # << >>
        /\ (assigned[w] # << >> => Head(assigned'[w]) = Head(assigned[w]))
    <3>1. PICK q \in Seq(WorkOrder) : q = assigned[w]
      BY <2>1
    <3>2. x \in WorkOrder
      BY <1>5
    <3>3. /\ Len(Append(q, x)) = Len(q) + 1 /\ Append(q, x) # << >>
          /\ q # << >> => Head(Append(q, x)) = Head(q)
      BY <3>2, LongerQueue
    <3>4. QED BY <2>1, <3>1, <3>3
  <2>5. \A i \in DOMAIN assigned'[w] :
          assigned'[w][i].rebuild => assigned'[w][i].block \in Made(assigned'[w][i].op, created)
    <3> SUFFICES ASSUME NEW i \in DOMAIN assigned'[w], assigned'[w][i].rebuild
                 PROVE  assigned'[w][i].block \in Made(assigned'[w][i].op, created)
      OBVIOUS
    <3>1. CASE i = Len(assigned[w]) + 1
      BY SMTT(30), <1>5, <2>1, <3>1
    <3>2. CASE i # Len(assigned[w]) + 1
      <4>1. i \in DOMAIN assigned[w] /\ assigned'[w][i] = assigned[w][i]
        BY SMTT(30), <2>1, <3>2
      <4>2. QED BY <2>3, <4>1 DEF HandOf
    <3>3. QED BY <3>1, <3>2
  <2>6. Len(assigned[w]) + 1 <= MaxLoad
    BY SMTT(30), <1>5, <2>1, PlanAssumption
  <2>7. HandOf(w)'
    BY <1>5, <2>2, <2>3, <2>4, <2>5, <2>6 DEF HandOf
  <2>8. QED BY <1>2, <1>5, <2>7 DEF TypeOK
<1>6. ASSUME NEW o \in Op, NEW w \in Worker, DispatchRebuild(o, w) PROVE HandInv'
  <2> DEFINE x == [op |-> o, rebuild |-> TRUE, block |-> Head(rebuildWorkOrders[o])]
  <2>1. rebuildWorkOrders[o] \in Seq(Block) /\ rebuildWorkOrders[o] # << >>
    BY <1>6 DEF DispatchRebuild, TypeOK
  <2>2. 1 \in DOMAIN rebuildWorkOrders[o] /\ Head(rebuildWorkOrders[o]) = rebuildWorkOrders[o][1]
    BY SMTT(30), <2>1
  <2>3. x \in WorkOrder /\ x.block \in Made(x.op, created)
    BY SMTT(30), <2>1, <2>2 DEF WorkOrder, PlaceInv, ListInv
  <2>4. /\ Len(assigned[w]) < MaxLoad /\ assigned' = [assigned EXCEPT ![w] = Append(@, x)]
        /\ UNCHANGED <<created, held, returned>>
    BY <1>6 DEF DispatchRebuild
  <2> HIDE DEF x
  <2>5. QED BY <1>5, <2>3, <2>4
<1>7. ASSUME NEW o \in Op, NEW w \in Worker, DispatchNormal(o, w) PROVE HandInv'
  <2> DEFINE x == [op |-> o, rebuild |-> FALSE, block |-> Head(normalWorkOrders[o])]
  <2>1. normalWorkOrders[o] \in Seq(Block) /\ normalWorkOrders[o] # << >>
    BY <1>7 DEF DispatchNormal, TypeOK
  <2>2. x \in WorkOrder /\ ~x.rebuild
    BY SMTT(30), <2>1 DEF WorkOrder
  <2>3. /\ Len(assigned[w]) < MaxLoad /\ assigned' = [assigned EXCEPT ![w] = Append(@, x)]
        /\ UNCHANGED <<created, held, returned>>
    BY <1>7 DEF DispatchNormal
  <2> HIDE DEF x
  <2>4. QED BY <1>5, <2>2, <2>3
<1>8. ASSUME NEW w \in Worker, ReuseBlock(w) PROVE HandInv'
  <2> DEFINE o == Head(assigned[w]).op
  <2>0. assigned[w] # << >> /\ ~Head(assigned[w]).rebuild /\ ~returned[w] /\ o \in Destination
    BY <1>8 DEF ReuseBlock, Running
  <2>1. o \in Op
    BY <2>0, RunningOrder
  <2>2. available[o] \in Seq(Block) /\ available[o] # << >>
    BY <1>8, <2>1 DEF ReuseBlock, TypeOK
  <2>3. Len(available[o]) \in DOMAIN available[o]
    BY SMTT(30), <2>2
  <2>4. available[o][Len(available[o])] \in Made(o, created)
    BY <2>1, <2>3 DEF PlaceInv, ListInv
  <2>5. held'[w] = available[o][Len(available[o])]
    BY <1>8 DEF ReuseBlock, TypeOK
  <2>6. /\ UNCHANGED <<created, assigned, returned>>
        /\ \A v \in Worker \ {w} : held'[v] = held[v]
    BY <1>8 DEF ReuseBlock, TypeOK
  <2>7. HandOf(w)'
    <3>1. HandOf(w)
      BY DEF PlaceInv, HandInv
    <3>2. \A p : Made(p, created') = Made(p, created)
      BY <2>6 DEF Made
    <3>3. held'[w] \in Made(o, created')
      BY <2>4, <2>5, <3>2
    <3>4. QED BY <2>0, <2>6, <3>1, <3>2, <3>3 DEF HandOf
  <2>8. QED BY <1>2, <2>6, <2>7
<1>9. ASSUME NEW w \in Worker, CreateNewBlock(w) PROVE HandInv'
  <2> DEFINE o == Head(assigned[w]).op
  <2>0. assigned[w] # << >> /\ ~Head(assigned[w]).rebuild /\ ~returned[w] /\ o \in Destination
    BY <1>9 DEF CreateNewBlock, Running
  <2>1. o \in Op
    BY <2>0, RunningOrder
  <2>2. /\ held'[w] = [from |-> o, id |-> created[o] + 1] /\ created'[o] = created[o] + 1
        /\ created[o] \in Nat
    BY <1>9, <2>1 DEF CreateNewBlock, TypeOK
  <2>3. held'[w] \in Made(o, created')
    BY SMTT(30), <2>2 DEF Made
  <2>4. /\ UNCHANGED <<assigned, returned>>
        /\ \A v \in Worker \ {w} : held'[v] = held[v]
    BY <1>9 DEF CreateNewBlock, TypeOK
  <2>5. HandOf(w)
    BY DEF PlaceInv, HandInv
  <2>6. \A i \in DOMAIN assigned[w] : assigned[w][i].op \in Op
    BY QueuedOrder
  <2>7. HandOf(w)'
    BY <1>0, <2>0, <2>3, <2>4, <2>5, <2>6 DEF HandOf
  <2>8. QED BY <1>2, <2>4, <2>7
<1>10. ASSUME NEW w \in Worker, UNCHANGED <<created, assigned>>, held'[w] = NoBlock,
              returned'[w] => assigned[w] # << >>,
              \A v \in Worker \ {w} : held'[v] = held[v] /\ returned'[v] = returned[v]
       PROVE  HandInv'
  <2>1. HandOf(w)
    BY DEF PlaceInv, HandInv
  <2>2. \A o : Made(o, created') = Made(o, created)
    BY <1>10 DEF Made
  <2>3. HandOf(w)'
    BY <1>10, <2>1, <2>2 DEF HandOf
  <2>4. QED BY <1>2, <1>10, <2>3
<1>11. ASSUME NEW w \in Worker, ReturnFullBlock(w) PROVE HandInv'
  BY <1>10, <1>11 DEF ReturnFullBlock, Running, TypeOK
<1>12. ASSUME NEW w \in Worker, ReturnPartialBlock(w) PROVE HandInv'
  BY <1>10, <1>12 DEF ReturnPartialBlock, Running, TypeOK
<1>13. ASSUME NEW w \in Worker, Running(w, TRUE) PROVE held[w] = NoBlock
  BY <1>13 DEF Running, PlaceInv, HandInv, HandOf
<1>14. ASSUME NEW w \in Worker, RebuildBlock(w) PROVE HandInv'
  <2>1. Running(w, TRUE) /\ UNCHANGED <<created, assigned, held>>
        /\ \A v \in Worker \ {w} : returned'[v] = returned[v]
    BY <1>14 DEF RebuildBlock, TypeOK
  <2>2. held'[w] = NoBlock /\ assigned[w] # << >>
    BY <1>13, <2>1 DEF Running
  <2>3. QED BY <1>10, <2>1, <2>2
<1>15. ASSUME NEW w \in Worker, SendWorkOrderComplete(w) PROVE HandInv'
  <2>1. /\ UNCHANGED <<created, held>> /\ assigned[w] # << >>
        /\ assigned'[w] = Tail(assigned[w]) /\ ~returned'[w]
        /\ \A v \in Worker \ {w} : assigned'[v] = assigned[v] /\ returned'[v] = returned[v]
    BY <1>15 DEF SendWorkOrderComplete, Running, TypeOK
  <2>2. held'[w] = NoBlock
    BY <1>13, <1>15 DEF SendWorkOrderComplete
  <2>3. assigned[w] \in Seq(WorkOrder) /\ HandOf(w)
    BY DEF TypeOK, PlaceInv, HandInv
  <2>4. /\ Len(assigned'[w]) = Len(assigned[w]) - 1 /\ Len(assigned[w]) \in Nat
        /\ \A i \in DOMAIN assigned'[w] :
             i + 1 \in DOMAIN assigned[w] /\ assigned'[w][i] = assigned[w][i + 1]
    BY SMTT(30), <2>1, <2>3
  <2>5. \A o : Made(o, created') = Made(o, created)
    BY <2>1 DEF Made
  <2>6. Len(assigned'[w]) <= MaxLoad
    BY SMTT(30), <2>3, <2>4, PlanAssumption DEF HandOf
  <2>7. \A i \in DOMAIN assigned'[w] :
          assigned'[w][i].rebuild => assigned'[w][i].block \in Made(assigned'[w][i].op, created')
    BY <2>3, <2>4, <2>5 DEF HandOf
  <2>8. HandOf(w)'
    BY <2>1, <2>2, <2>6, <2>7 DEF HandOf
  <2>9. QED BY <1>2, <2>1, <2>8
<1>16. ASSUME UNCHANGED vars PROVE HandInv'
  BY <1>1, <1>16 DEF vars, workers
<1>17. QED
  BY <1>3, <1>4, <1>6, <1>7, <1>8, <1>9, <1>11, <1>12, <1>14, <1>15, <1>16
  DEF Next, Foreman, Dispatch, WorkerStep, Terminated

(* initiateRebuild() turns the pool's blocks into rebuild work orders. *)
LEMMA InitiateLists ==
  ASSUME Sound, ListInv, NEW o \in Op, InitiateRebuild(o), UNCHANGED created
  PROVE  ListInv'
<1> TypeOK /\ CountingLaws BY DEF Sound
<1>1. /\ available \in [Op -> Seq(Block)] /\ rebuildWorkOrders \in [Op -> Seq(Block)]
      /\ rebuildWorkOrders' = [rebuildWorkOrders EXCEPT ![o] = @ \o available[o]]
      /\ available' = [available EXCEPT ![o] = << >>]
  BY DEF InitiateRebuild, TypeOK
<1>2. ASSUME NEW p \in Op
      PROVE  /\ available'[p] # << >> => p \in Destination
             /\ \A i \in DOMAIN available'[p] : available'[p][i] \in Made(p, created)
             /\ \A i \in DOMAIN rebuildWorkOrders'[p] : rebuildWorkOrders'[p][i] \in Made(p, created)
  <2>0. /\ available[p] # << >> => p \in Destination
        /\ \A i \in DOMAIN available[p] : available[p][i] \in Made(p, created)
        /\ \A i \in DOMAIN rebuildWorkOrders[p] : rebuildWorkOrders[p][i] \in Made(p, created)
    BY DEF ListInv
  <2>1. CASE p = o
    <3> DEFINE s == rebuildWorkOrders[o]
               t == available[o]
    <3>1. s \in Seq(Block) /\ t \in Seq(Block) /\ available'[p] = << >> /\ rebuildWorkOrders'[p] = s \o t
      BY <1>1, <2>1
    <3>2. /\ \A i \in DOMAIN s : s[i] \in Made(p, created)
          /\ \A i \in DOMAIN t : t[i] \in Made(p, created)
      BY <2>0, <2>1
    <3> HIDE DEF s, t
    <3>3. \A i \in DOMAIN (s \o t) : (s \o t)[i] \in Made(p, created)
      BY SMTT(30), <3>1, <3>2
    <3>4. QED BY SMTT(30), <3>1, <3>3
  <2>2. CASE p # o
    BY <1>1, <2>0, <2>2
  <2>3. QED BY <2>1, <2>2
<1>3. QED BY <1>2 DEF ListInv

(* What follows the end of normal execution keeps the lists. *)
LEMMA RebuildOrFinishLists ==
  ASSUME Sound, ListInv, NEW o \in Op, NEW callers, RebuildOrFinish(o, callers), UNCHANGED created
  PROVE  ListInv'
<1>1. CASE UNCHANGED rebuilds
  BY <1>1 DEF ListInv, rebuilds
<1>2. CASE InitiateRebuild(o)
  BY <1>2, InitiateLists
<1>3. QED BY <1>1, <1>2 DEF RebuildOrFinish

(* Pools and rebuild work orders go on holding blocks of their own operator. *)
LEMMA ListsStep == Sound /\ PlaceInv /\ [Next]_vars => ListInv'
<1> SUFFICES ASSUME Sound, PlaceInv, [Next]_vars PROVE ListInv'
  OBVIOUS
<1> TypeOK /\ CountingLaws BY DEF Sound
<1>0. /\ \A o \in Op : Made(o, created) \subseteq Made(o, created')
      /\ ListInv /\ HandInv
  BY CreatedGrows DEF PlaceInv
<1>1. ASSUME UNCHANGED <<available, rebuildWorkOrders>> PROVE ListInv'
  BY <1>0, <1>1 DEF ListInv
<1>2. ASSUME NEW o \in Op, StartOperator(o) \/ NotifyBlockedDependent(o) PROVE ListInv'
  BY <1>1, <1>2 DEF StartOperator, NotifyBlockedDependent, rebuilds
<1>3. ASSUME NEW o \in Op, NotifyReadyDependent(o) PROVE ListInv'
  <2>1. UNCHANGED created
    BY <1>3 DEF NotifyReadyDependent, workers
  <2>2. RebuildOrFinish(o, CallersAfter(o)) \/ UNCHANGED rebuilds
    BY <1>3 DEF NotifyReadyDependent
  <2>3. QED BY <1>0, <1>1, <2>1, <2>2, RebuildOrFinishLists DEF rebuilds
<1>4. ASSUME ProcessWorkOrderComplete PROVE ListInv'
  <2>1. UNCHANGED created
    BY <1>4 DEF ProcessWorkOrderComplete, workers
  <2>2. RebuildOrFinish(Head(inbox).op, << >>) \/ UNCHANGED rebuilds
    BY <1>4 DEF ProcessWorkOrderComplete
  <2>3. Head(inbox).op \in Op
    BY <1>4, FirstOperator DEF ProcessWorkOrderComplete
  <2>4. QED BY <1>0, <1>1, <2>1, <2>2, <2>3, RebuildOrFinishLists DEF rebuilds
<1>5. ASSUME \/ ReturnFromMarkFinished \/ ProcessRebuildWorkOrderComplete
             \/ ProcessDataPipeline \/ ProcessNewBlock
      PROVE  ListInv'
  BY <1>1, <1>5 DEF ReturnFromMarkFinished, ProcessRebuildWorkOrderComplete,
     ProcessDataPipeline, ProcessNewBlock, rebuilds
<1>6. ASSUME NEW o \in Op, NEW w \in Worker, DispatchRebuild(o, w) PROVE ListInv'
  <2>1. /\ rebuildWorkOrders \in [Op -> Seq(Block)] /\ rebuildWorkOrders[o] # << >>
        /\ rebuildWorkOrders' = [rebuildWorkOrders EXCEPT ![o] = Tail(@)]
        /\ UNCHANGED <<available, created>>
    BY <1>6 DEF DispatchRebuild, TypeOK
  <2>2. ASSUME NEW p \in Op, NEW i \in DOMAIN rebuildWorkOrders'[p]
        PROVE  rebuildWorkOrders'[p][i] \in Made(p, created)
    <3>1. CASE p = o
      <4>1. i + 1 \in DOMAIN rebuildWorkOrders[p] /\ rebuildWorkOrders'[p][i] = rebuildWorkOrders[p][i + 1]
        BY SMTT(30), <2>1, <2>2, <3>1
      <4>2. QED BY <1>0, <4>1 DEF ListInv
    <3>2. CASE p # o
      BY <1>0, <2>1, <2>2, <3>2 DEF ListInv
    <3>3. QED BY <3>1, <3>2
  <2>3. QED BY <1>0, <2>1, <2>2 DEF ListInv
<1>7. ASSUME NEW w \in Worker, ReuseBlock(w) PROVE ListInv'
  <2> DEFINE o == Head(assigned[w]).op
  <2>1. o \in Op
    BY <1>7, RunningOrder DEF ReuseBlock, Running
  <2>2. /\ available \in [Op -> Seq(Block)] /\ available[o] # << >>
        /\ available' = [available EXCEPT ![o] = SubSeq(@, 1, Len(@) - 1)]
        /\ UNCHANGED <<rebuildWorkOrders, created>>
    BY <1>7 DEF ReuseBlock, TypeOK
  <2> HIDE DEF o
  <2>3. ASSUME NEW p \in Op
        PROVE  /\ available'[p] # << >> => available[p] # << >>
               /\ \A i \in DOMAIN available'[p] : i \in DOMAIN available[p] /\ available'[p][i] = available[p][i]
    <3>1. CASE p = o
      BY SMTT(30), <2>1, <2>2, <3>1
    <3>2. CASE p # o
      BY <2>1, <2>2, <3>2
    <3>3. QED BY <3>1, <3>2
  <2>4. QED BY <1>0, <2>2, <2>3 DEF ListInv
<1>8. ASSUME NEW w \in Worker, ReturnPartialBlock(w) PROVE ListInv'
  <2> DEFINE o == Head(assigned[w]).op
  <2>1. o \in Op
    BY <1>8, RunningOrder DEF ReturnPartialBlock, Running
  <2>2. /\ available \in [Op -> Seq(Block)] /\ held[w] \in Block
        /\ available' = [available EXCEPT ![o] = Append(@, held[w])]
        /\ UNCHANGED <<rebuildWorkOrders, created>>
    BY <1>8 DEF ReturnPartialBlock, TypeOK
  <2>3. held[w] \in Made(o, created) /\ o \in Destination
    BY <1>0, <1>8 DEF ReturnPartialBlock, HandInv, HandOf
  <2> HIDE DEF o
  <2>4. ASSUME NEW p \in Op
        PROVE  /\ available'[p] # << >> => p \in Destination
               /\ \A i \in DOMAIN available'[p] : available'[p][i] \in Made(p, created)
    <3>1. CASE p = o
      <4>1. available'[p] = Append(available[p], held[w]) /\ available[p] \in Seq(Block)
        BY <2>1, <2>2, <3>1
      <4>2. \A i \in DOMAIN available[p] : available[p][i] \in Made(p, created)
        BY <1>0 DEF ListInv
      <4>3. QED BY SMTT(30), <2>2, <2>3, <3>1, <4>1, <4>2
    <3>2. CASE p # o
      BY <1>0, <2>1, <2>2, <3>2 DEF ListInv
    <3>3. QED BY <3>1, <3>2
  <2>5. QED BY <1>0, <2>2, <2>4 DEF ListInv
<1>9. ASSUME NEW w \in Worker,
             \/ CreateNewBlock(w) \/ ReturnFullBlock(w) \/ RebuildBlock(w) \/ SendWorkOrderComplete(w)
      PROVE  ListInv'
  BY <1>1, <1>9
  DEF CreateNewBlock, ReturnFullBlock, RebuildBlock, SendWorkOrderComplete, rebuilds
<1>10. ASSUME NEW o \in Op, NEW w \in Worker, DispatchNormal(o, w) PROVE ListInv'
  BY <1>1, <1>10 DEF DispatchNormal, rebuilds
<1>11. ASSUME UNCHANGED vars PROVE ListInv'
  BY <1>1, <1>11 DEF vars, rebuilds
<1>12. QED
  BY <1>2, <1>3, <1>4, <1>5, <1>6, <1>7, <1>8, <1>9, <1>10, <1>11
  DEF Next, Foreman, Dispatch, WorkerStep, Terminated

(* The foreman processes a message. *)
Received ==
  \/ ProcessWorkOrderComplete \/ ProcessRebuildWorkOrderComplete
  \/ ProcessDataPipeline \/ ProcessNewBlock

(* The foreman takes the first message and leaves the workers alone. *)
LEMMA ReceivedType ==
  ASSUME Sound, Received
  PROVE  /\ Receive(inbox[1].type) /\ 1 \in DOMAIN inbox /\ inbox # << >> /\ Head(inbox) = inbox[1]
         /\ inbox[1] \in Message /\ inbox[1].op \in Op
         /\ UNCHANGED <<created, assigned, held, returned>>
<1> TypeOK /\ CountingLaws BY DEF Sound
<1>1. Receive("Complete") \/ Receive("RebuildComplete") \/ Receive("DataPipeline") \/ Receive("NewBlock")
  BY DEF Received, ProcessWorkOrderComplete, ProcessRebuildWorkOrderComplete,
         ProcessDataPipeline, ProcessNewBlock
<1>2. inbox \in Seq(Message) /\ inbox # << >>
  BY <1>1 DEF Receive, TypeOK
<1>3. Head(inbox) = inbox[1] /\ 1 \in DOMAIN inbox /\ inbox[1] \in Message
  BY SMTT(30), <1>2
<1>4. UNCHANGED <<created, assigned, held, returned>>
  BY DEF Received, ProcessWorkOrderComplete, ProcessRebuildWorkOrderComplete,
         ProcessDataPipeline, ProcessNewBlock, workers
<1>5. QED BY <1>1, <1>2, <1>3, <1>4 DEF Receive, Message

(* A step receives a message, or a worker sends one, or the inbox is left alone. *)
LEMMA InboxStep ==
  ASSUME Sound, PlaceInv, [Next]_vars
  PROVE  \/ UNCHANGED inbox
         \/ Received
         \/ \E m \in Message :
              /\ inbox' = Append(inbox, m)
              /\ m.type \in BlockMessage => m.block \in Made(m.op, created')
              /\ \E w \in Worker : assigned[w] # << >> /\ m.op = Head(assigned[w]).op
<1> TypeOK /\ CountingLaws BY DEF Sound
<1> DEFINE Old == UNCHANGED inbox \/ Received
           Sent == \E m \in Message :
              /\ inbox' = Append(inbox, m)
              /\ m.type \in BlockMessage => m.block \in Made(m.op, created')
              /\ \E w \in Worker : assigned[w] # << >> /\ m.op = Head(assigned[w]).op
<1>1. ASSUME UNCHANGED inbox PROVE Old
  BY <1>1
<1>3. ASSUME NEW o \in Op,
             StartOperator(o) \/ NotifyBlockedDependent(o) \/ NotifyReadyDependent(o)
      PROVE  Old
  BY <1>1, <1>3 DEF StartOperator, NotifyBlockedDependent, NotifyReadyDependent
<1>4. ASSUME \/ ReturnFromMarkFinished \/ ProcessWorkOrderComplete
             \/ ProcessRebuildWorkOrderComplete \/ ProcessDataPipeline \/ ProcessNewBlock
      PROVE  Old
  BY <1>4 DEF ReturnFromMarkFinished, Received
<1>5. ASSUME NEW o \in Op, NEW w \in Worker, DispatchRebuild(o, w) \/ DispatchNormal(o, w)
      PROVE  Old
  BY <1>1, <1>5 DEF DispatchRebuild, DispatchNormal
<1>6. ASSUME NEW w \in Worker, ReuseBlock(w) \/ ReturnPartialBlock(w) PROVE Old
  BY <1>1, <1>6 DEF ReuseBlock, ReturnPartialBlock
<1>7. ASSUME NEW w \in Worker, assigned[w] # << >>,
             NEW t \in {"NewBlock", "DataPipeline", "Complete", "RebuildComplete"}, NEW b \in Block,
             t \in BlockMessage => b \in Made(Head(assigned[w]).op, created'),
             Send(t, Head(assigned[w]).op, b)
      PROVE  Sent
  <2> DEFINE m == [type |-> t, op |-> Head(assigned[w]).op, block |-> b]
  <2>1. Head(assigned[w]).op \in Op
    BY <1>7, RunningOrder
  <2>2. m \in Message /\ m.type = t /\ m.op = Head(assigned[w]).op /\ m.block = b
    BY <2>1 DEF Message
  <2>3. inbox' = Append(inbox, m)
    BY <1>7 DEF Send
  <2> HIDE DEF m
  <2>4. QED BY <1>7, <2>2, <2>3
<1>8. ASSUME NEW w \in Worker, CreateNewBlock(w) PROVE Sent
  <2> DEFINE o == Head(assigned[w]).op
             b == [from |-> o, id |-> created[o] + 1]
  <2>0. assigned[w] # << >>
    BY <1>8 DEF CreateNewBlock, Running
  <2>1. o \in Op
    BY <2>0, RunningOrder
  <2>2. created \in [Op -> Nat] /\ created' = [created EXCEPT ![o] = @ + 1] /\ Send("NewBlock", o, b)
    BY <1>8 DEF CreateNewBlock, TypeOK
  <2>3. b \in Block /\ b \in Made(o, created')
    <3>1. PICK n \in Nat : n = created[o]
      BY <2>1, <2>2
    <3>2. created'[o] = n + 1 /\ b = [from |-> o, id |-> n + 1]
      BY <2>1, <2>2, <3>1
    <3>3. n + 1 \in Nat /\ n + 1 \in 1 .. (n + 1)
      BY ONLY SMTT(30), n \in Nat
    <3>4. QED BY SMTT(30), <2>1, <3>2, <3>3 DEF Made, Block
  <2> HIDE DEF b, Sent
  <2>4. QED BY <1>7, <2>0, <2>2, <2>3
<1>9. ASSUME NEW w \in Worker, ReturnFullBlock(w) PROVE Sent
  <2>1. assigned[w] # << >> /\ held[w] \in Block /\ created' = created
        /\ held[w] \in Made(Head(assigned[w]).op, created)
    BY <1>9 DEF ReturnFullBlock, Running, TypeOK, PlaceInv, HandInv, HandOf
  <2>2. Send("DataPipeline", Head(assigned[w]).op, held[w])
    BY <1>9 DEF ReturnFullBlock
  <2> HIDE DEF Sent
  <2>3. QED BY <1>7, <2>1, <2>2
<1>10. ASSUME NEW w \in Worker, RebuildBlock(w) PROVE Sent
  <2>1. assigned[w] # << >> /\ Head(assigned[w]).rebuild /\ created' = created
        /\ Send("DataPipeline", Head(assigned[w]).op, Head(assigned[w]).block)
    BY <1>10 DEF RebuildBlock, Running
  <2>2. /\ 1 \in DOMAIN assigned[w] /\ assigned[w][1] = Head(assigned[w])
        /\ Head(assigned[w]).block \in Block
    BY <2>1, RunningOrder
  <2>3. Head(assigned[w]).block \in Made(Head(assigned[w]).op, created)
    BY <2>1, <2>2 DEF PlaceInv, HandInv, HandOf
  <2> HIDE DEF Sent
  <2>4. QED BY <1>7, <2>1, <2>2, <2>3
<1>11. ASSUME NEW w \in Worker, SendWorkOrderComplete(w) PROVE Sent
  <2> DEFINE t == IF Head(assigned[w]).rebuild THEN "RebuildComplete" ELSE "Complete"
  <2>1. assigned[w] # << >> /\ Send(t, Head(assigned[w]).op, NoBlock)
    BY <1>11 DEF SendWorkOrderComplete, Running
  <2>2. NoBlock \in Block /\ t \in {"Complete", "RebuildComplete"} /\ t \notin BlockMessage
    BY DEF NoBlock, Block, BlockMessage
  <2> HIDE DEF Sent, t
  <2>3. QED BY <1>7, <2>1, <2>2
<1>12. ASSUME UNCHANGED vars PROVE Old
  BY <1>1, <1>12 DEF vars
<1> HIDE DEF Old, Sent
<1>13. Old \/ Sent
  BY <1>3, <1>4, <1>5, <1>6, <1>8, <1>9, <1>10, <1>11, <1>12
  DEF Next, Foreman, Dispatch, WorkerStep, Terminated
<1>14. QED BY <1>13 DEF Old, Sent

(* Messages go on naming blocks of their own operator. *)
LEMMA SentStep == Sound /\ PlaceInv /\ [Next]_vars => SentInv'
<1> SUFFICES ASSUME Sound, PlaceInv, [Next]_vars,
                    NEW i \in DOMAIN inbox', inbox'[i].type \in BlockMessage
             PROVE  inbox'[i].block \in Made(inbox'[i].op, created')
  BY DEF SentInv, BlockMessage
<1> TypeOK /\ CountingLaws BY DEF Sound
<1>0. inbox \in Seq(Message) /\ \A o \in Op : Made(o, created) \subseteq Made(o, created')
  BY CreatedGrows DEF TypeOK
<1>1. ASSUME NEW j \in DOMAIN inbox, inbox'[i] = inbox[j]
      PROVE  inbox'[i].block \in Made(inbox'[i].op, created')
  <2>1. inbox[j] \in Message
    BY SMTT(30), <1>0
  <2>2. inbox[j].op \in Op
    BY <2>1 DEF Message
  <2>3. QED BY <1>0, <1>1, <2>2 DEF PlaceInv, SentInv
<1>2. CASE UNCHANGED inbox \/ Received
  <2>1. Received => \A k \in DOMAIN inbox' : k + 1 \in DOMAIN inbox /\ inbox'[k] = inbox[k + 1]
    BY SMTT(30), <1>0, ReceivedType DEF Receive
  <2>2. QED BY <1>1, <1>2, <2>1
<1>3. ASSUME NEW m \in Message, inbox' = Append(inbox, m),
             m.type \in BlockMessage => m.block \in Made(m.op, created')
      PROVE  inbox'[i].block \in Made(inbox'[i].op, created')
  <2>1. inbox'[i] = m \/ (i \in DOMAIN inbox /\ inbox'[i] = inbox[i])
    BY SMTT(30), <1>0, <1>3
  <2>2. QED BY <1>1, <1>3, <2>1
<1>4. QED BY <1>2, <1>3, InboxStep

(* What it feeds: the message's block, once, to the consumers that read it. *)
LEMMA FedBlock ==
  ASSUME Sound, ProcessDataPipeline
  PROVE  /\ Head(inbox) \in Message /\ Head(inbox).op \in Op /\ Head(inbox).block \in Block
         /\ Head(inbox).type = "DataPipeline"
         /\ 1 \in DOMAIN inbox /\ inbox[1] = Head(inbox)
         /\ \A c \in Op :
              fed'[c] = IF c \in OutputConsumers(Head(inbox).op) /\ Head(inbox).op \in Input[c]
                        THEN Append(fed[c], Head(inbox).block) ELSE fed[c]
<1> TypeOK /\ CountingLaws BY DEF Sound
<1>1. inbox \in Seq(Message) /\ inbox # << >> /\ Head(inbox).type = "DataPipeline"
  BY DEF ProcessDataPipeline, Receive, TypeOK
<1>2. Head(inbox) \in Message /\ 1 \in DOMAIN inbox /\ inbox[1] = Head(inbox)
  BY SMTT(30), <1>1
<1>3. Head(inbox).op \in Op /\ Head(inbox).block \in Block
  BY <1>2 DEF Message
<1>4. fed' = [c \in Op |-> IF c \in OutputConsumers(Head(inbox).op) /\ Head(inbox).op \in Input[c]
                           THEN Append(fed[c], Head(inbox).block) ELSE fed[c]]
  BY DEF ProcessDataPipeline, Fetch
<1>5. QED BY <1>1, <1>2, <1>3, <1>4

(* Only processDataPipelineMessage() feeds blocks. *)
LEMMA FedShape ==
  ASSUME [Next]_vars
  PROVE  UNCHANGED fed \/ ProcessDataPipeline
<1>1. ASSUME NEW o \in Op,
             StartOperator(o) \/ NotifyBlockedDependent(o) \/ NotifyReadyDependent(o)
      PROVE  UNCHANGED fed
  BY <1>1 DEF StartOperator, NotifyBlockedDependent, NotifyReadyDependent, Fetch
<1>2. ASSUME \/ ReturnFromMarkFinished \/ ProcessWorkOrderComplete
             \/ ProcessRebuildWorkOrderComplete \/ ProcessNewBlock
      PROVE  UNCHANGED fed
  BY <1>2 DEF ReturnFromMarkFinished, ProcessWorkOrderComplete, ProcessRebuildWorkOrderComplete,
              ProcessNewBlock, opState
<1>3. ASSUME NEW o \in Op, NEW w \in Worker, DispatchRebuild(o, w) \/ DispatchNormal(o, w)
      PROVE  UNCHANGED fed
  BY <1>3 DEF DispatchRebuild, DispatchNormal, opState
<1>4. ASSUME NEW w \in Worker, WorkerStep(w) PROVE UNCHANGED fed
  BY <1>4 DEF WorkerStep, ReuseBlock, CreateNewBlock, ReturnFullBlock, ReturnPartialBlock,
              RebuildBlock, SendWorkOrderComplete, opState
<1>5. ASSUME UNCHANGED vars PROVE UNCHANGED fed
  BY <1>5 DEF vars, opState
<1>6. QED BY <1>1, <1>2, <1>3, <1>4, <1>5 DEF Next, Foreman, Dispatch, Terminated

(* Operators go on being fed blocks of the relations that they stream. *)
LEMMA FedStep == Sound /\ PlaceInv /\ [Next]_vars => FedInv'
<1> SUFFICES ASSUME Sound, PlaceInv, [Next]_vars,
                    NEW c \in Op, NEW i \in DOMAIN fed'[c]
             PROVE  \E p \in Input[c] : c \in OutputConsumers(p) /\ fed'[c][i] \in Made(p, created')
  BY DEF FedInv
<1> TypeOK /\ CountingLaws BY DEF Sound
<1>0. \A o \in Op : Made(o, created) \subseteq Made(o, created')
  BY CreatedGrows
<1>1. ASSUME i \in DOMAIN fed[c], fed'[c][i] = fed[c][i]
      PROVE  \E p \in Input[c] : c \in OutputConsumers(p) /\ fed'[c][i] \in Made(p, created')
  <2>1. PICK p \in Input[c] : c \in OutputConsumers(p) /\ fed[c][i] \in Made(p, created)
    BY <1>1 DEF PlaceInv, FedInv
  <2>2. p \in Op
    BY <2>1, PlanAssumption
  <2>3. QED BY <1>0, <1>1, <2>1, <2>2
<1>2. CASE UNCHANGED fed
  BY <1>1, <1>2
<1>3. CASE ProcessDataPipeline
  <2> DEFINE m == Head(inbox)
  <2>1. m \in Message /\ m.op \in Op /\ m.block \in Block /\ m.type = "DataPipeline"
        /\ 1 \in DOMAIN inbox /\ inbox[1] = m
    BY <1>3, FedBlock
  <2>2. m.block \in Made(m.op, created')
    BY <1>0, <2>1 DEF PlaceInv, SentInv, BlockMessage
  <2>3. \/ fed'[c] = fed[c]
        \/ /\ c \in OutputConsumers(m.op) /\ m.op \in Input[c]
           /\ fed'[c] = Append(fed[c], m.block)
    BY <1>3, FedBlock
  <2> HIDE DEF m
  <2>4. CASE fed'[c] = fed[c]
    BY <1>1, <2>4
  <2>5. CASE c \in OutputConsumers(m.op) /\ m.op \in Input[c] /\ fed'[c] = Append(fed[c], m.block)
    <3>1. fed[c] \in Seq(Block)
      BY DEF TypeOK
    <3>2. fed'[c][i] = m.block \/ (i \in DOMAIN fed[c] /\ fed'[c][i] = fed[c][i])
      BY SMTT(30), <2>1, <2>5, <3>1
    <3>3. QED BY <1>1, <2>2, <2>5, <3>2
  <2>6. QED BY <2>3, <2>4, <2>5
<1>4. QED BY <1>2, <1>3, FedShape

(* Every step keeps blocks in places that belong to their operator. *)
LEMMA PlaceStep == Sound /\ PlaceInv /\ [Next]_vars => PlaceInv'
BY HandsStep, ListsStep, SentStep, FedStep DEF PlaceInv

-----------------------------------------------------------------------------
(* The catalog, and what follows a message. *)

(* A message leaves the inbox only by being received. *)
LEMMA MessageKept ==
  ASSUME Sound, PlaceInv, [Next]_vars, NEW i \in DOMAIN inbox
  PROVE  \/ \E j \in DOMAIN inbox' : inbox'[j] = inbox[i]
         \/ i = 1 /\ Received
<1> TypeOK /\ CountingLaws BY DEF Sound
<1>0. inbox \in Seq(Message)
  BY DEF TypeOK
<1>1. CASE UNCHANGED inbox
  BY <1>1
<1>2. CASE Received
  <2>1. inbox # << >> /\ inbox' = Tail(inbox)
    BY <1>2, ReceivedType DEF Receive
  <2>2. CASE i # 1
    <3>1. i - 1 \in DOMAIN inbox' /\ inbox'[i - 1] = inbox[i]
      BY SMTT(30), <1>0, <2>1, <2>2
    <3>2. QED BY <3>1
  <2>3. QED BY <1>2, <2>2
<1>3. CASE \E m \in Message : inbox' = Append(inbox, m)
  <2>1. i \in DOMAIN inbox' /\ inbox'[i] = inbox[i]
    BY SMTT(30), <1>0, <1>3
  <2>2. QED BY <2>1
<1>4. QED BY <1>1, <1>2, <1>3, InboxStep

(* Only a NewBlock message changes the catalog. *)
LEMMA CatalogShape ==
  ASSUME [Next]_vars
  PROVE  UNCHANGED catalog \/ ProcessNewBlock
<1>1. ASSUME NEW o \in Op,
             StartOperator(o) \/ NotifyBlockedDependent(o) \/ NotifyReadyDependent(o)
      PROVE  UNCHANGED catalog
  BY <1>1 DEF StartOperator, NotifyBlockedDependent, NotifyReadyDependent
<1>2. ASSUME \/ ReturnFromMarkFinished \/ ProcessWorkOrderComplete
             \/ ProcessRebuildWorkOrderComplete \/ ProcessDataPipeline
      PROVE  UNCHANGED catalog
  BY <1>2 DEF ReturnFromMarkFinished, ProcessWorkOrderComplete, ProcessRebuildWorkOrderComplete,
              ProcessDataPipeline
<1>3. ASSUME NEW o \in Op, NEW w \in Worker, DispatchRebuild(o, w) \/ DispatchNormal(o, w)
      PROVE  UNCHANGED catalog
  BY <1>3 DEF DispatchRebuild, DispatchNormal
<1>4. ASSUME NEW w \in Worker, WorkerStep(w) PROVE UNCHANGED catalog
  BY <1>4 DEF WorkerStep, ReuseBlock, CreateNewBlock, ReturnFullBlock, ReturnPartialBlock,
              RebuildBlock, SendWorkOrderComplete
<1>5. ASSUME UNCHANGED vars PROVE UNCHANGED catalog
  BY <1>5 DEF vars
<1>6. QED BY <1>1, <1>2, <1>3, <1>4, <1>5 DEF Next, Foreman, Dispatch, Terminated

(* No block is created without being announced to the catalog. *)
LEMMA CatalogStep == Sound /\ PlaceInv /\ CatalogInv /\ [Next]_vars => CatalogInv'
<1> SUFFICES ASSUME Sound, PlaceInv, CatalogInv, [Next]_vars PROVE CatalogInv'
  OBVIOUS
<1> TypeOK /\ CountingLaws BY DEF Sound
<1> DEFINE Announced(b, o) ==
      \E i \in DOMAIN inbox' :
        inbox'[i].type = "NewBlock" /\ inbox'[i].op = o /\ inbox'[i].block = b
<1>0. catalog \in [Op -> SUBSET Block] /\ inbox \in Seq(Message)
  BY DEF TypeOK
<1>a. ASSUME \A o \in Op : /\ catalog'[o] \subseteq Made(o, created')
                          /\ \A b \in Made(o, created') : b \in catalog'[o] \/ Announced(b, o)
      PROVE  CatalogInv'
  BY <1>a DEF CatalogInv
<1>b. ASSUME NEW o \in Op, NEW b \in Made(o, created), b \notin catalog[o]
      PROVE  \/ Announced(b, o)
             \/ Received /\ inbox[1].type = "NewBlock" /\ inbox[1].op = o /\ inbox[1].block = b
  <2>1. PICK i \in DOMAIN inbox :
          inbox[i].type = "NewBlock" /\ inbox[i].op = o /\ inbox[i].block = b
    BY <1>b DEF CatalogInv
  <2>2. QED BY <2>1, MessageKept
<1>c. ASSUME NEW o \in Op PROVE catalog[o] \subseteq Made(o, created)
  BY DEF CatalogInv
<1> HIDE DEF Announced
<1>1. CASE ProcessNewBlock
  <2> DEFINE m == inbox[1]
  <2>1. /\ Receive("NewBlock") /\ Head(inbox) = m /\ 1 \in DOMAIN inbox /\ m.op \in Op
        /\ created' = created
    BY <1>1, ReceivedType DEF Received, ProcessNewBlock
  <2>2. m.type = "NewBlock" /\ catalog' = [catalog EXCEPT ![m.op] = @ \cup {m.block}]
    BY <1>1, <2>1 DEF ProcessNewBlock, Receive
  <2>3. m.block \in Made(m.op, created)
    BY <2>1, <2>2 DEF PlaceInv, SentInv, BlockMessage
  <2>4. ASSUME NEW o \in Op
        PROVE  /\ catalog'[o] \subseteq Made(o, created)
               /\ \A b \in Made(o, created) : b \in catalog'[o] \/ Announced(b, o)
    <3>1. CASE o = m.op
      BY <1>0, <1>b, <1>c, <2>1, <2>2, <2>3, <3>1
    <3>2. CASE o # m.op
      BY <1>0, <1>b, <1>c, <2>1, <2>2, <3>2
    <3>3. QED BY <3>1, <3>2
  <2>5. QED BY <1>a, <2>1, <2>4
<1>2. CASE UNCHANGED catalog /\ \E w \in Worker : CreateNewBlock(w)
  <2>1. PICK w \in Worker : CreateNewBlock(w)
    BY <1>2
  <2> DEFINE p == Head(assigned[w]).op
             e == [from |-> p, id |-> created[p] + 1]
             m == [type |-> "NewBlock", op |-> p, block |-> e]
  <2>2. created \in [Op -> Nat] /\ created' = [created EXCEPT ![p] = @ + 1]
        /\ inbox' = Append(inbox, m)
    BY <2>1 DEF CreateNewBlock, Send, TypeOK
  <2>3. p \in Op
    BY <2>1, RunningOrder DEF CreateNewBlock, Running
  <2>4. m \in Message /\ m.type = "NewBlock" /\ m.op = p /\ m.block = e
    BY SMTT(30), <2>2, <2>3 DEF Message, Block
  <2>5. ASSUME NEW o \in Op, NEW b \in Made(o, created'), b \notin Made(o, created)
        PROVE  b = e /\ o = p
    <3>1. CASE o = p
      <4>1. created'[p] = created[p] + 1 /\ created[p] \in Nat
        BY <2>2, <2>3
      <4>2. PICK i \in 1 .. created[p] + 1 : b = [from |-> p, id |-> i]
        BY <2>5, <3>1, <4>1 DEF Made
      <4>3. i \notin 1 .. created[p]
        BY <2>5, <3>1, <4>2 DEF Made
      <4>4. QED BY SMTT(30), <3>1, <4>1, <4>2, <4>3
    <3>2. CASE o # p
      BY <2>2, <2>3, <2>5, <3>2 DEF Made
    <3>3. QED BY <3>1, <3>2
  <2> HIDE DEF m, e
  <2>6. Announced(e, p)
    <3>1. Len(inbox) + 1 \in DOMAIN inbox' /\ inbox'[Len(inbox) + 1] = m
      BY SMTT(30), <1>0, <2>2, <2>4
    <3>2. QED BY <2>4, <3>1 DEF Announced
  <2>7. \A o \in Op : Made(o, created) \subseteq Made(o, created')
    BY CreatedGrows
  <2>8. ~Received
    <3>1. ASSUME Received PROVE inbox' = Tail(inbox) /\ inbox # << >>
      BY <3>1, ReceivedType DEF Receive
    <3>2. QED BY SMTT(30), <1>0, <2>2, <2>4, <3>1
  <2>9. ASSUME NEW o \in Op
        PROVE  /\ catalog'[o] \subseteq Made(o, created')
               /\ \A b \in Made(o, created') : b \in catalog'[o] \/ Announced(b, o)
    BY <1>2, <1>b, <1>c, <2>5, <2>6, <2>7, <2>8
  <2>10. QED BY <1>a, <2>9
<1>3. CASE UNCHANGED <<catalog, created>> /\ ~ProcessNewBlock
  <2>1. ASSUME Received PROVE inbox[1].type # "NewBlock"
    BY <1>3, <2>1, ReceivedType DEF Received, ProcessWorkOrderComplete,
       ProcessRebuildWorkOrderComplete, ProcessDataPipeline, Receive
  <2>2. ASSUME NEW o \in Op
        PROVE  /\ catalog'[o] \subseteq Made(o, created')
               /\ \A b \in Made(o, created') : b \in catalog'[o] \/ Announced(b, o)
    BY <1>3, <1>b, <1>c, <2>1
  <2>3. QED BY <1>a, <2>2
<1>4. QED BY <1>1, <1>2, <1>3, CatalogShape, CreatedGrows

(* A step that sends nothing: what follows the messages that stay. *)
LEMMA FollowKept ==
  ASSUME Sound, FollowInv, UNCHANGED inbox \/ Received,
         \A w \in Worker : assigned[w] # << >> =>
           assigned'[w] # << >> /\ Head(assigned'[w]) = Head(assigned[w])
  PROVE  FollowInv'
<1> TypeOK /\ CountingLaws BY DEF Sound
<1>0. inbox \in Seq(Message)
  BY DEF TypeOK
<1>1. CASE UNCHANGED inbox
  BY <1>1 DEF FollowInv, Followed
<1>2. CASE Received
  <2>1. inbox' = Tail(inbox) /\ inbox # << >>
    BY <1>2, ReceivedType DEF Receive
  <2>2. /\ \A i \in DOMAIN inbox' : i \in Nat /\ i + 1 \in DOMAIN inbox /\ inbox'[i] = inbox[i + 1]
        /\ \A j \in DOMAIN inbox : j > 1 => j - 1 \in DOMAIN inbox' /\ inbox'[j - 1] = inbox[j]
        /\ \A j \in DOMAIN inbox : j \in Nat
    BY SMTT(30), <1>0, <2>1
  <2>3. SUFFICES ASSUME NEW i \in DOMAIN inbox', inbox'[i].type \in BlockMessage
                 PROVE  Followed(i)'
    BY DEF FollowInv, BlockMessage
  <2>4. Followed(i + 1)
    BY <2>2, <2>3 DEF FollowInv
  <2>5. CASE \E w \in Worker : assigned[w] # << >> /\ Head(assigned[w]).op = inbox[i + 1].op
    BY <2>2, <2>5 DEF Followed
  <2>6. ASSUME NEW j \in DOMAIN inbox, i + 1 < j, inbox[j].type \notin BlockMessage,
               inbox[j].op = inbox[i + 1].op
        PROVE  Followed(i)'
    <3>a. i \in Nat /\ j \in Nat
      BY <2>2
    <3>b. j > 1 /\ i < j - 1
      BY SMTT(30), <2>6, <3>a
    <3>1. i < j - 1 /\ j - 1 \in DOMAIN inbox' /\ inbox'[j - 1] = inbox[j]
      BY <2>2, <3>b
    <3>2. inbox'[i] = inbox[i + 1]
      BY <2>2
    <3>3. QED BY <2>6, <3>1, <3>2 DEF Followed, BlockMessage
  <2>7. QED BY <2>4, <2>5, <2>6 DEF Followed
<1>3. QED BY <1>1, <1>2

(* A worker sends a message while it keeps running its work order. *)
LEMMA FollowSent ==
  ASSUME Sound, FollowInv, UNCHANGED assigned, NEW w \in Worker, assigned[w] # << >>,
         NEW m \in Message, m.op = Head(assigned[w]).op, inbox' = Append(inbox, m)
  PROVE  FollowInv'
<1> TypeOK /\ CountingLaws BY DEF Sound
<1>0. inbox \in Seq(Message)
  BY DEF TypeOK
<1>1. /\ \A i \in DOMAIN inbox : i \in DOMAIN inbox' /\ inbox'[i] = inbox[i]
      /\ \A i \in DOMAIN inbox' : i \in DOMAIN inbox \/ inbox'[i] = m
  BY SMTT(30), <1>0
<1>2. SUFFICES ASSUME NEW i \in DOMAIN inbox', inbox'[i].type \in BlockMessage
               PROVE  Followed(i)'
  BY DEF FollowInv, BlockMessage
<1>3. CASE i \in DOMAIN inbox
  <2>1. Followed(i) /\ inbox'[i] = inbox[i]
    BY <1>1, <1>2, <1>3 DEF FollowInv
  <2>2. QED BY <1>1, <2>1 DEF Followed, BlockMessage
<1>4. CASE inbox'[i] = m
  BY <1>4 DEF Followed
<1>5. QED BY <1>1, <1>3, <1>4

(* A worker sends the completion of its work order. *)
LEMMA FollowCompleted ==
  ASSUME Sound, FollowInv, NEW w \in Worker, assigned[w] # << >>,
         \A v \in Worker \ {w} : assigned'[v] = assigned[v],
         NEW m \in Message, m.op = Head(assigned[w]).op, m.type \notin BlockMessage,
         inbox' = Append(inbox, m)
  PROVE  FollowInv'
<1> TypeOK /\ CountingLaws BY DEF Sound
<1>0. inbox \in Seq(Message)
  BY DEF TypeOK
<1> DEFINE n == Len(inbox) + 1
<1>1. /\ \A i \in DOMAIN inbox : i \in DOMAIN inbox' /\ inbox'[i] = inbox[i] /\ i < n
      /\ \A i \in DOMAIN inbox' : i \in DOMAIN inbox \/ inbox'[i] = m
      /\ n \in DOMAIN inbox' /\ inbox'[n] = m
  BY SMTT(30), <1>0
<1> HIDE DEF n
<1>2. SUFFICES ASSUME NEW i \in DOMAIN inbox', inbox'[i].type \in BlockMessage
               PROVE  Followed(i)'
  BY DEF FollowInv, BlockMessage
<1>3. i \in DOMAIN inbox
  BY <1>1, <1>2
<1>4. Followed(i) /\ inbox'[i] = inbox[i]
  BY <1>1, <1>2, <1>3 DEF FollowInv
<1>5. CASE inbox[i].op = m.op
  <2>1. i < n /\ inbox'[n].type \notin BlockMessage /\ inbox'[n].op = inbox'[i].op
    BY <1>1, <1>3, <1>4, <1>5
  <2>2. QED BY <1>1, <2>1 DEF Followed, BlockMessage
<1>6. CASE inbox[i].op # m.op
  <2>1. CASE \E v \in Worker : assigned[v] # << >> /\ Head(assigned[v]).op = inbox[i].op
    BY <1>4, <1>6, <2>1 DEF Followed
  <2>2. CASE \E j \in DOMAIN inbox :
               i < j /\ inbox[j].type \notin BlockMessage /\ inbox[j].op = inbox[i].op
    BY <1>1, <1>4, <2>2 DEF Followed, BlockMessage
  <2>3. QED BY <1>4, <2>1, <2>2 DEF Followed
<1>7. QED BY <1>5, <1>6

(* Behind every message about a block a completion is still to come. *)
LEMMA FollowStep == Sound /\ FollowInv /\ [Next]_vars => FollowInv'
<1> SUFFICES ASSUME Sound, FollowInv, [Next]_vars PROVE FollowInv'
  OBVIOUS
<1> TypeOK /\ CountingLaws BY DEF Sound
<1>1. ASSUME UNCHANGED <<inbox, assigned>> PROVE FollowInv'
  BY <1>1, FollowKept
<1>2. ASSUME NEW o \in Op,
             StartOperator(o) \/ NotifyBlockedDependent(o) \/ NotifyReadyDependent(o)
      PROVE  FollowInv'
  BY <1>1, <1>2 DEF StartOperator, NotifyBlockedDependent, NotifyReadyDependent, workers
<1>3. ASSUME ReturnFromMarkFinished PROVE FollowInv'
  BY <1>1, <1>3 DEF ReturnFromMarkFinished, workers
<1>4. ASSUME Received PROVE FollowInv'
  BY <1>4, FollowKept, ReceivedType
<1>5. ASSUME NEW w \in Worker, NEW x \in WorkOrder, UNCHANGED inbox,
             assigned' = [assigned EXCEPT ![w] = Append(@, x)]
      PROVE  FollowInv'
  <2>1. assigned \in [Worker -> Seq(WorkOrder)]
    BY DEF TypeOK
  <2>2. ASSUME NEW v \in Worker, assigned[v] # << >>
        PROVE  assigned'[v] # << >> /\ Head(assigned'[v]) = Head(assigned[v])
    <3>1. CASE v = w
      BY SMTT(30), <1>5, <2>1, <2>2, <3>1
    <3>2. CASE v # w
      BY <1>5, <2>1, <2>2, <3>2
    <3>3. QED BY <3>1, <3>2
  <2>3. QED BY <1>5, <2>2, FollowKept
<1>6. ASSUME NEW o \in Op, NEW w \in Worker, DispatchRebuild(o, w) PROVE FollowInv'
  <2> DEFINE x == [op |-> o, rebuild |-> TRUE, block |-> Head(rebuildWorkOrders[o])]
  <2>1. rebuildWorkOrders[o] \in Seq(Block) /\ rebuildWorkOrders[o] # << >>
    BY <1>6 DEF DispatchRebuild, TypeOK
  <2>2. x \in WorkOrder
    BY SMTT(30), <2>1 DEF WorkOrder
  <2>3. UNCHANGED inbox /\ assigned' = [assigned EXCEPT ![w] = Append(@, x)]
    BY <1>6 DEF DispatchRebuild
  <2> HIDE DEF x
  <2>4. QED BY <1>5, <2>2, <2>3
<1>7. ASSUME NEW o \in Op, NEW w \in Worker, DispatchNormal(o, w) PROVE FollowInv'
  <2> DEFINE x == [op |-> o, rebuild |-> FALSE, block |-> Head(normalWorkOrders[o])]
  <2>1. normalWorkOrders[o] \in Seq(Block) /\ normalWorkOrders[o] # << >>
    BY <1>7 DEF DispatchNormal, TypeOK
  <2>2. x \in WorkOrder
    BY SMTT(30), <2>1 DEF WorkOrder
  <2>3. UNCHANGED inbox /\ assigned' = [assigned EXCEPT ![w] = Append(@, x)]
    BY <1>7 DEF DispatchNormal
  <2> HIDE DEF x
  <2>4. QED BY <1>5, <2>2, <2>3
<1>8. ASSUME NEW w \in Worker, ReuseBlock(w) \/ ReturnPartialBlock(w) PROVE FollowInv'
  BY <1>1, <1>8 DEF ReuseBlock, ReturnPartialBlock
<1>9. ASSUME NEW w \in Worker, NEW m, m \in Message, assigned[w] # << >>, UNCHANGED assigned,
             m.op = Head(assigned[w]).op, inbox' = Append(inbox, m)
      PROVE  FollowInv'
  BY <1>9, FollowSent
<1>10. ASSUME NEW w \in Worker, CreateNewBlock(w) PROVE FollowInv'
  <2> DEFINE o == Head(assigned[w]).op
             b == [from |-> o, id |-> created[o] + 1]
             m == [type |-> "NewBlock", op |-> o, block |-> b]
  <2>1. assigned[w] # << >> /\ UNCHANGED assigned /\ inbox' = Append(inbox, m)
    BY <1>10 DEF CreateNewBlock, Running, Send
  <2>2. o \in Op
    BY <2>1, RunningOrder
  <2>3. m \in Message /\ m.op = Head(assigned[w]).op
    BY SMTT(30), <2>2 DEF Message, Block, TypeOK
  <2> HIDE DEF m
  <2>4. QED BY <1>9, <2>1, <2>3
<1>11. ASSUME NEW w \in Worker, ReturnFullBlock(w) PROVE FollowInv'
  <2> DEFINE m == [type |-> "DataPipeline", op |-> Head(assigned[w]).op, block |-> held[w]]
  <2>1. assigned[w] # << >> /\ UNCHANGED assigned /\ inbox' = Append(inbox, m)
    BY <1>11 DEF ReturnFullBlock, Running, Send
  <2>2. Head(assigned[w]).op \in Op /\ held[w] \in Block
    BY <2>1, RunningOrder DEF TypeOK
  <2>3. m \in Message /\ m.op = Head(assigned[w]).op
    BY <2>2 DEF Message
  <2> HIDE DEF m
  <2>4. QED BY <1>9, <2>1, <2>3
<1>12. ASSUME NEW w \in Worker, RebuildBlock(w) PROVE FollowInv'
  <2> DEFINE m == [type |-> "DataPipeline", op |-> Head(assigned[w]).op,
                   block |-> Head(assigned[w]).block]
  <2>1. assigned[w] # << >> /\ UNCHANGED assigned /\ inbox' = Append(inbox, m)
    BY <1>12 DEF RebuildBlock, Running, Send
  <2>2. Head(assigned[w]).op \in Op /\ Head(assigned[w]).block \in Block
    BY <2>1, RunningOrder
  <2>3. m \in Message /\ m.op = Head(assigned[w]).op
    BY <2>2 DEF Message
  <2> HIDE DEF m
  <2>4. QED BY <1>9, <2>1, <2>3
<1>13. ASSUME NEW w \in Worker, SendWorkOrderComplete(w) PROVE FollowInv'
  <2> DEFINE t == IF Head(assigned[w]).rebuild THEN "RebuildComplete" ELSE "Complete"
             m == [type |-> t, op |-> Head(assigned[w]).op, block |-> NoBlock]
  <2>1. assigned[w] # << >> /\ inbox' = Append(inbox, m)
        /\ \A v \in Worker \ {w} : assigned'[v] = assigned[v]
    BY <1>13 DEF SendWorkOrderComplete, Running, Send, TypeOK
  <2>2. Head(assigned[w]).op \in Op /\ NoBlock \in Block
    BY <2>1, RunningOrder DEF NoBlock, Block
  <2>3. m \in Message /\ m.op = Head(assigned[w]).op /\ m.type \notin BlockMessage
    BY <2>2 DEF Message, BlockMessage
  <2> HIDE DEF m
  <2>4. QED BY <2>1, <2>3, FollowCompleted
<1>14. ASSUME UNCHANGED vars PROVE FollowInv'
  BY <1>1, <1>14 DEF vars, workers
<1>15. QED
  BY <1>2, <1>3, <1>4, <1>6, <1>7, <1>8, <1>10, <1>11, <1>12, <1>13, <1>14
  DEF Next, Foreman, Received, Dispatch, WorkerStep, Terminated

-----------------------------------------------------------------------------
(* Operators that have not been asked for work. *)

(* No work order is queued: none is at a worker or reported as complete. *)
LEMMA NothingQueued ==
  ASSUME Sound, QueuedInv, NEW o \in Op, queuedWorkOrders[o] = 0
  PROVE  /\ \A w \in Worker : \A i \in DOMAIN assigned[w] :
              assigned[w][i].op = o => assigned[w][i].rebuild
         /\ \A i \in DOMAIN inbox : inbox[i].op = o => inbox[i].type # "Complete"
<1> TypeOK /\ CountingLaws BY DEF Sound
<1> DEFINE X == NormalOf(o)
           Y == MessagesOf("Complete", o)
<1>0. assigned \in [Worker -> Seq(WorkOrder)] /\ inbox \in Seq(Message)
  BY DEF TypeOK
<1>1. IsFiniteSet(Places(assigned, X)) /\ Total(assigned, X) + Count(inbox, Y) = 0
  BY DEF QueuedInv
<1> HIDE DEF X, Y
<1>2. /\ Total(assigned, X) \in Nat
      /\ Total(assigned, X) = 0 <=> \A w \in Worker : \A i \in DOMAIN assigned[w] : assigned[w][i] \notin X
  BY <1>0, <1>1 DEF CountingLaws, TotalZeros
<1>3. Count(inbox, Y) \in Nat /\ (Count(inbox, Y) = 0 <=> \A i \in DOMAIN inbox : inbox[i] \notin Y)
  BY <1>0 DEF CountingLaws, CountTypes
<1>4. Total(assigned, X) = 0 /\ Count(inbox, Y) = 0
  BY ONLY SMTT(30), <1>1, <1>2, <1>3
<1>5. /\ \A w \in Worker : \A i \in DOMAIN assigned[w] : assigned[w][i] \notin X
      /\ \A i \in DOMAIN inbox : inbox[i] \notin Y
  BY <1>2, <1>3, <1>4
<1>6. \A w \in Worker : \A i \in DOMAIN assigned[w] : assigned[w][i].op = o => assigned[w][i].rebuild
  BY <1>5, QueuedOrder DEF X, NormalOf
<1>7. \A i \in DOMAIN inbox : inbox[i] \in Message
  BY SMTT(30), <1>0
<1>8. QED BY <1>5, <1>6, <1>7 DEF Y, MessagesOf

(* Asking operators for work turns all they have been fed into work orders. *)
LEMMA FetchStarts ==
  ASSUME Sound, StartInv, UNCHANGED <<queuedWorkOrders, created>>, NEW S, NEW feds, NEW dones,
         Fetch(S, feds, dones),
         \A o \in Op : storedGenerated[o] /\ o \notin S => feds[o] = fed[o]
  PROVE  StartInv'
<1>1. /\ \A o \in Op : storedGenerated'[o] <=> storedGenerated[o] \/ o \in S
      /\ \A o \in Op : numGenerated'[o] = IF o \in S THEN Len(feds[o]) ELSE numGenerated[o]
      /\ \A o \in Op : o \notin S => normalWorkOrders'[o] = normalWorkOrders[o]
      /\ \A o \in Op : fed'[o] = feds[o]
  BY DEF Fetch
<1>2. QED BY <1>1 DEF StartInv

(* The block fed to an operator that has been asked for work is fetched at once. *)
LEMMA FedIsFetched ==
  ASSUME Sound, StartInv, SchedulingInvariant, ProcessDataPipeline
  PROVE  StartInv'
<1> DEFINE p == Head(inbox).op
           S == {c \in OutputConsumers(p) : CheckAllBlockingDependenciesMet(c)}
           feds == [c \in Op |-> IF c \in OutputConsumers(p) /\ p \in Input[c]
                                 THEN Append(fed[c], Head(inbox).block) ELSE fed[c]]
<1>1. Fetch(S, feds, doneFed) /\ UNCHANGED <<queuedWorkOrders, created>>
  BY DEF ProcessDataPipeline, workers
<1>2. \A o \in Op : storedGenerated[o] => CheckAllBlockingDependenciesMet(o)
  BY DEF SchedulingInvariant, GenerationBehindBlocking, CheckAllBlockingDependenciesMet
<1>3. \A o \in Op : storedGenerated[o] /\ o \notin S => feds[o] = fed[o]
  BY <1>2
<1> HIDE DEF S, feds
<1>4. QED BY <1>1, <1>3, FetchStarts

(* Work orders are generated from all that was fed, and only when asked for. *)
LEMMA StartStep ==
  Sound /\ SchedulingInvariant /\ QueuedInv /\ StartInv /\ [Next]_vars => StartInv'
<1> SUFFICES ASSUME Sound, SchedulingInvariant, QueuedInv, StartInv, [Next]_vars PROVE StartInv'
  OBVIOUS
<1> TypeOK /\ CountingLaws BY DEF Sound
<1>1. ASSUME UNCHANGED <<storedGenerated, numGenerated, fed, normalWorkOrders, queuedWorkOrders, created>>
      PROVE  StartInv'
  BY <1>1 DEF StartInv
<1>2. ASSUME NEW o \in Op, StartOperator(o) PROVE StartInv'
  BY <1>2, FetchStarts DEF StartOperator, workers
<1>3. ASSUME NEW o \in Op, NotifyBlockedDependent(o) PROVE StartInv'
  BY <1>1, <1>3 DEF NotifyBlockedDependent, queues, workers
<1>4. ASSUME NEW o \in Op, NotifyReadyDependent(o) PROVE StartInv'
  BY <1>4, FetchStarts DEF NotifyReadyDependent, workers
<1>5. ASSUME \/ ReturnFromMarkFinished \/ ProcessRebuildWorkOrderComplete \/ ProcessNewBlock
      PROVE  StartInv'
  BY <1>1, <1>5 DEF ReturnFromMarkFinished, ProcessRebuildWorkOrderComplete, ProcessNewBlock,
                    opState, queues, workers
<1>6. ASSUME ProcessDataPipeline PROVE StartInv'
  BY <1>6, FedIsFetched
<1>7. ASSUME ProcessWorkOrderComplete PROVE StartInv'
  <2> DEFINE o == inbox[1].op
  <2>1. /\ Receive("Complete") /\ Head(inbox) = inbox[1] /\ 1 \in DOMAIN inbox /\ o \in Op
        /\ UNCHANGED created
    BY <1>7, ReceivedType DEF Received, ProcessWorkOrderComplete
  <2>2. inbox[1].type = "Complete"
    BY <2>1 DEF Receive
  <2>3. queuedWorkOrders[o] # 0
    BY <2>1, <2>2, NothingQueued
  <2>4. storedGenerated[o]
    BY <2>1, <2>3 DEF StartInv
  <2>5. /\ UNCHANGED <<storedGenerated, numGenerated, fed, normalWorkOrders>>
        /\ queuedWorkOrders' = [queuedWorkOrders EXCEPT ![o] = @ - 1]
    BY <1>7, <2>1 DEF ProcessWorkOrderComplete, opState
  <2> HIDE DEF o
  <2>6. \A p \in Op : p # o => queuedWorkOrders'[p] = queuedWorkOrders[p]
    BY <2>5 DEF TypeOK
  <2>7. QED BY <2>1, <2>4, <2>5, <2>6 DEF StartInv
<1>8. ASSUME NEW o \in Op, NEW w \in Worker, DispatchRebuild(o, w) PROVE StartInv'
  BY <1>1, <1>8 DEF DispatchRebuild, opState, queues
<1>9. ASSUME NEW o \in Op, NEW w \in Worker, DispatchNormal(o, w) PROVE StartInv'
  <2>1. storedGenerated[o]
    BY <1>9 DEF DispatchNormal, StartInv
  <2>2. /\ UNCHANGED <<storedGenerated, numGenerated, fed, created>>
        /\ \A p \in Op : p # o => /\ queuedWorkOrders'[p] = queuedWorkOrders[p]
                                  /\ normalWorkOrders'[p] = normalWorkOrders[p]
    BY <1>9 DEF DispatchNormal, opState, TypeOK
  <2>3. QED BY <2>1, <2>2 DEF StartInv
<1>10. ASSUME NEW w \in Worker, CreateNewBlock(w) PROVE StartInv'
  <2> DEFINE o == Head(assigned[w]).op
  <2>1. assigned[w] # << >> /\ ~Head(assigned[w]).rebuild
    BY <1>10 DEF CreateNewBlock, Running
  <2>2. o \in Op /\ 1 \in DOMAIN assigned[w] /\ assigned[w][1] = Head(assigned[w])
    BY <2>1, RunningOrder
  <2>3. queuedWorkOrders[o] # 0
    BY <2>1, <2>2, NothingQueued
  <2>4. storedGenerated[o]
    BY <2>2, <2>3 DEF StartInv
  <2>5. /\ UNCHANGED <<storedGenerated, numGenerated, fed, normalWorkOrders, queuedWorkOrders>>
        /\ created' = [created EXCEPT ![o] = @ + 1]
    BY <1>10 DEF CreateNewBlock, opState, queues
  <2> HIDE DEF o
  <2>6. \A p \in Op : p # o => created'[p] = created[p]
    BY <2>5 DEF TypeOK
  <2>7. QED BY <2>4, <2>5, <2>6 DEF StartInv
<1>11. ASSUME NEW w \in Worker,
              \/ ReuseBlock(w) \/ ReturnFullBlock(w) \/ ReturnPartialBlock(w)
              \/ RebuildBlock(w) \/ SendWorkOrderComplete(w)
       PROVE  StartInv'
  BY <1>1, <1>11 DEF ReuseBlock, ReturnFullBlock, ReturnPartialBlock, RebuildBlock,
                     SendWorkOrderComplete, opState, queues
<1>12. ASSUME UNCHANGED vars PROVE StartInv'
  BY <1>1, <1>12 DEF vars, opState, queues, workers
<1>13. QED
  BY <1>2, <1>3, <1>4, <1>5, <1>6, <1>7, <1>8, <1>9, <1>10, <1>11, <1>12
  DEF Next, Foreman, Dispatch, WorkerStep, Terminated

-----------------------------------------------------------------------------
(* The flow of blocks. *)

(* An operator's blocks are its own. *)
LEMMA MadeFrom ==
  ASSUME NEW o, NEW n, NEW b \in Made(o, n)
  PROVE  b.from = o
BY SMTT(30) DEF Made

(* The numbers of a block. *)
LEMMA FlowTypes ==
  ASSUME Sound, FlowInv, NEW o \in Op, NEW b \in Block, b.from = o
  PROVE  /\ b.from \in Op /\ b # NoBlock /\ IsFiniteSet(Places(Hands, Pending(b)))
         /\ Count(available[o], {b}) \in Nat /\ Count(rebuildWorkOrders[o], {b}) \in Nat
         /\ Total(Hands, Pending(b)) \in Nat /\ Count(inbox, Streams(b)) \in Nat
         /\ Waiting(o, b) \in Nat
<1> TypeOK /\ CountingLaws BY DEF Sound
<1>1. IsFiniteSet(Places(Hands, Pending(b)))
  BY DEF FlowInv, FlowOf
<1>2. Total(Hands, Pending(b)) \in Nat
  BY <1>1 DEF CountingLaws, SetSizes, Total
<1>3. available[o] \in Seq(Block) /\ rebuildWorkOrders[o] \in Seq(Block) /\ inbox \in Seq(Message)
  BY DEF TypeOK
<1>4. /\ Count(available[o], {b}) \in Nat /\ Count(rebuildWorkOrders[o], {b}) \in Nat
      /\ Count(inbox, Streams(b)) \in Nat
  BY <1>3 DEF CountingLaws, CountTypes
<1>5. b # NoBlock
  BY SMTT(30) DEF NoBlock, Op, Database
<1>6. QED BY SMTT(30), <1>1, <1>2, <1>4, <1>5 DEF Waiting

(* The blocks in a worker's hand. *)
LEMMA HandCount ==
  ASSUME CountingLaws,
         NEW h \in Block, NEW r \in BOOLEAN, NEW q \in Seq(WorkOrder), r => q # << >>,
         NEW b \in Block, b.from \in Op
  PROVE  /\ Hand(h, r, q) \in Seq(WorkOrder)
         /\ Count(Hand(h, r, q), Pending(b)) \in Nat /\ Count(q, Pending(b)) \in Nat
         /\ Count(Hand(h, r, q), Pending(b)) + (IF r THEN One(Head(q), Pending(b)) ELSE 0)
              = One(h, {b}) + Count(q, Pending(b))
<1> DEFINE P == Pending(b)
           s == IF h = NoBlock THEN << >> ELSE <<AsOrder(h)>>
           t == IF r THEN Tail(q) ELSE q
<1>1. AsOrder(h) \in WorkOrder /\ (AsOrder(h) \in P <=> h = b)
  BY SMTT(30), PlanAssumption DEF AsOrder, WorkOrder, Pending, Op
<1>2. b # NoBlock
  BY SMTT(30) DEF NoBlock, Op, Database
<1>3. s \in Seq(WorkOrder) /\ Count(s, P) = One(h, {b})
  <2>1. CASE h = NoBlock
    BY SMTT(30), <1>2, <2>1 DEF CountingLaws, EmptyCounts, One
  <2>2. CASE h # NoBlock
    <3>1. s = Append(<< >>, AsOrder(h)) /\ << >> \in Seq(WorkOrder)
      BY SMTT(30), <2>2
    <3>2. Count(s, P) = Count(<< >>, P) + One(AsOrder(h), P)
      BY <1>1, <3>1 DEF CountingLaws, AppendCounts
    <3>3. Count(<< >>, P) = 0
      BY DEF CountingLaws, EmptyCounts
    <3>4. One(AsOrder(h), P) = One(h, {b}) /\ One(h, {b}) \in Nat
      BY <1>1 DEF One
    <3>5. s \in Seq(WorkOrder)
      BY SMTT(30), <1>1, <2>2
    <3>6. QED BY SMTT(30), <3>2, <3>3, <3>4, <3>5
  <2>3. QED BY <2>1, <2>2
<1>4. t \in Seq(WorkOrder)
  BY SMTT(30) DEF Hand
<1>5. Hand(h, r, q) = s \o t
  BY DEF Hand
<1>6. Count(q, P) = Count(t, P) + (IF r THEN One(Head(q), P) ELSE 0)
  <2>1. CASE r
    BY <2>1 DEF CountingLaws, TailCounts
  <2>2. CASE ~r
    <3>1. t = q
      BY <2>2
    <3>2. Count(q, P) \in Nat
      BY DEF CountingLaws, CountTypes
    <3>3. QED BY ONLY SMTT(30), <2>2, <3>1, <3>2
  <2>3. QED BY <2>1, <2>2
<1> HIDE DEF s, t, P
<1>7. Count(s \o t, P) = Count(s, P) + Count(t, P) /\ s \o t \in Seq(WorkOrder)
  BY SMTT(30), <1>3, <1>4 DEF CountingLaws, ConcatCounts
<1>8. Count(s \o t, P) \in Nat /\ Count(t, P) \in Nat /\ Count(s, P) \in Nat /\ Count(q, P) \in Nat
  BY <1>3, <1>4, <1>7 DEF CountingLaws, CountTypes
<1>9. One(h, {b}) \in Nat /\ One(Head(q), P) \in Nat
  BY DEF One
<1>10. Count(s \o t, P) + (IF r THEN One(Head(q), P) ELSE 0) = One(h, {b}) + Count(q, P)
  BY ONLY SMTT(30), <1>3, <1>6, <1>7, <1>8, <1>9
<1>11. QED BY <1>5, <1>7, <1>8, <1>10 DEF P

(* A step of one worker, or a dispatch to it, changes its hand only. *)
LEMMA HandsChanged ==
  ASSUME Sound, Sound', HandInv, HandInv', NEW w \in Worker,
         \A v \in Worker \ {w} :
           assigned'[v] = assigned[v] /\ held'[v] = held[v] /\ returned'[v] = returned[v],
         NEW b \in Block, b.from \in Op, IsFiniteSet(Places(Hands, Pending(b)))
  PROVE  /\ IsFiniteSet(Places(Hands', Pending(b)))
         /\ Total(Hands, Pending(b)) \in Nat /\ Total(Hands', Pending(b)) \in Nat
         /\ Count(assigned[w], Pending(b)) \in Nat /\ Count(assigned'[w], Pending(b)) \in Nat
         /\ Total(Hands', Pending(b)) + One(held[w], {b}) + Count(assigned[w], Pending(b))
              + (IF returned'[w] THEN One(Head(assigned'[w]), Pending(b)) ELSE 0)
            = Total(Hands, Pending(b)) + One(held'[w], {b}) + Count(assigned'[w], Pending(b))
              + (IF returned[w] THEN One(Head(assigned[w]), Pending(b)) ELSE 0)
<1> TypeOK /\ TypeOK' /\ CountingLaws BY DEF Sound
<1> DEFINE P == Pending(b)
<1>1. /\ \A v \in Worker : held[v] \in Block /\ returned[v] \in BOOLEAN /\ assigned[v] \in Seq(WorkOrder)
      /\ \A v \in Worker : held'[v] \in Block /\ returned'[v] \in BOOLEAN /\ assigned'[v] \in Seq(WorkOrder)
      /\ \A v \in Worker : returned[v] => assigned[v] # << >>
      /\ \A v \in Worker : returned'[v] => assigned'[v] # << >>
  BY DEF TypeOK, HandInv, HandOf
<1>2. \A v \in Worker : Hands[v] = Hand(held[v], returned[v], assigned[v])
  BY DEF Hands
<1>3. \A v \in Worker : Hands'[v] = Hand(held'[v], returned'[v], assigned'[v])
  BY DEF Hands
<1>4. ASSUME NEW v \in Worker PROVE Hands[v] \in Seq(WorkOrder) /\ Hands'[v] \in Seq(WorkOrder)
  <2>1. Hand(held[v], returned[v], assigned[v]) \in Seq(WorkOrder)
    BY <1>1, HandCount
  <2>2. Hand(held'[v], returned'[v], assigned'[v]) \in Seq(WorkOrder)
    BY <1>1, HandCount
  <2>3. QED BY <1>2, <1>3, <2>1, <2>2
<1>5. Hands \in Queues(Worker, WorkOrder) /\ Hands' \in Queues(Worker, WorkOrder)
  BY <1>4 DEF Hands, Queues
<1>6. \A v \in Worker \ {w} : Hands'[v] = Hands[v]
  BY <1>2, <1>3
<1>7. w \in Worker /\ IsFiniteSet(Places(Hands, P))
  OBVIOUS
<1> HIDE DEF P
<1>8. /\ IsFiniteSet(Places(Hands', P)) /\ Total(Hands, P) \in Nat /\ Total(Hands', P) \in Nat
      /\ Total(Hands', P) + Count(Hands[w], P) = Total(Hands, P) + Count(Hands'[w], P)
  BY ONLY SMTT(30), <1>5, <1>6, <1>7, CountingLaws DEF CountingLaws, TotalChanges
<1>9. /\ Count(Hands[w], P) \in Nat /\ Count(assigned[w], P) \in Nat
      /\ Count(Hands[w], P) + (IF returned[w] THEN One(Head(assigned[w]), P) ELSE 0)
           = One(held[w], {b}) + Count(assigned[w], P)
  BY SMTT(30), <1>1, <1>2, HandCount DEF P
<1>10. /\ Count(Hands'[w], P) \in Nat /\ Count(assigned'[w], P) \in Nat
       /\ Count(Hands'[w], P) + (IF returned'[w] THEN One(Head(assigned'[w]), P) ELSE 0)
            = One(held'[w], {b}) + Count(assigned'[w], P)
  <2>1. PICK h, u, q : h = held'[w] /\ u = returned'[w] /\ q = assigned'[w]
    OBVIOUS
  <2>2. h \in Block /\ u \in BOOLEAN /\ q \in Seq(WorkOrder) /\ (u => q # << >>) /\ Hands'[w] = Hand(h, u, q)
    BY <1>1, <1>3, <2>1
  <2>3. /\ Count(Hand(h, u, q), P) \in Nat /\ Count(q, P) \in Nat
        /\ Count(Hand(h, u, q), P) + (IF u THEN One(Head(q), P) ELSE 0) = One(h, {b}) + Count(q, P)
    BY <2>2, HandCount DEF P
  <2>4. QED BY ONLY Zenon, <2>1, <2>2, <2>3
<1>11. /\ One(held[w], {b}) \in Nat /\ One(held'[w], {b}) \in Nat
       /\ (IF returned[w] THEN One(Head(assigned[w]), P) ELSE 0) \in Nat
       /\ (IF returned'[w] THEN One(Head(assigned'[w]), P) ELSE 0) \in Nat
  BY DEF One
<1>12. Total(Hands', P) + One(held[w], {b}) + Count(assigned[w], P)
              + (IF returned'[w] THEN One(Head(assigned'[w]), P) ELSE 0)
            = Total(Hands, P) + One(held'[w], {b}) + Count(assigned'[w], P)
              + (IF returned[w] THEN One(Head(assigned[w]), P) ELSE 0)
  BY ONLY SMTT(30), <1>8, <1>9, <1>10, <1>11
<1>13. QED BY <1>8, <1>9, <1>10, <1>12 DEF P

(* A step that moves a block from one place to another. *)
LEMMA FlowSame ==
  ASSUME FlowInv, UNCHANGED <<fed, created>>,
         \A o \in Op : \A b \in Block : b.from = o =>
           /\ IsFiniteSet(Places(Hands', Pending(b)))
           /\ Waiting(o, b)' = Waiting(o, b)
  PROVE  FlowInv'
<1> SUFFICES ASSUME NEW o \in Op, NEW b \in Block, b.from = o PROVE FlowOf(o, b)'
  BY DEF FlowInv
<1>1. FlowOf(o, b) /\ IsFiniteSet(Places(Hands', Pending(b))) /\ Waiting(o, b)' = Waiting(o, b)
  BY DEF FlowInv
<1> HIDE DEF Waiting
<1>2. QED BY <1>1 DEF FlowOf

(* No worker takes part, no block moves. *)
LEMMA FlowQuiet ==
  ASSUME FlowInv, UNCHANGED <<assigned, held, returned, fed, created, available, rebuildWorkOrders>>,
         \A b \in Block : Count(inbox', Streams(b)) = Count(inbox, Streams(b))
  PROVE  FlowInv'
<1>1. Hands' = Hands
  BY DEF Hands
<1>2. \A o \in Op : \A b \in Block : b.from = o =>
           IsFiniteSet(Places(Hands', Pending(b))) /\ Waiting(o, b)' = Waiting(o, b)
  BY <1>1 DEF Waiting, FlowInv, FlowOf
<1>3. QED BY <1>2, FlowSame

(* A received message that is no DataPipelineMessage streams no block. *)
LEMMA OtherStream ==
  ASSUME Sound, NEW t, Receive(t), t # "DataPipeline", NEW b
  PROVE  Count(inbox', Streams(b)) = Count(inbox, Streams(b))
<1>1. Head(inbox) \notin Streams(b)
  BY DEF Receive, Streams
<1>2. One(Head(inbox), Streams(b)) = 0
  BY <1>1 DEF One
<1>3. QED BY SMTT(30), <1>2, ReceivedCount

(* initiateRebuild() moves the pool's blocks to the rebuild work orders. *)
LEMMA FlowInitiate ==
  ASSUME Sound, FlowInv, NEW p \in Op, InitiateRebuild(p),
         UNCHANGED <<assigned, held, returned, fed, created>>,
         \A b \in Block : Count(inbox', Streams(b)) = Count(inbox, Streams(b))
  PROVE  FlowInv'
<1> SUFFICES ASSUME NEW o \in Op, NEW b \in Block, b.from = o
             PROVE  IsFiniteSet(Places(Hands', Pending(b))) /\ Waiting(o, b)' = Waiting(o, b)
  BY FlowSame
<1> TypeOK /\ CountingLaws BY DEF Sound
<1>1. Hands' = Hands
  BY DEF Hands
<1>2. /\ available \in [Op -> Seq(Block)] /\ rebuildWorkOrders \in [Op -> Seq(Block)]
      /\ rebuildWorkOrders' = [rebuildWorkOrders EXCEPT ![p] = @ \o available[p]]
      /\ available' = [available EXCEPT ![p] = << >>]
  BY DEF InitiateRebuild, TypeOK
<1>3. /\ IsFiniteSet(Places(Hands, Pending(b)))
      /\ Count(available[o], {b}) \in Nat /\ Count(rebuildWorkOrders[o], {b}) \in Nat
  BY FlowTypes
<1>4. Count(available'[o], {b}) + Count(rebuildWorkOrders'[o], {b})
        = Count(available[o], {b}) + Count(rebuildWorkOrders[o], {b})
  <2>1. CASE o = p
    <3>1. available'[o] = << >> /\ rebuildWorkOrders'[o] = rebuildWorkOrders[o] \o available[o]
      BY <1>2, <2>1
    <3>2. Count(rebuildWorkOrders'[o], {b})
            = Count(rebuildWorkOrders[o], {b}) + Count(available[o], {b})
      <4>1. rebuildWorkOrders[o] \in Seq(Block) /\ available[o] \in Seq(Block)
        BY <1>2
      <4>2. QED BY ONLY Zenon, <3>1, <4>1, CountingLaws DEF CountingLaws, ConcatCounts
    <3>3. Count(available'[o], {b}) = 0
      BY <3>1 DEF CountingLaws, EmptyCounts
    <3>4. QED BY ONLY SMTT(30), <1>3, <3>2, <3>3
  <2>2. CASE o # p
    BY <1>2, <2>2
  <2>3. QED BY <2>1, <2>2
<1>5. QED BY <1>1, <1>3, <1>4 DEF Waiting

(* RebuildOrFinish() moves the blocks of the pool to the rebuild work orders. *)
LEMMA FlowRebuildOrFinish ==
  ASSUME Sound, FlowInv, NEW p \in Op, NEW callers, RebuildOrFinish(p, callers),
         UNCHANGED <<assigned, held, returned, fed, created>>,
         \A b \in Block : Count(inbox', Streams(b)) = Count(inbox, Streams(b))
  PROVE  FlowInv'
<1>1. CASE UNCHANGED rebuilds
  BY <1>1, FlowQuiet DEF rebuilds
<1>2. CASE InitiateRebuild(p)
  BY <1>2, FlowInitiate
<1>3. QED BY <1>1, <1>2 DEF RebuildOrFinish

(* A dispatched work order is in the worker's hand. *)
LEMMA HandDispatched ==
  ASSUME Sound, Sound', HandInv, HandInv', NEW w \in Worker, NEW x \in WorkOrder,
         assigned' = [assigned EXCEPT ![w] = Append(@, x)], UNCHANGED <<held, returned>>,
         NEW b \in Block, b.from \in Op, IsFiniteSet(Places(Hands, Pending(b)))
  PROVE  /\ IsFiniteSet(Places(Hands', Pending(b)))
         /\ Total(Hands', Pending(b)) = Total(Hands, Pending(b)) + One(x, Pending(b))
<1> TypeOK /\ TypeOK' /\ CountingLaws BY DEF Sound
<1> DEFINE P == Pending(b)
           R == IF returned[w] THEN One(Head(assigned[w]), P) ELSE 0
<1>1. assigned \in [Worker -> Seq(WorkOrder)]
  BY DEF TypeOK
<1>2. assigned'[w] = Append(assigned[w], x)
      /\ \A v \in Worker \ {w} : assigned'[v] = assigned[v] /\ held'[v] = held[v] /\ returned'[v] = returned[v]
  BY <1>1
<1>3. returned[w] => Head(assigned'[w]) = Head(assigned[w])
  BY SMTT(30), <1>1, <1>2 DEF HandInv, HandOf
<1>4. R = IF returned'[w] THEN One(Head(assigned'[w]), P) ELSE 0
  BY <1>3
<1>5. R \in Nat /\ One(held[w], {b}) \in Nat /\ One(x, P) \in Nat
  BY DEF One
<1>6. Count(assigned'[w], P) = Count(assigned[w], P) + One(x, P)
  BY SMTT(30), <1>1, <1>2 DEF CountingLaws, AppendCounts
<1> HIDE DEF P
<1>7. /\ IsFiniteSet(Places(Hands', P))
      /\ Total(Hands, P) \in Nat /\ Total(Hands', P) \in Nat
      /\ Count(assigned[w], P) \in Nat /\ Count(assigned'[w], P) \in Nat
      /\ Total(Hands', P) + One(held[w], {b}) + Count(assigned[w], P)
           + (IF returned'[w] THEN One(Head(assigned'[w]), P) ELSE 0)
         = Total(Hands, P) + One(held'[w], {b}) + Count(assigned'[w], P) + R
  BY <1>2, HandsChanged DEF P
<1>8. held'[w] = held[w]
  OBVIOUS
<1> HIDE DEF R
<1>9. Total(Hands', P) = Total(Hands, P) + One(x, P)
  BY ONLY SMTT(30), <1>4, <1>5, <1>6, <1>7, <1>8
<1>10. QED BY <1>7, <1>9 DEF P

(* A normal work order takes no block along. *)
LEMMA FlowDispatchNormal ==
  ASSUME Sound, Sound', HandInv, HandInv', FlowInv, NEW p \in Op, NEW w \in Worker,
         DispatchNormal(p, w)
  PROVE  FlowInv'
<1> TypeOK /\ TypeOK' /\ CountingLaws BY DEF Sound
<1> DEFINE x == [op |-> p, rebuild |-> FALSE, block |-> Head(normalWorkOrders[p])]
<1>1. normalWorkOrders[p] \in Seq(Block) /\ normalWorkOrders[p] # << >>
  BY DEF DispatchNormal, TypeOK
<1>2. x \in WorkOrder /\ \A b : x \notin Pending(b)
  BY SMTT(30), <1>1 DEF WorkOrder, Pending
<1>3. /\ assigned' = [assigned EXCEPT ![w] = Append(@, x)] /\ UNCHANGED <<held, returned>>
      /\ UNCHANGED <<fed, created, available, rebuildWorkOrders, inbox>>
  BY DEF DispatchNormal, opState, rebuilds
<1> HIDE DEF x
<1> SUFFICES ASSUME NEW o \in Op, NEW b \in Block, b.from = o
             PROVE  IsFiniteSet(Places(Hands', Pending(b))) /\ Waiting(o, b)' = Waiting(o, b)
  BY <1>3, FlowSame
<1>4. b.from \in Op /\ IsFiniteSet(Places(Hands, Pending(b))) /\ Total(Hands, Pending(b)) \in Nat
  BY FlowTypes
<1>5. /\ IsFiniteSet(Places(Hands', Pending(b)))
      /\ Total(Hands', Pending(b)) = Total(Hands, Pending(b)) + One(x, Pending(b))
  BY <1>2, <1>3, <1>4, HandDispatched
<1>6. One(x, Pending(b)) = 0
  BY <1>2 DEF One
<1>7. Total(Hands', Pending(b)) = Total(Hands, Pending(b))
  BY ONLY SMTT(30), <1>4, <1>5, <1>6
<1>8. QED BY <1>3, <1>5, <1>7 DEF Waiting

(* A rebuild work order takes its block from the queue to the worker. *)
LEMMA FlowDispatchRebuild ==
  ASSUME Sound, Sound', PlaceInv, HandInv', FlowInv, NEW p \in Op, NEW w \in Worker,
         DispatchRebuild(p, w)
  PROVE  FlowInv'
<1> TypeOK /\ TypeOK' /\ CountingLaws BY DEF Sound
<1> DEFINE e == Head(rebuildWorkOrders[p])
           x == [op |-> p, rebuild |-> TRUE, block |-> e]
<1>1. rebuildWorkOrders \in [Op -> Seq(Block)] /\ rebuildWorkOrders[p] # << >>
  BY DEF DispatchRebuild, TypeOK
<1>2. e \in Block /\ e = rebuildWorkOrders[p][1] /\ 1 \in DOMAIN rebuildWorkOrders[p]
  BY SMTT(30), <1>1
<1>3. e \in Made(p, created)
  BY <1>2 DEF PlaceInv, ListInv
<1>4. e.from = p
  BY <1>3, MadeFrom
<1>5. x \in WorkOrder /\ \A b : x \in Pending(b) <=> e = b
  BY <1>2 DEF WorkOrder, Pending
<1>6. /\ assigned' = [assigned EXCEPT ![w] = Append(@, x)] /\ UNCHANGED <<held, returned>>
      /\ UNCHANGED <<fed, created, available, inbox>>
      /\ rebuildWorkOrders' = [rebuildWorkOrders EXCEPT ![p] = Tail(@)]
  BY DEF DispatchRebuild, opState
<1> HIDE DEF x
<1> SUFFICES ASSUME NEW o \in Op, NEW b \in Block, b.from = o
             PROVE  IsFiniteSet(Places(Hands', Pending(b))) /\ Waiting(o, b)' = Waiting(o, b)
  BY <1>6, FlowSame
<1>7. /\ b.from \in Op /\ IsFiniteSet(Places(Hands, Pending(b))) /\ Total(Hands, Pending(b)) \in Nat
      /\ Count(available[o], {b}) \in Nat /\ Count(rebuildWorkOrders[o], {b}) \in Nat
      /\ Count(inbox, Streams(b)) \in Nat
  BY FlowTypes
<1>8. /\ IsFiniteSet(Places(Hands', Pending(b)))
      /\ Total(Hands', Pending(b)) = Total(Hands, Pending(b)) + One(x, Pending(b))
  BY <1>5, <1>6, <1>7, HandDispatched DEF PlaceInv
<1>9. One(x, Pending(b)) = One(e, {b}) /\ One(e, {b}) \in Nat
  BY <1>5 DEF One
<1>10. /\ Count(rebuildWorkOrders[o], {b}) = Count(rebuildWorkOrders'[o], {b}) + One(e, {b})
       /\ Count(rebuildWorkOrders'[o], {b}) \in Nat
  <2>1. CASE o = p
    <3>1. rebuildWorkOrders'[o] = Tail(rebuildWorkOrders[o]) /\ rebuildWorkOrders[o] \in Seq(Block)
          /\ rebuildWorkOrders'[o] \in Seq(Block)
      BY <1>1, <1>6, <2>1, SMTT(30)
    <3>2. QED BY <1>1, <2>1, <3>1 DEF CountingLaws, CountTypes, TailCounts
  <2>2. CASE o # p
    <3>1. rebuildWorkOrders'[o] = rebuildWorkOrders[o] /\ One(e, {b}) = 0
      BY <1>1, <1>4, <1>6, <2>2 DEF One
    <3>2. QED BY SMTT(30), <1>7, <3>1
  <2>3. QED BY <2>1, <2>2
<1> HIDE DEF e
<1>11. Count(rebuildWorkOrders'[o], {b}) + Total(Hands', Pending(b))
         = Count(rebuildWorkOrders[o], {b}) + Total(Hands, Pending(b))
  BY ONLY SMTT(30), <1>7, <1>8, <1>9, <1>10
<1>12. Total(Hands', Pending(b)) \in Nat
  BY SMTT(30), <1>7, <1>8, <1>9
<1>13. Waiting(o, b)' = Count(available[o], {b}) + Count(rebuildWorkOrders'[o], {b})
         + Total(Hands', Pending(b)) + Count(inbox, Streams(b))
  BY <1>6 DEF Waiting
<1>14. Waiting(o, b)' = Waiting(o, b)
  BY ONLY SMTT(30), <1>7, <1>10, <1>11, <1>12, <1>13 DEF Waiting
<1>15. QED BY <1>8, <1>14

(* A worker takes or gives back an output block. *)
LEMMA HandFilled ==
  ASSUME Sound, Sound', HandInv, HandInv', NEW w \in Worker, UNCHANGED <<assigned, returned>>,
         \A v \in Worker \ {w} : held'[v] = held[v],
         NEW b \in Block, b.from \in Op, IsFiniteSet(Places(Hands, Pending(b)))
  PROVE  /\ IsFiniteSet(Places(Hands', Pending(b))) /\ Total(Hands', Pending(b)) \in Nat
         /\ Total(Hands', Pending(b)) + One(held[w], {b}) = Total(Hands, Pending(b)) + One(held'[w], {b})
<1> DEFINE P == Pending(b)
           R == IF returned[w] THEN One(Head(assigned[w]), P) ELSE 0
<1>1. R = IF returned'[w] THEN One(Head(assigned'[w]), P) ELSE 0
  OBVIOUS
<1>2. /\ IsFiniteSet(Places(Hands', P))
      /\ Total(Hands, P) \in Nat /\ Total(Hands', P) \in Nat /\ Count(assigned[w], P) \in Nat
      /\ Total(Hands', P) + One(held[w], {b}) + Count(assigned[w], P)
           + (IF returned'[w] THEN One(Head(assigned'[w]), P) ELSE 0)
         = Total(Hands, P) + One(held'[w], {b}) + Count(assigned'[w], P) + R
  BY HandsChanged
<1>3. R \in Nat /\ One(held[w], {b}) \in Nat /\ One(held'[w], {b}) \in Nat
  BY DEF One
<1>4. Count(assigned'[w], P) = Count(assigned[w], P)
  OBVIOUS
<1> HIDE DEF P, R
<1>5. Total(Hands', P) + One(held[w], {b}) = Total(Hands, P) + One(held'[w], {b})
  BY ONLY SMTT(30), <1>1, <1>2, <1>3, <1>4
<1>6. QED BY <1>2, <1>5 DEF P

(* A worker takes a block from the InsertDestination's pool. *)
LEMMA FlowReuse ==
  ASSUME Sound, Sound', PlaceInv, HandInv', FlowInv, NEW w \in Worker, ReuseBlock(w)
  PROVE  FlowInv'
<1> TypeOK /\ TypeOK' /\ CountingLaws BY DEF Sound
<1> DEFINE p == Head(assigned[w]).op
           e == available[p][Len(available[p])]
           rest == SubSeq(available[p], 1, Len(available[p]) - 1)
<1>1. p \in Op
  BY RunningOrder DEF ReuseBlock, Running
<1>2. available \in [Op -> Seq(Block)] /\ available[p] # << >>
  BY DEF ReuseBlock, TypeOK
<1>3. /\ e \in Block /\ Len(available[p]) \in DOMAIN available[p]
      /\ rest \in Seq(Block) /\ available[p] = Append(rest, e)
  BY SMTT(30), <1>1, <1>2
<1>4. e \in Made(p, created)
  BY <1>1, <1>3 DEF PlaceInv, ListInv
<1>5. e.from = p
  BY <1>4, MadeFrom
<1>6. /\ held[w] = NoBlock /\ held' = [held EXCEPT ![w] = e]
      /\ UNCHANGED <<assigned, returned, fed, created, rebuildWorkOrders, inbox>>
      /\ available' = [available EXCEPT ![p] = rest]
  BY <1>1, <1>2 DEF ReuseBlock, opState
<1>7. held'[w] = e /\ \A v \in Worker \ {w} : held'[v] = held[v]
  BY <1>6 DEF TypeOK
<1> HIDE DEF e, rest, p
<1> SUFFICES ASSUME NEW o \in Op, NEW b \in Block, b.from = o
             PROVE  IsFiniteSet(Places(Hands', Pending(b))) /\ Waiting(o, b)' = Waiting(o, b)
  BY <1>6, FlowSame
<1>8. /\ b.from \in Op /\ b # NoBlock
      /\ IsFiniteSet(Places(Hands, Pending(b))) /\ Total(Hands, Pending(b)) \in Nat
      /\ Count(available[o], {b}) \in Nat /\ Count(rebuildWorkOrders[o], {b}) \in Nat
      /\ Count(inbox, Streams(b)) \in Nat
  BY FlowTypes
<1>9. /\ IsFiniteSet(Places(Hands', Pending(b))) /\ Total(Hands', Pending(b)) \in Nat
      /\ Total(Hands', Pending(b)) + One(held[w], {b}) = Total(Hands, Pending(b)) + One(e, {b})
  BY <1>6, <1>7, <1>8, HandFilled DEF PlaceInv
<1>10. One(held[w], {b}) = 0 /\ One(e, {b}) \in Nat
  BY <1>6, <1>8 DEF One
<1>11. /\ Count(available[o], {b}) = Count(available'[o], {b}) + One(e, {b})
       /\ Count(available'[o], {b}) \in Nat
  <2>1. CASE o = p
    <3>1. available'[o] = rest /\ available[o] = Append(rest, e)
      BY <1>1, <1>2, <1>3, <1>6, <2>1
    <3>2. Count(Append(rest, e), {b}) = Count(rest, {b}) + One(e, {b}) /\ Count(rest, {b}) \in Nat
      <4>1. Count(Append(rest, e), {b}) = Count(rest, {b}) + One(e, {b})
        BY <1>3 DEF CountingLaws, AppendCounts
      <4>2. Count(rest, {b}) \in Nat
        BY <1>3 DEF CountingLaws, CountTypes
      <4>3. QED BY <4>1, <4>2
    <3>3. QED BY <3>1, <3>2
  <2>2. CASE o # p
    <3>1. available'[o] = available[o] /\ One(e, {b}) = 0
      BY <1>2, <1>5, <1>6, <2>2 DEF One
    <3>2. QED BY SMTT(30), <1>8, <3>1
  <2>3. QED BY <2>1, <2>2
<1>12. Waiting(o, b)' = Count(available'[o], {b}) + Count(rebuildWorkOrders[o], {b})
         + Total(Hands', Pending(b)) + Count(inbox, Streams(b))
  BY <1>6 DEF Waiting
<1>13. Waiting(o, b)' = Waiting(o, b)
  BY ONLY SMTT(30), <1>8, <1>9, <1>10, <1>11, <1>12 DEF Waiting
<1>14. QED BY <1>9, <1>13

(* A worker returns a block that is not full to the pool. *)
LEMMA FlowPartial ==
  ASSUME Sound, Sound', PlaceInv, HandInv', FlowInv, NEW w \in Worker, ReturnPartialBlock(w)
  PROVE  FlowInv'
<1> TypeOK /\ TypeOK' /\ CountingLaws BY DEF Sound
<1> DEFINE p == Head(assigned[w]).op
           e == held[w]
<1>0. assigned[w] # << >> /\ ~Head(assigned[w]).rebuild /\ e # NoBlock
  BY DEF ReturnPartialBlock, Running
<1>1. p \in Op
  BY <1>0, RunningOrder
<1>2. available \in [Op -> Seq(Block)] /\ e \in Block
  BY DEF TypeOK
<1>3. e \in Made(p, created) /\ ~returned[w]
  BY <1>0 DEF PlaceInv, HandInv, HandOf
<1>4. e.from = p
  BY <1>3, MadeFrom
<1>5. /\ UNCHANGED <<assigned, fed, created, rebuildWorkOrders, inbox>>
      /\ available' = [available EXCEPT ![p] = Append(@, e)]
      /\ held' = [held EXCEPT ![w] = NoBlock] /\ returned' = [returned EXCEPT ![w] = TRUE]
  BY DEF ReturnPartialBlock, opState
<1>6. /\ held'[w] = NoBlock /\ returned'[w]
      /\ \A v \in Worker \ {w} :
           assigned'[v] = assigned[v] /\ held'[v] = held[v] /\ returned'[v] = returned[v]
  BY <1>5 DEF TypeOK
<1> SUFFICES ASSUME NEW o \in Op, NEW b \in Block, b.from = o
             PROVE  IsFiniteSet(Places(Hands', Pending(b))) /\ Waiting(o, b)' = Waiting(o, b)
  BY <1>5, FlowSame
<1>7. /\ b.from \in Op /\ b # NoBlock
      /\ IsFiniteSet(Places(Hands, Pending(b))) /\ Total(Hands, Pending(b)) \in Nat
      /\ Count(available[o], {b}) \in Nat /\ Count(rebuildWorkOrders[o], {b}) \in Nat
      /\ Count(inbox, Streams(b)) \in Nat
  BY FlowTypes
<1> DEFINE P == Pending(b)
<1>8. One(Head(assigned'[w]), P) = 0 /\ One(held'[w], {b}) = 0 /\ One(e, {b}) \in Nat
  BY <1>0, <1>5, <1>6, <1>7 DEF One, Pending
<1> HIDE DEF P, p, e
<1>9. /\ IsFiniteSet(Places(Hands', P))
      /\ Total(Hands, P) \in Nat /\ Total(Hands', P) \in Nat /\ Count(assigned[w], P) \in Nat
      /\ Total(Hands', P) + One(e, {b}) + Count(assigned[w], P)
           + (IF returned'[w] THEN One(Head(assigned'[w]), P) ELSE 0)
         = Total(Hands, P) + One(held'[w], {b}) + Count(assigned'[w], P)
           + (IF returned[w] THEN One(Head(assigned[w]), P) ELSE 0)
  BY <1>6, <1>7, HandsChanged DEF P, e, PlaceInv
<1>10. Count(assigned'[w], P) = Count(assigned[w], P)
  BY <1>5
<1>11. Total(Hands', P) + One(e, {b}) = Total(Hands, P)
  BY ONLY SMTT(30), <1>3, <1>6, <1>8, <1>9, <1>10
<1>12. Count(available'[o], {b}) = Count(available[o], {b}) + One(e, {b})
  <2>1. CASE o = p
    <3>1. available'[o] = Append(available[o], e) /\ available[o] \in Seq(Block)
      BY <1>1, <1>2, <1>5, <2>1
    <3>2. QED BY ONLY Zenon, <1>2, <3>1, CountingLaws DEF CountingLaws, AppendCounts
  <2>2. CASE o # p
    <3>1. available'[o] = available[o] /\ One(e, {b}) = 0
      BY <1>2, <1>4, <1>5, <2>2 DEF One
    <3>2. QED BY SMTT(30), <1>7, <3>1
  <2>3. QED BY <2>1, <2>2
<1>13. Waiting(o, b)' = Count(available'[o], {b}) + Count(rebuildWorkOrders[o], {b})
         + Total(Hands', P) + Count(inbox, Streams(b))
  BY <1>5 DEF Waiting, P
<1>14. Waiting(o, b) = Count(available[o], {b}) + Count(rebuildWorkOrders[o], {b})
         + Total(Hands, P) + Count(inbox, Streams(b))
  BY DEF Waiting, P
<1>15. Waiting(o, b)' = Waiting(o, b)
  BY ONLY SMTT(30), <1>7, <1>8, <1>9, <1>11, <1>12, <1>13, <1>14
<1>16. QED BY <1>9, <1>15 DEF P

(* A worker streams a full block and has it no longer. *)
LEMMA FlowFull ==
  ASSUME Sound, Sound', PlaceInv, HandInv', FlowInv, NEW w \in Worker, ReturnFullBlock(w)
  PROVE  FlowInv'
<1> TypeOK /\ TypeOK' /\ CountingLaws BY DEF Sound
<1> DEFINE e == held[w]
           m == [type |-> "DataPipeline", op |-> Head(assigned[w]).op, block |-> e]
<1>0. assigned[w] # << >>
  BY DEF ReturnFullBlock, Running
<1>1. Head(assigned[w]).op \in Op /\ e \in Block
  BY <1>0, RunningOrder DEF TypeOK
<1>2. m \in Message /\ \A b : m \in Streams(b) <=> e = b
  BY <1>1 DEF Message, Streams
<1>3. /\ UNCHANGED <<assigned, returned, fed, created, rebuildWorkOrders, available>>
      /\ Send("DataPipeline", Head(assigned[w]).op, e)
      /\ held'[w] = NoBlock /\ \A v \in Worker \ {w} : held'[v] = held[v]
  BY DEF ReturnFullBlock, opState, rebuilds, TypeOK
<1> SUFFICES ASSUME NEW o \in Op, NEW b \in Block, b.from = o
             PROVE  IsFiniteSet(Places(Hands', Pending(b))) /\ Waiting(o, b)' = Waiting(o, b)
  BY <1>3, FlowSame
<1>4. /\ b.from \in Op /\ b # NoBlock
      /\ IsFiniteSet(Places(Hands, Pending(b))) /\ Total(Hands, Pending(b)) \in Nat
      /\ Count(available[o], {b}) \in Nat /\ Count(rebuildWorkOrders[o], {b}) \in Nat
      /\ Count(inbox, Streams(b)) \in Nat
  BY FlowTypes
<1>5. Count(inbox', Streams(b)) = Count(inbox, Streams(b)) + One(m, Streams(b))
  BY SMTT(30), <1>2, <1>3, SentCount
<1>6. One(m, Streams(b)) = One(e, {b}) /\ One(e, {b}) \in Nat /\ One(held'[w], {b}) = 0
  BY <1>2, <1>3, <1>4 DEF One
<1> HIDE DEF m
<1>7. /\ IsFiniteSet(Places(Hands', Pending(b))) /\ Total(Hands', Pending(b)) \in Nat
      /\ Total(Hands', Pending(b)) + One(e, {b}) = Total(Hands, Pending(b)) + One(held'[w], {b})
  BY <1>3, <1>4, HandFilled DEF PlaceInv
<1> HIDE DEF e
<1>8. Waiting(o, b)' = Count(available[o], {b}) + Count(rebuildWorkOrders[o], {b})
         + Total(Hands', Pending(b)) + Count(inbox', Streams(b))
  BY <1>3 DEF Waiting
<1>9. Waiting(o, b)' = Waiting(o, b)
  BY ONLY SMTT(30), <1>4, <1>5, <1>6, <1>7, <1>8 DEF Waiting
<1>10. QED BY <1>7, <1>9

(* A worker streams the block that it has rebuilt. *)
LEMMA FlowRebuild ==
  ASSUME Sound, Sound', PlaceInv, HandInv', FlowInv, NEW w \in Worker, RebuildBlock(w)
  PROVE  FlowInv'
<1> TypeOK /\ TypeOK' /\ CountingLaws BY DEF Sound
<1> DEFINE x == Head(assigned[w])
           m == [type |-> "DataPipeline", op |-> x.op, block |-> x.block]
<1>0. assigned[w] # << >> /\ x.rebuild /\ ~returned[w]
  BY DEF RebuildBlock, Running
<1>1. x \in WorkOrder /\ x.op \in Op /\ x.block \in Block
  BY <1>0, RunningOrder
<1>2. m \in Message /\ \A b : m \in Streams(b) <=> x.block = b
  BY <1>1 DEF Message, Streams
<1>3. \A b : x \in Pending(b) <=> x.block = b
  BY <1>0, <1>1 DEF Pending
<1>4. /\ UNCHANGED <<assigned, held, fed, created, rebuildWorkOrders, available>>
      /\ Send("DataPipeline", x.op, x.block)
      /\ returned'[w] /\ \A v \in Worker \ {w} : returned'[v] = returned[v]
  BY DEF RebuildBlock, opState, rebuilds, TypeOK
<1> SUFFICES ASSUME NEW o \in Op, NEW b \in Block, b.from = o
             PROVE  IsFiniteSet(Places(Hands', Pending(b))) /\ Waiting(o, b)' = Waiting(o, b)
  BY <1>4, FlowSame
<1> DEFINE P == Pending(b)
<1>5. /\ b.from \in Op /\ b # NoBlock /\ IsFiniteSet(Places(Hands, P)) /\ Total(Hands, P) \in Nat
      /\ Count(available[o], {b}) \in Nat /\ Count(rebuildWorkOrders[o], {b}) \in Nat
      /\ Count(inbox, Streams(b)) \in Nat
  BY FlowTypes
<1>6. Count(inbox', Streams(b)) = Count(inbox, Streams(b)) + One(m, Streams(b))
  BY SMTT(30), <1>2, <1>4, SentCount
<1>7. One(m, Streams(b)) = One(x, P) /\ One(x, P) \in Nat /\ One(held[w], {b}) \in Nat
  BY <1>2, <1>3 DEF One
<1> HIDE DEF m, P
<1>8. /\ IsFiniteSet(Places(Hands', P))
      /\ Total(Hands, P) \in Nat /\ Total(Hands', P) \in Nat /\ Count(assigned[w], P) \in Nat
      /\ Total(Hands', P) + One(held[w], {b}) + Count(assigned[w], P)
           + (IF returned'[w] THEN One(Head(assigned'[w]), P) ELSE 0)
         = Total(Hands, P) + One(held'[w], {b}) + Count(assigned'[w], P)
           + (IF returned[w] THEN One(Head(assigned[w]), P) ELSE 0)
  BY <1>4, <1>5, HandsChanged DEF P, PlaceInv
<1>9. /\ Count(assigned'[w], P) = Count(assigned[w], P) /\ held'[w] = held[w]
      /\ Head(assigned'[w]) = x
  BY <1>4
<1> HIDE DEF x
<1>a. ~returned[w] /\ returned'[w]
  BY <1>0, <1>4
<1>b. (IF returned'[w] THEN One(Head(assigned'[w]), P) ELSE 0) = One(x, P)
      /\ (IF returned[w] THEN One(Head(assigned[w]), P) ELSE 0) = 0
      /\ One(held'[w], {b}) = One(held[w], {b})
  BY <1>9, <1>a
<1>10. Total(Hands', P) + One(x, P) = Total(Hands, P)
  BY ONLY SMTT(30), <1>7, <1>8, <1>9, <1>b
<1>11. Waiting(o, b)' = Count(available[o], {b}) + Count(rebuildWorkOrders[o], {b})
         + Total(Hands', P) + Count(inbox', Streams(b))
  BY <1>4 DEF Waiting, P
<1>12. Waiting(o, b) = Count(available[o], {b}) + Count(rebuildWorkOrders[o], {b})
         + Total(Hands, P) + Count(inbox, Streams(b))
  BY DEF Waiting, P
<1>13. Waiting(o, b)' = Waiting(o, b)
  <2>1. PICK i, j, k, l, n, h \in Nat :
             /\ i = Count(available[o], {b}) /\ j = Count(rebuildWorkOrders[o], {b})
             /\ k = Total(Hands, P) /\ h = Total(Hands', P)
             /\ l = Count(inbox, Streams(b)) /\ n = One(x, P)
    BY <1>5, <1>7, <1>8
  <2>2. Waiting(o, b)' = i + j + h + (l + n) /\ Waiting(o, b) = i + j + k + l /\ h + n = k
    BY ONLY Zenon, <1>6, <1>7, <1>10, <1>11, <1>12, <2>1
  <2>3. i + j + h + (l + n) = i + j + (h + n) + l
    BY ONLY SMTT(30), i \in Nat, j \in Nat, h \in Nat, l \in Nat, n \in Nat
  <2>4. QED BY ONLY Zenon, <2>2, <2>3
<1>14. QED BY <1>8, <1>13 DEF P

(* A worker reports the end of a work order, with no block. *)
LEMMA FlowComplete ==
  ASSUME Sound, Sound', PlaceInv, HandInv', FlowInv, NEW w \in Worker, SendWorkOrderComplete(w)
  PROVE  FlowInv'
<1> TypeOK /\ TypeOK' /\ CountingLaws BY DEF Sound
<1> DEFINE x == Head(assigned[w])
           t == IF x.rebuild THEN "RebuildComplete" ELSE "Complete"
           m == [type |-> t, op |-> x.op, block |-> NoBlock]
<1>0. assigned[w] # << >> /\ (x.rebuild => returned[w])
  BY DEF SendWorkOrderComplete, Running
<1>1. x \in WorkOrder /\ x.op \in Op /\ NoBlock \in Block
  BY <1>0, RunningOrder DEF NoBlock, Block
<1>2. m \in Message /\ \A b : m \notin Streams(b)
  BY <1>1 DEF Message, Streams
<1>3. /\ UNCHANGED <<held, fed, created, rebuildWorkOrders, available>>
      /\ Send(t, x.op, NoBlock)
      /\ assigned'[w] = Tail(assigned[w]) /\ ~returned'[w] /\ assigned[w] \in Seq(WorkOrder)
      /\ \A v \in Worker \ {w} : assigned'[v] = assigned[v] /\ returned'[v] = returned[v]
  BY DEF SendWorkOrderComplete, opState, rebuilds, TypeOK
<1> SUFFICES ASSUME NEW o \in Op, NEW b \in Block, b.from = o
             PROVE  IsFiniteSet(Places(Hands', Pending(b))) /\ Waiting(o, b)' = Waiting(o, b)
  BY <1>3, FlowSame
<1> DEFINE P == Pending(b)
<1>4. /\ b.from \in Op /\ IsFiniteSet(Places(Hands, P)) /\ Total(Hands, P) \in Nat
      /\ Count(inbox, Streams(b)) \in Nat
  BY FlowTypes
<1>5. Count(inbox', Streams(b)) = Count(inbox, Streams(b)) + One(m, Streams(b))
  <2> HIDE DEF t, x
  <2>1. [type |-> t, op |-> x.op, block |-> NoBlock] \in Message /\ Send(t, x.op, NoBlock)
    BY <1>2, <1>3
  <2>2. QED BY <2>1, SentCount
<1>6. One(m, Streams(b)) = 0 /\ One(x, P) \in Nat /\ One(held[w], {b}) \in Nat
  BY <1>2 DEF One
<1>7. ~x.rebuild => One(x, P) = 0
  BY DEF One, Pending
<1>8. Count(inbox', Streams(b)) = Count(inbox, Streams(b))
  <2>1. PICK n \in Nat : n = Count(inbox, Streams(b))
    BY <1>4
  <2>2. Count(inbox', Streams(b)) = n + 0
    BY ONLY Zenon, <1>5, <1>6, <2>1
  <2>3. n + 0 = n
    BY ONLY SMTT(30), n \in Nat
  <2>4. QED BY ONLY Zenon, <2>1, <2>2, <2>3
<1> HIDE DEF m, P
<1>9. Count(assigned[w], P) = Count(assigned'[w], P) + One(x, P)
  BY <1>0, <1>3 DEF CountingLaws, TailCounts
<1>10. /\ IsFiniteSet(Places(Hands', P))
       /\ Total(Hands, P) \in Nat /\ Total(Hands', P) \in Nat
       /\ Count(assigned[w], P) \in Nat /\ Count(assigned'[w], P) \in Nat
       /\ Total(Hands', P) + One(held[w], {b}) + Count(assigned[w], P)
            + (IF returned'[w] THEN One(Head(assigned'[w]), P) ELSE 0)
          = Total(Hands, P) + One(held'[w], {b}) + Count(assigned'[w], P)
            + (IF returned[w] THEN One(Head(assigned[w]), P) ELSE 0)
  BY <1>3, <1>4, HandsChanged DEF P, PlaceInv
<1>11. /\ (IF returned'[w] THEN One(Head(assigned'[w]), P) ELSE 0) = 0
       /\ (IF returned[w] THEN One(Head(assigned[w]), P) ELSE 0) = One(x, P)
       /\ One(held'[w], {b}) = One(held[w], {b})
  BY <1>0, <1>3, <1>7
<1>12. PICK r, s : /\ r = (IF returned'[w] THEN One(Head(assigned'[w]), P) ELSE 0)
                   /\ s = (IF returned[w] THEN One(Head(assigned[w]), P) ELSE 0)
  OBVIOUS
<1>13. /\ Total(Hands, P) \in Nat /\ Total(Hands', P) \in Nat
       /\ Count(assigned[w], P) \in Nat /\ Count(assigned'[w], P) \in Nat
       /\ Total(Hands', P) + One(held[w], {b}) + Count(assigned[w], P) + r
          = Total(Hands, P) + One(held'[w], {b}) + Count(assigned'[w], P) + s
  BY <1>10, <1>12
<1>14. r = 0 /\ s = One(x, P) /\ One(held'[w], {b}) = One(held[w], {b})
  BY <1>11, <1>12
<1> HIDE DEF x
<1>15. Total(Hands', P) = Total(Hands, P)
  <2>1. PICK n, k, i, j, h, z \in Nat :
             /\ n = Total(Hands, P) /\ k = Total(Hands', P) /\ h = One(held[w], {b})
             /\ i = Count(assigned[w], P) /\ j = Count(assigned'[w], P) /\ z = One(x, P)
    BY <1>6, <1>13
  <2>2. k + h + i + 0 = n + h + j + z /\ i = j + z
    BY ONLY Zenon, <1>9, <1>13, <1>14, <2>1
  <2>3. k = n
    BY ONLY SMTT(30), <2>2, k \in Nat, n \in Nat, h \in Nat, i \in Nat, j \in Nat, z \in Nat
  <2>4. QED BY <2>1, <2>3
<1>16. QED BY <1>3, <1>8, <1>10, <1>15 DEF Waiting, P

(* A worker creates a block, which is then in its hand. *)
LEMMA FlowCreate ==
  ASSUME Sound, Sound', PlaceInv, HandInv', FlowInv, NEW w \in Worker, CreateNewBlock(w)
  PROVE  FlowInv'
<1> TypeOK /\ TypeOK' /\ CountingLaws BY DEF Sound
<1> DEFINE p == Head(assigned[w]).op
           e == [from |-> p, id |-> created[p] + 1]
           m == [type |-> "NewBlock", op |-> p, block |-> e]
<1>1. p \in Op
  BY RunningOrder DEF CreateNewBlock, Running
<1>2. /\ created \in [Op -> Nat] /\ created' = [created EXCEPT ![p] = @ + 1]
      /\ held[w] = NoBlock /\ held'[w] = e /\ \A v \in Worker \ {w} : held'[v] = held[v]
      /\ Send("NewBlock", p, e)
      /\ UNCHANGED <<assigned, returned, fed, rebuildWorkOrders, available>>
  BY DEF CreateNewBlock, TypeOK, opState, rebuilds
<1>3. e \in Block /\ m \in Message /\ e.from = p
  <2>1. PICK n \in Nat : n = created[p]
    BY <1>1, <1>2
  <2>2. n + 1 \in Nat
    BY ONLY SMTT(30), n \in Nat
  <2>3. e \in Block
    BY <1>1, <2>1, <2>2 DEF Block
  <2>4. m \in Message
    BY ONLY SMTT(30), <1>1, <2>3 DEF Message, m
  <2>5. QED BY <2>3, <2>4
<1>4. \A b : m \notin Streams(b)
  BY DEF Streams
<1>5. created[p] \in Nat /\ created'[p] = created[p] + 1
  BY <1>1, <1>2
<1>6. e \notin Made(p, created) /\ Made(p, created') = Made(p, created) \cup {e}
  <2>1. e \notin Made(p, created)
    <3>1. SUFFICES ASSUME NEW i \in 1 .. created[p], e = [from |-> p, id |-> i] PROVE FALSE
      BY DEF Made
    <3>2. created[p] + 1 = i
      BY <3>1
    <3>3. QED BY SMTT(30), <1>5, <3>2
  <2>2. \A n \in Nat : 1 .. n + 1 = (1 .. n) \cup {n + 1}
    BY SMTT(30)
  <2>3. 1 .. created'[p] = (1 .. created[p]) \cup {created[p] + 1}
    BY <1>5, <2>2
  <2>4. QED BY <2>1, <2>3 DEF Made
<1> HIDE DEF e, p
<1> SUFFICES ASSUME NEW o \in Op, NEW b \in Block, b.from = o PROVE FlowOf(o, b)'
  BY DEF FlowInv
<1>7. /\ b.from \in Op /\ b # NoBlock
      /\ IsFiniteSet(Places(Hands, Pending(b))) /\ Total(Hands, Pending(b)) \in Nat
      /\ Count(available[o], {b}) \in Nat /\ Count(rebuildWorkOrders[o], {b}) \in Nat
      /\ Count(inbox, Streams(b)) \in Nat /\ Waiting(o, b) \in Nat
  BY FlowTypes
<1>8. Count(inbox', Streams(b)) = Count(inbox, Streams(b)) + One(m, Streams(b))
  BY SMTT(30), <1>2, <1>3, SentCount
<1>9. One(m, Streams(b)) = 0 /\ One(e, {b}) \in Nat /\ One(held[w], {b}) = 0
  BY <1>2, <1>4, <1>7 DEF One
<1> HIDE DEF m
<1>10. /\ IsFiniteSet(Places(Hands', Pending(b))) /\ Total(Hands', Pending(b)) \in Nat
       /\ Total(Hands', Pending(b)) + One(held[w], {b}) = Total(Hands, Pending(b)) + One(e, {b})
  BY <1>2, <1>7, HandFilled DEF PlaceInv
<1>11. Waiting(o, b)' = Count(available[o], {b}) + Count(rebuildWorkOrders[o], {b})
         + Total(Hands', Pending(b)) + Count(inbox', Streams(b))
  BY <1>2 DEF Waiting
<1>12. Waiting(o, b)' = Waiting(o, b) + One(e, {b})
  <2> DEFINE i == Count(available[o], {b})
             j == Count(rebuildWorkOrders[o], {b})
             k == Total(Hands, Pending(b))
             l == Count(inbox, Streams(b))
             n == One(e, {b})
             k2 == Total(Hands', Pending(b))
             l2 == Count(inbox', Streams(b))
  <2>1. Waiting(o, b) = i + j + k + l /\ Waiting(o, b)' = i + j + k2 + l2
    BY <1>11 DEF Waiting
  <2>2. /\ i \in Nat /\ j \in Nat /\ k \in Nat /\ l \in Nat /\ n \in Nat /\ k2 \in Nat
        /\ l2 = l + 0 /\ k2 + 0 = k + n
    BY <1>7, <1>8, <1>9, <1>10
  <2> HIDE DEF i, j, k, l, n, k2, l2
  <2>3. i + j + k2 + l2 = i + j + k + l + n
    BY ONLY SMTT(30), <2>2
  <2>4. Waiting(o, b)' = Waiting(o, b) + n
    BY <2>1, <2>3
  <2>5. QED BY <2>4 DEF n
<1>13. One(b, Made(o, created')) = One(b, Made(o, created)) + One(e, {b})
  <2>1. CASE o = p
    BY SMTT(30), <1>6, <2>1 DEF One
  <2>2. CASE o # p
    <3>1. Made(o, created') = Made(o, created)
      BY <1>2, <2>2 DEF Made
    <3>2. One(e, {b}) = 0
      BY <1>3, <2>2 DEF One
    <3>3. QED BY SMTT(30), <3>1, <3>2 DEF One
  <2>3. QED BY <2>1, <2>2
<1>14. ASSUME NEW c \in Op
       PROVE  /\ Waiting(o, b)' + Count(fed'[c], {b}) <= One(b, Made(o, created'))
              /\ Reads(c, o) => Waiting(o, b)' + Count(fed'[c], {b}) = One(b, Made(o, created'))
  <2>1. /\ Waiting(o, b) + Count(fed[c], {b}) <= One(b, Made(o, created))
        /\ Reads(c, o) => Waiting(o, b) + Count(fed[c], {b}) = One(b, Made(o, created))
    BY DEF FlowInv, FlowOf
  <2>2. Count(fed[c], {b}) \in Nat /\ One(b, Made(o, created)) \in Nat /\ fed'[c] = fed[c]
    BY <1>2 DEF CountingLaws, CountTypes, TypeOK, One
  <2> DEFINE i == Waiting(o, b)
             j == Count(fed[c], {b})
             k == One(b, Made(o, created))
             n == One(e, {b})
  <2>3. i \in Nat /\ j \in Nat /\ k \in Nat /\ n \in Nat
    BY <1>7, <1>9, <2>2
  <2>4. i + j <= k /\ (Reads(c, o) => i + j = k)
    BY <2>1
  <2> HIDE DEF i, j, k, n
  <2>5. (i + n) + j <= k + n /\ (i + j = k => (i + n) + j = k + n)
    BY ONLY SMTT(30), <2>3, <2>4
  <2>6. Waiting(o, b)' = i + n /\ Count(fed'[c], {b}) = j /\ One(b, Made(o, created')) = k + n
    BY <1>12, <1>13, <2>2 DEF i, j, k, n
  <2>7. QED BY <2>4, <2>5, <2>6
<1>15. QED BY <1>10, <1>14 DEF FlowOf

(* The foreman feeds a streamed block to the operators that read it. *)
LEMMA FlowStream ==
  ASSUME Sound, PlaceInv, FlowInv, ProcessDataPipeline
  PROVE  FlowInv'
<1> TypeOK /\ CountingLaws BY DEF Sound
<1> DEFINE m == Head(inbox)
<1>1. /\ m \in Message /\ m.op \in Op /\ m.block \in Block /\ m.type = "DataPipeline"
      /\ 1 \in DOMAIN inbox /\ inbox[1] = m
      /\ \A c \in Op : fed'[c] = IF Reads(c, m.op) THEN Append(fed[c], m.block) ELSE fed[c]
  BY FedBlock DEF Reads
<1>2. m.block \in Made(m.op, created)
  BY <1>1 DEF PlaceInv, SentInv, BlockMessage
<1>3. m.block.from = m.op
  BY <1>2, MadeFrom
<1>4. /\ Receive("DataPipeline")
      /\ UNCHANGED <<assigned, held, returned, created, rebuildWorkOrders, available>>
  BY DEF ProcessDataPipeline, workers, rebuilds
<1>5. Hands' = Hands
  BY <1>4 DEF Hands
<1>6. PICK e \in Block, p \in Op : e = m.block /\ p = m.op
  BY <1>1
<1>7. \A b : m \in Streams(b) <=> e = b
  BY <1>1, <1>6 DEF Streams
<1> HIDE DEF m
<1> SUFFICES ASSUME NEW o \in Op, NEW b \in Block, b.from = o PROVE FlowOf(o, b)'
  BY DEF FlowInv
<1>8. /\ IsFiniteSet(Places(Hands, Pending(b))) /\ Total(Hands, Pending(b)) \in Nat
      /\ Count(available[o], {b}) \in Nat /\ Count(rebuildWorkOrders[o], {b}) \in Nat
      /\ Count(inbox, Streams(b)) \in Nat /\ Waiting(o, b) \in Nat
  BY FlowTypes
<1>9. Count(inbox, Streams(b)) = Count(inbox', Streams(b)) + One(m, Streams(b))
      /\ Count(inbox', Streams(b)) \in Nat
  BY <1>4, ReceivedCount DEF m
<1>10. One(m, Streams(b)) = One(e, {b}) /\ One(e, {b}) \in Nat
  BY <1>7 DEF One
<1>11. Waiting(o, b)' = Count(available[o], {b}) + Count(rebuildWorkOrders[o], {b})
         + Total(Hands, Pending(b)) + Count(inbox', Streams(b))
  BY <1>4, <1>5 DEF Waiting
<1>12. Waiting(o, b)' + One(e, {b}) = Waiting(o, b) /\ Waiting(o, b)' \in Nat
  BY ONLY SMTT(30), <1>8, <1>9, <1>10, <1>11 DEF Waiting
<1>13. ASSUME NEW c \in Op
       PROVE  /\ Waiting(o, b)' + Count(fed'[c], {b}) <= One(b, Made(o, created))
              /\ Reads(c, o) => Waiting(o, b)' + Count(fed'[c], {b}) = One(b, Made(o, created))
  <2>1. /\ Waiting(o, b) + Count(fed[c], {b}) <= One(b, Made(o, created))
        /\ Reads(c, o) => Waiting(o, b) + Count(fed[c], {b}) = One(b, Made(o, created))
    BY DEF FlowInv, FlowOf
  <2>2. fed[c] \in Seq(Block) /\ One(b, Made(o, created)) \in Nat
    BY DEF TypeOK, One
  <2>3. Count(fed[c], {b}) \in Nat
    BY <2>2 DEF CountingLaws, CountTypes
  <2>4. Count(fed'[c], {b}) = Count(fed[c], {b}) + (IF Reads(c, p) THEN One(e, {b}) ELSE 0)
    <3>1. CASE Reads(c, p)
      <4>1. fed'[c] = Append(fed[c], e)
        BY <1>1, <1>6, <3>1
      <4>2. Count(Append(fed[c], e), {b}) = Count(fed[c], {b}) + One(e, {b})
        BY ONLY Zenon, <1>6, <2>2, CountingLaws DEF CountingLaws, AppendCounts
      <4>3. QED BY <3>1, <4>1, <4>2
    <3>2. CASE ~Reads(c, p)
      <4>1. fed'[c] = fed[c]
        BY <1>1, <1>6, <3>2
      <4>2. QED BY ONLY SMTT(30), <2>3, <3>2, <4>1
    <3>3. QED BY <3>1, <3>2
  <2>5. PICK u, v, n, f, g, l \in Nat :
             /\ u = Waiting(o, b) /\ v = Waiting(o, b)' /\ n = One(e, {b})
             /\ f = Count(fed[c], {b}) /\ l = One(b, Made(o, created))
             /\ g = IF Reads(c, p) THEN n ELSE 0
    <3>1. \A n \in Nat : (IF Reads(c, p) THEN n ELSE 0) \in Nat
      BY SMTT(30)
    <3>2. QED BY ONLY Zenon, <1>8, <1>10, <1>12, <2>2, <2>3, <3>1
  <2>6. /\ v + n = u /\ u + f <= l /\ (Reads(c, o) => u + f = l)
        /\ Count(fed'[c], {b}) = f + g
    BY ONLY Zenon, <1>12, <2>1, <2>4, <2>5
  <2>7. g <= n /\ (Reads(c, o) => g = n)
    <3>1. CASE o = p
      BY ONLY SMTT(30), <2>5, <3>1, n \in Nat
    <3>2. CASE o # p
      <4>1. n = 0
        BY <1>3, <1>6, <2>5, <3>2 DEF One
      <4>2. QED BY ONLY SMTT(30), <2>5, <4>1
    <3>3. QED BY <3>1, <3>2
  <2>8. v + (f + g) <= l /\ (Reads(c, o) => v + (f + g) = l)
    BY ONLY SMTT(30), <2>6, <2>7, u \in Nat, v \in Nat, n \in Nat, f \in Nat, g \in Nat, l \in Nat
  <2>9. QED BY ONLY Zenon, <2>5, <2>6, <2>8
<1>14. QED BY <1>4, <1>5, <1>8, <1>13 DEF FlowOf

(* Every step keeps each block in one place, until all its readers were fed. *)
LEMMA FlowStep ==
  Sound /\ Sound' /\ PlaceInv /\ PlaceInv' /\ FlowInv /\ [Next]_vars => FlowInv'
<1> SUFFICES ASSUME Sound, Sound', PlaceInv, PlaceInv', FlowInv, [Next]_vars PROVE FlowInv'
  OBVIOUS
<1>0. HandInv /\ HandInv'
  BY DEF PlaceInv
<1>1. ASSUME UNCHANGED <<assigned, held, returned, fed, created, available, rebuildWorkOrders, inbox>>
      PROVE  FlowInv'
  BY <1>1, FlowQuiet
<1>2. ASSUME NEW o \in Op, StartOperator(o) \/ NotifyBlockedDependent(o) PROVE FlowInv'
  BY <1>1, <1>2 DEF StartOperator, NotifyBlockedDependent, Fetch, rebuilds, workers
<1>3. ASSUME NEW o \in Op, NotifyReadyDependent(o) PROVE FlowInv'
  <2>1. UNCHANGED <<assigned, held, returned, fed, created, inbox>>
    BY <1>3 DEF NotifyReadyDependent, Fetch, workers
  <2>2. RebuildOrFinish(o, CallersAfter(o)) \/ UNCHANGED rebuilds
    BY <1>3 DEF NotifyReadyDependent
  <2>3. QED BY <1>1, <2>1, <2>2, FlowRebuildOrFinish DEF rebuilds
<1>4. ASSUME ReturnFromMarkFinished PROVE FlowInv'
  BY <1>1, <1>4 DEF ReturnFromMarkFinished, opState, rebuilds, workers
<1>5. ASSUME ProcessWorkOrderComplete PROVE FlowInv'
  <2>1. Receive("Complete") /\ UNCHANGED <<assigned, held, returned, fed, created>>
    BY <1>5 DEF ProcessWorkOrderComplete, opState, workers
  <2>2. RebuildOrFinish(Head(inbox).op, << >>) \/ UNCHANGED rebuilds
    BY <1>5 DEF ProcessWorkOrderComplete
  <2>3. Head(inbox).op \in Op
    BY <2>1, FirstOperator
  <2>4. \A b \in Block : Count(inbox', Streams(b)) = Count(inbox, Streams(b))
    BY <2>1, OtherStream
  <2>5. QED BY <2>1, <2>2, <2>3, <2>4, FlowRebuildOrFinish, FlowQuiet DEF rebuilds
<1>6. ASSUME ProcessRebuildWorkOrderComplete PROVE FlowInv'
  BY <1>6, OtherStream, FlowQuiet DEF ProcessRebuildWorkOrderComplete, opState, workers
<1>7. ASSUME ProcessNewBlock PROVE FlowInv'
  BY <1>7, OtherStream, FlowQuiet DEF ProcessNewBlock, opState, rebuilds, workers
<1>8. ASSUME ProcessDataPipeline PROVE FlowInv'
  BY <1>8, FlowStream
<1>9. ASSUME NEW o \in Op, NEW w \in Worker, DispatchRebuild(o, w) \/ DispatchNormal(o, w)
      PROVE  FlowInv'
  BY <1>0, <1>9, FlowDispatchRebuild, FlowDispatchNormal
<1>10. ASSUME NEW w \in Worker, WorkerStep(w) PROVE FlowInv'
  BY <1>0, <1>10, FlowReuse, FlowCreate, FlowFull, FlowPartial, FlowRebuild, FlowComplete
  DEF WorkerStep
<1>11. ASSUME UNCHANGED vars PROVE FlowInv'
  BY <1>1, <1>11 DEF vars, opState, rebuilds, workers
<1>12. QED
  BY <1>2, <1>3, <1>4, <1>5, <1>6, <1>7, <1>8, <1>9, <1>10, <1>11
  DEF Next, Foreman, Dispatch, Terminated

-----------------------------------------------------------------------------
(* Every plan. *)

(* The invariant of every plan: the counters of work orders, where blocks are  *)
(* and what has been announced of them.                                        *)
FlowInvariant ==
  /\ Sound /\ SchedulingInvariant /\ QueuedInv /\ PlaceInv /\ CatalogInv
  /\ FollowInv /\ StartInv /\ FlowInv

(* Nothing is counted in queues that are all empty. *)
LEMMA NoPlaces ==
  ASSUME CountingLaws, NEW f, \A w \in DOMAIN f : f[w] = << >>, NEW X
  PROVE  IsFiniteSet(Places(f, X)) /\ Total(f, X) = 0
<1>1. Places(f, X) = {}
  BY SMTT(30) DEF Places
<1>2. QED BY <1>1 DEF CountingLaws, SetSizes, Total

(* Nothing has been scheduled, sent or created when a query begins. *)
LEMMA FlowBegins == Init /\ Sound /\ SchedulingInvariant => FlowInvariant
<1> SUFFICES ASSUME Init, Sound, SchedulingInvariant PROVE FlowInvariant
  OBVIOUS
<1> CountingLaws BY DEF Sound
<1>2. QueuedInv
  <2> SUFFICES ASSUME NEW o \in Op
               PROVE  /\ IsFiniteSet(Places(assigned, NormalOf(o)))
                      /\ queuedWorkOrders[o]
                           = Total(assigned, NormalOf(o)) + Count(inbox, MessagesOf("Complete", o))
    BY DEF QueuedInv
  <2>1. IsFiniteSet(Places(assigned, NormalOf(o))) /\ Total(assigned, NormalOf(o)) = 0
    BY NoPlaces DEF Init
  <2>2. Count(inbox, MessagesOf("Complete", o)) = 0 /\ queuedWorkOrders[o] = 0
    BY DEF CountingLaws, EmptyCounts, Init
  <2>3. QED BY SMTT(30), <2>1, <2>2
<1>3. HandInv
  <2>1. \A w \in Worker : assigned[w] = << >> /\ held[w] = NoBlock /\ ~returned[w]
    BY DEF Init
  <2>2. (\A i : i \notin DOMAIN << >>) /\ Len(<< >>) <= MaxLoad
    BY SMTT(30), PlanAssumption
  <2>3. QED BY <2>1, <2>2 DEF HandInv, HandOf
<1>4. ListInv /\ SentInv /\ FedInv /\ FollowInv
  <2>1. /\ inbox = << >>
        /\ \A o \in Op : available[o] = << >> /\ rebuildWorkOrders[o] = << >> /\ fed[o] = << >>
    BY DEF Init
  <2>2. \A i : i \notin DOMAIN << >>
    BY SMTT(30)
  <2>3. QED BY <2>1, <2>2 DEF ListInv, SentInv, FedInv, FollowInv
<1>5. StartInv
  BY DEF StartInv, Init
<1>6. \A o \in Op : Made(o, created) = {} /\ catalog[o] = {}
  BY SMTT(30) DEF Made, Init
<1>7. CatalogInv
  BY <1>6 DEF CatalogInv
<1>8. FlowInv
  <2> SUFFICES ASSUME NEW o \in Op, NEW b \in Block PROVE FlowOf(o, b)
    BY DEF FlowInv
  <2>1. /\ available[o] = << >> /\ rebuildWorkOrders[o] = << >> /\ inbox = << >>
        /\ \A c \in Op : fed[c] = << >>
        /\ \A w \in Worker : held[w] = NoBlock /\ ~returned[w] /\ assigned[w] = << >>
    BY DEF Init
  <2>2. \A w \in DOMAIN Hands : Hands[w] = << >>
    BY SMTT(30), <2>1 DEF Hands, Hand
  <2>3. IsFiniteSet(Places(Hands, Pending(b))) /\ Total(Hands, Pending(b)) = 0
    BY <2>2, NoPlaces
  <2>4. /\ Count(available[o], {b}) = 0 /\ Count(rebuildWorkOrders[o], {b}) = 0
        /\ Count(inbox, Streams(b)) = 0 /\ \A c \in Op : Count(fed[c], {b}) = 0
    BY <2>1 DEF CountingLaws, EmptyCounts
  <2>5. One(b, Made(o, created)) = 0
    BY <1>6 DEF One
  <2>6. QED BY SMTT(30), <2>3, <2>4, <2>5 DEF FlowOf, Waiting
<1>9. QED BY <1>2, <1>3, <1>4, <1>5, <1>7, <1>8 DEF FlowInvariant, PlaceInv

(* Every step keeps the invariant, given that it keeps its first two parts. *)
LEMMA FlowGoesOn ==
  FlowInvariant /\ [Next]_vars /\ Sound' /\ SchedulingInvariant' => FlowInvariant'
<1> SUFFICES ASSUME FlowInvariant, [Next]_vars, Sound', SchedulingInvariant' PROVE FlowInvariant'
  OBVIOUS
<1>1. QueuedInv' /\ PlaceInv'
  BY QueuedStep, PlaceStep DEF FlowInvariant
<1>2. CatalogInv' /\ FollowInv' /\ StartInv'
  BY CatalogStep, FollowStep, StartStep DEF FlowInvariant
<1>3. FlowInv'
  BY <1>1, FlowStep DEF FlowInvariant
<1>4. QED BY <1>1, <1>2, <1>3 DEF FlowInvariant

(* The counters of the query manager, as the sets of QueuedCounterExact. *)
LEMMA QueuedFollows == FlowInvariant => QueuedCounterExact
<1> SUFFICES ASSUME FlowInvariant, NEW o \in Op PROVE queuedWorkOrders[o] = Outstanding(o)
  BY DEF QueuedCounterExact
<1> TypeOK BY DEF FlowInvariant, Sound
<1>0. /\ assigned \in [Worker -> Seq(WorkOrder)] /\ inbox \in Seq(Message) /\ MaxLoad \in Nat
      /\ \A w \in Worker : Len(assigned[w]) <= MaxLoad
  BY PlanAssumption DEF FlowInvariant, TypeOK, PlaceInv, HandInv, HandOf
<1> DEFINE P == {x \in Worker \X (1 .. MaxLoad) :
                   /\ x[2] \in DOMAIN assigned[x[1]]
                   /\ assigned[x[1]][x[2]].op = o /\ ~assigned[x[1]][x[2]].rebuild}
           M == {i \in DOMAIN inbox : inbox[i].type = "Complete" /\ inbox[i].op = o}
<1>1. ASSUME NEW w \in Worker, NEW i \in DOMAIN assigned[w]
      PROVE  i \in Nat /\ i \in 1 .. MaxLoad /\ assigned[w][i] \in WorkOrder
  <2>1. assigned[w] \in Seq(WorkOrder)
    BY <1>0
  <2>2. QED BY SMTT(30), <1>0, <2>1
<1>2. P = Places(assigned, NormalOf(o))
  <2>1. P \subseteq Places(assigned, NormalOf(o))
    BY <1>0, <1>1 DEF Places, NormalOf
  <2>2. Places(assigned, NormalOf(o)) \subseteq P
    BY <1>0, <1>1 DEF Places, NormalOf
  <2>3. QED BY <2>1, <2>2
<1>3. M = Positions(inbox, MessagesOf("Complete", o))
  BY SMTT(30), <1>0 DEF Positions, MessagesOf
<1>4. QED BY <1>2, <1>3 DEF FlowInvariant, QueuedInv, Outstanding, Total, Count

(* A block that a worker fills is pending in the worker's hand. *)
LEMMA HeldPlace ==
  ASSUME Sound, HandInv, NEW w \in Worker, held[w] # NoBlock
  PROVE  /\ held[w] \in Block /\ held[w].from = Head(assigned[w]).op /\ held[w].from \in Op
         /\ <<w, 1>> \in Places(Hands, Pending(held[w]))
<1> TypeOK /\ CountingLaws BY DEF Sound
<1>1. held[w] \in Block /\ assigned[w] \in Seq(WorkOrder)
  BY DEF TypeOK
<1>2. /\ assigned[w] # << >> /\ ~returned[w]
      /\ held[w] \in Made(Head(assigned[w]).op, created)
  BY DEF HandInv, HandOf
<1>3. held[w].from = Head(assigned[w]).op /\ held[w].from \in Op
  BY <1>2, RunningOrder, MadeFrom
<1>4. AsOrder(held[w]) \in Pending(held[w])
  BY SMTT(30), <1>1, PlanAssumption DEF AsOrder, Pending, WorkOrder, Op
<1>5. Hands[w] = <<AsOrder(held[w])>> \o assigned[w] /\ DOMAIN Hands = Worker
  BY <1>2 DEF Hands, Hand
<1>6. 1 \in DOMAIN Hands[w] /\ Hands[w][1] = AsOrder(held[w])
  BY SMTT(30), <1>1, <1>5
<1>7. QED BY <1>1, <1>3, <1>4, <1>5, <1>6 DEF Places

(* A block that has been streamed waits nowhere else. *)
LEMMA StreamedIsNotWaiting ==
  ASSUME FlowInvariant, NEW o \in Op, NEW b \in Block, b.from = o, Streamed(b)
  PROVE  /\ Total(Hands, Pending(b)) = 0
         /\ \A i \in DOMAIN available[o] : available[o][i] # b
         /\ \A i \in DOMAIN rebuildWorkOrders[o] : rebuildWorkOrders[o][i] # b
<1> Sound /\ TypeOK /\ CountingLaws BY DEF FlowInvariant, Sound
<1>0. /\ FlowInv
      /\ inbox \in Seq(Message) /\ available[o] \in Seq(Block) /\ rebuildWorkOrders[o] \in Seq(Block)
      /\ \A c \in Op : fed[c] \in Seq(Block)
  BY DEF FlowInvariant, TypeOK
<1>1. /\ Count(available[o], {b}) \in Nat /\ Count(rebuildWorkOrders[o], {b}) \in Nat
      /\ Total(Hands, Pending(b)) \in Nat /\ Count(inbox, Streams(b)) \in Nat
  BY <1>0, FlowTypes
<1>2. PICK c \in Op : Count(inbox, Streams(b)) # 0 \/ Count(fed[c], {b}) # 0
  <2>1. CASE \E i \in DOMAIN inbox : inbox[i].type = "DataPipeline" /\ inbox[i].block = b
    <3>1. \E i \in DOMAIN inbox : inbox[i] \in Streams(b)
      BY SMTT(30), <1>0, <2>1 DEF Streams
    <3>2. QED BY <1>0, <3>1 DEF CountingLaws, CountTypes
  <2>2. CASE \E c \in Op : b \in RangeOf(fed[c])
    <3>1. PICK c \in Op : \E i \in DOMAIN fed[c] : fed[c][i] \in {b}
      BY <2>2 DEF RangeOf
    <3>2. fed[c] \in Seq(Block)
      BY <1>0
    <3>3. QED BY <3>1, <3>2 DEF CountingLaws, CountTypes
  <2>3. QED BY <2>1, <2>2 DEF Streamed
<1>3. Count(fed[c], {b}) \in Nat
  BY <1>0 DEF CountingLaws, CountTypes
<1>4. Waiting(o, b) + Count(fed[c], {b}) <= One(b, Made(o, created))
  BY <1>0 DEF FlowInv, FlowOf
<1>5. One(b, Made(o, created)) \in {0, 1}
  BY DEF One
<1>6. /\ Count(available[o], {b}) = 0 /\ Count(rebuildWorkOrders[o], {b}) = 0
      /\ Total(Hands, Pending(b)) = 0
  <2>1. PICK i, j, k, l, m \in Nat :
             /\ i = Count(available[o], {b}) /\ j = Count(rebuildWorkOrders[o], {b})
             /\ k = Total(Hands, Pending(b)) /\ l = Count(inbox, Streams(b))
             /\ m = Count(fed[c], {b})
    BY <1>1, <1>3
  <2>2. i + j + k + l + m <= 1 /\ (l # 0 \/ m # 0)
    BY SMTT(30), <1>2, <1>4, <1>5, <2>1 DEF Waiting
  <2>3. i = 0 /\ j = 0 /\ k = 0
    BY ONLY SMTT(30), <2>2, i \in Nat, j \in Nat, k \in Nat, l \in Nat, m \in Nat
  <2>4. QED BY <2>1, <2>3
<1>7. \A s \in Seq(Block) : Count(s, {b}) = 0 => \A i \in DOMAIN s : s[i] # b
  <2>1. \A s \in Seq(Block) : Count(s, {b}) = 0 => \A i \in DOMAIN s : s[i] \notin {b}
    BY DEF CountingLaws, CountTypes
  <2>2. QED BY <2>1
<1>8. QED BY <1>0, <1>6, <1>7

(* Two workers that hold a block, or a holder and a reader, are two places. *)
LEMMA OneWriterFollows == FlowInvariant => OneWriterPerBlock
<1> SUFFICES ASSUME FlowInvariant PROVE OneWriterPerBlock
  OBVIOUS
<1> Sound /\ TypeOK /\ CountingLaws BY DEF FlowInvariant, Sound
<1>0. HandInv /\ ListInv /\ FlowInv
  BY DEF FlowInvariant, PlaceInv
<1>1. ASSUME NEW w \in Worker, NEW v \in Worker, held[w] = held[v], held[w] # NoBlock, w # v
      PROVE  FALSE
  <2> DEFINE b == held[w]
             P == Places(Hands, Pending(b))
             two == {<<w, 1>>, <<v, 1>>}
  <2>1. b \in Block /\ b.from \in Op /\ <<w, 1>> \in P /\ <<v, 1>> \in P
    BY <1>0, <1>1, HeldPlace
  <2> HIDE DEF b
  <2>2. /\ IsFiniteSet(P) /\ Count(available[b.from], {b}) \in Nat
        /\ Count(rebuildWorkOrders[b.from], {b}) \in Nat
        /\ Total(Hands, Pending(b)) \in Nat /\ Count(inbox, Streams(b)) \in Nat
    BY <1>0, <2>1, FlowTypes
  <2>3. Cardinality(two) <= Cardinality(P)
    BY <2>1, <2>2 DEF CountingLaws, PartSizes
  <2>4. IsFiniteSet({<<w, 1>>}) /\ Cardinality({<<w, 1>>}) = 1 /\ <<v, 1>> \notin {<<w, 1>>}
    BY <1>1 DEF CountingLaws, SetSizes
  <2>5. two = {<<w, 1>>} \cup {<<v, 1>>}
    OBVIOUS
  <2>6. Cardinality({<<w, 1>>} \cup {<<v, 1>>}) = Cardinality({<<w, 1>>}) + 1
    <3>1. PICK e, f : e = <<w, 1>> /\ f = <<v, 1>>
      OBVIOUS
    <3>2. QED BY ONLY Zenon, <2>4, <3>1, CountingLaws DEF CountingLaws, AddedSizes
  <2>7. Total(Hands, Pending(b)) >= 2
    BY SMTT(30), <2>2, <2>3, <2>4, <2>5, <2>6 DEF Total
  <2>8. /\ Waiting(b.from, b) + Count(fed[b.from], {b}) <= One(b, Made(b.from, created))
        /\ Count(fed[b.from], {b}) \in Nat /\ One(b, Made(b.from, created)) \in {0, 1}
    <3>1. fed[b.from] \in Seq(Block)
      BY <1>0, <2>1 DEF TypeOK
    <3>2. Count(fed[b.from], {b}) \in Nat
      BY <3>1 DEF CountingLaws, CountTypes
    <3>3. QED BY <1>0, <2>1, <3>2 DEF FlowInv, FlowOf, One
  <2>9. QED BY ONLY SMTT(30), <2>2, <2>7, <2>8 DEF Waiting
<1>2. ASSUME NEW w \in Worker, held[w] # NoBlock PROVE ~Streamed(held[w])
  <2>1. /\ held[w] \in Block /\ held[w].from \in Op
        /\ <<w, 1>> \in Places(Hands, Pending(held[w]))
    BY <1>0, <1>2, HeldPlace
  <2>2. IsFiniteSet(Places(Hands, Pending(held[w])))
    BY <1>0, <2>1, FlowTypes
  <2>3. Total(Hands, Pending(held[w])) # 0
    BY <2>1, <2>2 DEF CountingLaws, SetSizes, Total
  <2>4. QED BY <2>1, <2>3, StreamedIsNotWaiting
<1>3. ASSUME NEW w \in Worker, held[w] # NoBlock, NEW o \in Op
      PROVE  held[w] \notin RangeOf(available[o])
  <2> SUFFICES ASSUME NEW i \in DOMAIN available[o], available[o][i] = held[w] PROVE FALSE
    BY DEF RangeOf
  <2> DEFINE b == held[w]
  <2>1. /\ b \in Block /\ b.from \in Op /\ <<w, 1>> \in Places(Hands, Pending(b))
    BY <1>0, <1>3, HeldPlace
  <2>2. b \in Made(o, created)
    BY <1>0 DEF ListInv
  <2>3. b.from = o
    BY <2>2, MadeFrom
  <2>4. /\ IsFiniteSet(Places(Hands, Pending(b))) /\ Count(available[o], {b}) \in Nat
        /\ Count(rebuildWorkOrders[o], {b}) \in Nat
        /\ Total(Hands, Pending(b)) \in Nat /\ Count(inbox, Streams(b)) \in Nat
    BY <1>0, <2>1, <2>3, FlowTypes
  <2>5. Total(Hands, Pending(b)) # 0
    BY <2>1, <2>4 DEF CountingLaws, SetSizes, Total
  <2>6. available[o] \in Seq(Block) /\ fed[o] \in Seq(Block)
    BY <1>0 DEF TypeOK
  <2>7. Count(available[o], {b}) # 0 /\ Count(fed[o], {b}) \in Nat
    <3>1. Count(fed[o], {b}) \in Nat
      BY <2>6 DEF CountingLaws, CountTypes
    <3>2. available[o][i] \in {b}
      OBVIOUS
    <3>3. QED BY <2>6, <3>1, <3>2 DEF CountingLaws, CountTypes
  <2>8. Waiting(o, b) + Count(fed[o], {b}) <= One(b, Made(o, created))
        /\ One(b, Made(o, created)) \in {0, 1}
    BY <1>0, <2>1, <2>3 DEF FlowInv, FlowOf, One
  <2> HIDE DEF b
  <2>9. QED BY ONLY SMTT(30), <2>4, <2>5, <2>7, <2>8 DEF Waiting
<1>4. ASSUME NEW o \in Op, NEW b \in RangeOf(available[o]) \cup RangeOf(rebuildWorkOrders[o])
      PROVE  ~Streamed(b)
  <2>1. /\ b \in Made(o, created)
        /\ \/ \E i \in DOMAIN available[o] : available[o][i] = b
           \/ \E i \in DOMAIN rebuildWorkOrders[o] : rebuildWorkOrders[o][i] = b
    BY <1>0 DEF ListInv, RangeOf
  <2>2. b.from = o
    BY <2>1, MadeFrom
  <2>3. b \in Block
    BY SMTT(30), <1>0, <2>1 DEF TypeOK
  <2>4. QED BY <2>1, <2>2, <2>3, StreamedIsNotWaiting
<1>5. QED BY <1>1, <1>2, <1>3, <1>4 DEF OneWriterPerBlock
=============================================================================
