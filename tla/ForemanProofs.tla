--------------------------- MODULE ForemanProofs ----------------------------
(***************************************************************************)
(* Theorems about Foreman, for any queries, batches, number of workers and *)
(* flags. The load of a worker, the outstanding work orders of a query and *)
(* the batch the main thread waits for are related to the messages that    *)
(* are on their way between the threads.                                   *)
(***************************************************************************)
EXTENDS Foreman, SequenceCounts, WellFoundedInduction

USE ZenonT(60)

WorkerMessage ==
    [type : {"NewBlock", "DataPipeline", "Complete"}, query : Query, worker : Worker]
CompleteOf(q) == {m \in WorkerMessage : m.type = "Complete" /\ m.query = q}
CompleteBy(w) == {m \in WorkerMessage : m.type = "Complete" /\ m.worker = w}

-----------------------------------------------------------------------------
(***************************************************************************)
(* The inductive invariant.                                                *)
(***************************************************************************)
\* The load of a worker is what it has to do and what it has reported.
LoadInv ==
    \A w \in Worker : load[w] = Count(queue[w], Query) + Count(inbox, CompleteBy(w))

\* An outstanding work order is about to be dispatched, at a worker, or reported.
OutstandingInv ==
    \A q \in Query :
        /\ IsFiniteSet(Places(queue, {q}))
        /\ outstanding[q]
             = newMessages[q] + Count(inbox, CompleteOf(q)) + Total(queue, {q})

\* Queries that are not admitted have no work orders in the system; messages
\* are collected and dispatched in one iteration of the loop.
AdmittedInv ==
    /\ \A q \in Query \ admitted : pending[q] = 0 /\ outstanding[q] = 0
    /\ phase # "dispatch" => \A q \in Query : newMessages[q] = 0
    /\ IsFiniteSet(admitted) /\ Cardinality(admitted) <= kMaxConcurrentQueries

\* A work order that reported a block runs, or has reported its completion later.
ReportInv ==
    \A i \in DOMAIN inbox :
        inbox[i].type \in {"NewBlock", "DataPipeline"} =>
            \/ \E j \in DOMAIN inbox :
                  /\ j > i /\ inbox[j].type = "Complete"
                  /\ inbox[j].query = inbox[i].query /\ inbox[j].worker = inbox[i].worker
            \/ /\ queue[inbox[i].worker] # << >>
               /\ Head(queue[inbox[i].worker]) = inbox[i].query

Poisoned ==
    ShutDown \/ \E w \in Worker : \E i \in DOMAIN queue[w] : queue[w][i] = Poison

\* The batch that the main thread waits for is on its way, in execution, or done;
\* without one there is nothing, but for the end of the program.
BatchInv ==
    /\ Poisoned => ~awaiting /\ submitted = Len(Batches)
    /\ ~awaiting => /\ completions = 0 /\ ~HasQueries /\ phase \in {"receive", "stopped"}
                    /\ inbox = << >> \/ inbox = <<[type |-> Poison]>>
    /\ awaiting =>
         \/ /\ Len(inbox) = 1 /\ Head(inbox).type = "Admit"
            /\ phase = "receive" /\ ~HasQueries /\ completions = 0
         \/ /\ \A i \in DOMAIN inbox : inbox[i].type # "Admit"
            /\ phase # "receive" \/ HasQueries
            /\ completions = 0
         \/ inbox = << >> /\ phase = "receive" /\ ~HasQueries /\ completions = 1

\* Work orders left in a query manager: a worker will report to the foreman.
WakeInv ==
    (\E q \in admitted : pending[q] > 0) =>
        /\ phase \in {"notify", "receive"} => \E w \in Worker : load[w] > 0
        /\ phase = "dispatch" => \/ \E q \in Query : newMessages[q] > 0
                                 \/ \E w \in Worker : load[w] > 0

ForemanInv ==
    /\ TypeOK /\ LoadInv /\ OutstandingInv /\ AdmittedInv /\ ReportInv /\ BatchInv /\ WakeInv

-----------------------------------------------------------------------------
(***************************************************************************)
(* A set of natural numbers has a least element.                           *)
(***************************************************************************)
LEMMA NatMinimum ==
    ASSUME NEW T \in SUBSET Nat, T # {}
    PROVE  \E n \in T : \A m \in T : n <= m
<1>1. PICK R : IsWellFoundedOn(R, Nat) /\ \A m, n \in Nat : m < n => <<m, n>> \in R
  <2>1. \A m, n \in Nat : m < n => <<m, n>> \in OpToRel(<, Nat)
    BY DEF OpToRel
  <2>2. QED BY <2>1, NatLessThanWellFounded
<1>2. T \subseteq Nat /\ IsWellFoundedOn(R, Nat)
  BY <1>1
<1>3. \E n \in T : \A m \in T : ~(<<m, n>> \in R)
  BY <1>2, WFMin
<1>4. PICK n \in T : \A m \in T : ~(<<m, n>> \in R)
  BY <1>3
<1>5. ASSUME NEW m \in T PROVE n <= m
  <2>1. ~(m < n)
    BY <1>1, <1>2, <1>4
  <2>2. QED BY SMTT(30), <1>2, <2>1
<1>6. QED BY <1>4, <1>5

(***************************************************************************)
(* getLeastLoadedWorker() finds a worker, and none has less to do.         *)
(***************************************************************************)
LEMMA LeastLoaded ==
    ASSUME load \in [Worker -> Nat]
    PROVE  /\ \A w \in Worker : LeastLoad <= load[w]
           /\ LeastLoad \in Nat
           /\ GetLeastLoadedWorker \in Worker
<1>1. RangeOf(load) = {load[w] : w \in Worker}
  BY DEF RangeOf
<1>2. 0 \in Worker
  BY SMTT(30), ForemanAssumption DEF Worker
<1>3. RangeOf(load) \in SUBSET Nat /\ RangeOf(load) # {}
  BY <1>1, <1>2
<1>4. \E n \in RangeOf(load) : \A m \in RangeOf(load) : n <= m
  BY <1>3, NatMinimum
<1>5. LeastLoad \in RangeOf(load) /\ \A m \in RangeOf(load) : LeastLoad <= m
  BY <1>4 DEF LeastLoad
<1> DEFINE T == {w \in Worker : load[w] = LeastLoad}
<1>6. T \in SUBSET Nat /\ T # {}
  BY SMTT(30), <1>1, <1>5 DEF Worker
<1>7. \E w \in T : \A v \in T : w <= v
  BY <1>6, NatMinimum
<1>8. GetLeastLoadedWorker \in Worker
  BY <1>7 DEF GetLeastLoadedWorker
<1>9. QED BY <1>1, <1>3, <1>5, <1>8

(***************************************************************************)
(* What the type of a message says of it.                                  *)
(***************************************************************************)
LEMMA MessageKinds ==
    /\ \A m \in Message :
         /\ m.type \in {"Admit", "NewBlock", "DataPipeline", "Complete", Poison}
         /\ m.type = "Admit" => m.batch \in DOMAIN Batches
         /\ m.type \in {"NewBlock", "DataPipeline", "Complete"} =>
               m \in WorkerMessage /\ m.query \in Query /\ m.worker \in Worker
    /\ WorkerMessage \subseteq Message
    /\ \A i \in DOMAIN Batches : [type |-> "Admit", batch |-> i] \in Message
    /\ [type |-> Poison] \in Message
  BY DEF Message, WorkerMessage, Poison

(***************************************************************************)
(* Receiving and sending a message.                                        *)
(***************************************************************************)
LEMMA Received ==
    ASSUME inbox \in Seq(Message), NEW type, Receive(type)
    PROVE  /\ Head(inbox) \in Message /\ Head(inbox).type = type
           /\ inbox' \in Seq(Message)
           /\ 1 \in DOMAIN inbox /\ inbox[1] = Head(inbox)
           /\ \A i \in DOMAIN inbox' : i + 1 \in DOMAIN inbox /\ inbox'[i] = inbox[i + 1]
           /\ \A i \in DOMAIN inbox : i = 1 \/ (i - 1 \in DOMAIN inbox' /\ i = (i - 1) + 1)
           /\ DOMAIN inbox \subseteq Nat
<1>1. inbox # << >> /\ inbox' = Tail(inbox) /\ Head(inbox).type = type
  BY DEF Receive
<1>2. QED BY SMTT(30), <1>1

(***************************************************************************)
(* Receiving a message takes one from the counts it belongs to.            *)
(***************************************************************************)
LEMMA ReceivedCount ==
    ASSUME inbox \in Seq(Message), NEW type, Receive(type), NEW X
    PROVE  /\ Count(inbox, X) = Count(inbox', X) + One(Head(inbox), X)
           /\ Count(inbox, X) \in Nat /\ Count(inbox', X) \in Nat
<1>1. inbox # << >> /\ inbox' = Tail(inbox)
  BY DEF Receive
<1>2. Tail(inbox) \in Seq(Message)
  BY SMTT(30), <1>1
<1>3. QED BY <1>1, <1>2, CountTail, CountType

(***************************************************************************)
(* Sending a message adds one to the counts it belongs to.                 *)
(***************************************************************************)
LEMMA SentCount ==
    ASSUME inbox \in Seq(Message), NEW m \in Message, Send(m), NEW X
    PROVE  /\ Count(inbox', X) = Count(inbox, X) + One(m, X)
           /\ Count(inbox, X) \in Nat /\ Count(inbox', X) \in Nat
<1>1. inbox' = Append(inbox, m) /\ inbox' \in Seq(Message)
  BY SMTT(30) DEF Send
<1>2. Count(inbox', X) = Count(inbox, X) + One(m, X)
  BY <1>1, CountAppend
<1>3. QED BY <1>1, <1>2, CountType

(***************************************************************************)
(* New work orders go to the query managers of S, or to the one of q.      *)
(***************************************************************************)
LEMMA Generated ==
    ASSUME TypeOK, NEW S, GenerateFirst(S)
    PROVE  /\ toGenerate' \in [Query -> Nat] /\ pending' \in [Query -> Nat]
           /\ \A q \in Query \ S : pending'[q] = pending[q]
<1>1. PICK g \in [Query -> 0 .. MaxWork] :
         /\ \A q \in Query : IF q \in S \ ZeroWork THEN g[q] >= 1 ELSE g[q] = 0
         /\ Generate(g)
  BY DEF GenerateFirst
<1>2. toGenerate \in [Query -> Nat] /\ pending \in [Query -> Nat]
  BY DEF TypeOK
<1>3. \A q \in Query : g[q] \in Nat /\ toGenerate[q] - g[q] \in Nat
  BY SMTT(30), <1>1, <1>2, ForemanAssumption DEF Generate
<1>4. QED BY SMTT(30), <1>1, <1>2, <1>3 DEF Generate

(***************************************************************************)
(* Generating work of one query leaves that of the others alone.           *)
(***************************************************************************)
LEMMA GeneratedMore ==
    ASSUME TypeOK, NEW q \in Query, GenerateMore(q)
    PROVE  /\ toGenerate' \in [Query -> Nat] /\ pending' \in [Query -> Nat]
           /\ \A p \in Query \ {q} : pending'[p] = pending[p]
<1>1. PICK n \in 0 .. toGenerate[q] : Generate([p \in Query |-> IF p = q THEN n ELSE 0])
  BY DEF GenerateMore
<1>2. toGenerate \in [Query -> Nat] /\ pending \in [Query -> Nat]
  BY DEF TypeOK
<1>3. QED BY SMTT(30), <1>1, <1>2 DEF Generate

(***************************************************************************)
(* The first queries of a batch, as many as there is room for.             *)
(***************************************************************************)
LEMMA Admission ==
    ASSUME NEW handles \in Seq(Query), IsFiniteSet(admitted), admitted \in SUBSET Query,
           Cardinality(admitted) <= kMaxConcurrentQueries
    PROVE  LET free == kMaxConcurrentQueries - Cardinality(admitted)
               n == IF free < Len(handles) THEN free ELSE Len(handles)
               new == RangeOf(SubSeq(handles, 1, n))
           IN  /\ new \in SUBSET Query
               /\ SubSeq(handles, n + 1, Len(handles)) \in Seq(Query)
               /\ IsFiniteSet(admitted \cup new)
               /\ Cardinality(admitted \cup new) <= kMaxConcurrentQueries
               /\ n < Len(handles) => Cardinality(admitted) + n = kMaxConcurrentQueries
               /\ handles # << >> =>
                     admitted \cup new # {} \/ SubSeq(handles, n + 1, Len(handles)) # << >>
<1> DEFINE free == kMaxConcurrentQueries - Cardinality(admitted)
           n == IF free < Len(handles) THEN free ELSE Len(handles)
           new == RangeOf(SubSeq(handles, 1, n))
<1>1. Cardinality(admitted) \in Nat /\ kMaxConcurrentQueries \in Nat
  BY FS_CardinalityType, ForemanAssumption
<1>2. n \in 0 .. Len(handles) /\ Cardinality(admitted) + n <= kMaxConcurrentQueries
  BY SMTT(30), <1>1
<1>3. n < Len(handles) => Cardinality(admitted) + n = kMaxConcurrentQueries
  BY SMTT(30), <1>1
<1> HIDE DEF n
<1>4. /\ \A i \in 1 .. n : SubSeq(handles, 1, n)[i] = handles[i] /\ handles[i] \in Query
      /\ DOMAIN SubSeq(handles, 1, n) = 1 .. n
      /\ SubSeq(handles, n + 1, Len(handles)) \in Seq(Query)
      /\ Len(SubSeq(handles, n + 1, Len(handles))) = Len(handles) - n
  BY SMTT(30), <1>2
<1>5. new = {handles[i] : i \in 1 .. n} /\ new \in SUBSET Query
  BY <1>4 DEF RangeOf
<1>6. IsFiniteSet(new) /\ Cardinality(new) <= n
  <2> DEFINE f == [i \in 1 .. n |-> handles[i]]
  <2>1. f \in Surjection(1 .. n, new)
    BY <1>5 DEF Surjection
  <2>2. n \in Nat /\ IsFiniteSet(1 .. n) /\ Cardinality(1 .. n) = n
    <3>1. n \in Nat /\ 1 \in Int /\ n \in Int
      BY SMTT(30), <1>2
    <3>2. IsFiniteSet(1 .. n) /\ Cardinality(1 .. n) = IF 1 > n THEN 0 ELSE n - 1 + 1
      BY <3>1, FS_Interval
    <3>3. QED BY SMTT(30), <3>1, <3>2
  <2> HIDE DEF f, new
  <2>3. QED BY SMTT(30), <2>1, <2>2, FS_Surjection
<1> HIDE DEF new
<1>7. /\ IsFiniteSet(admitted \cup new) /\ Cardinality(new) \in Nat
      /\ Cardinality(admitted \cup new)
           = Cardinality(admitted) + Cardinality(new) - Cardinality(admitted \cap new)
      /\ Cardinality(admitted \cap new) \in Nat
  <2>1. IsFiniteSet(admitted \cap new)
    BY FS_Intersection
  <2>2. QED BY <1>6, <2>1, FS_Union, FS_CardinalityType
<1>8. Cardinality(admitted \cup new) <= kMaxConcurrentQueries
  <2>1. n \in Int /\ Cardinality(admitted) + n <= kMaxConcurrentQueries
    BY SMTT(30), <1>2
  <2>2. QED BY SMTT(30), <1>1, <1>6, <1>7, <2>1
<1>9. ASSUME handles # << >>, SubSeq(handles, n + 1, Len(handles)) = << >>
      PROVE  admitted \cup new # {}
  <2>1. n = Len(handles) /\ n >= 1
    BY SMTT(30), <1>2, <1>4, <1>9
  <2>2. handles[1] \in new
    BY SMTT(30), <1>2, <1>5, <2>1
  <2>3. QED BY <2>2
<1>10. QED BY <1>3, <1>4, <1>5, <1>7, <1>8, <1>9 DEF n, new

(***************************************************************************)
(* A query that is admitted has a share of every round.                    *)
(***************************************************************************)
LEMMA Share ==
    ASSUME AdmittedInv, admitted # {}
    PROVE  PerQueryShare \in Nat /\ PerQueryShare >= 1
<1>1. Cardinality(admitted) \in Nat /\ Cardinality(admitted) # 0
  BY FS_CardinalityType, FS_EmptySet DEF AdmittedInv
<1>2. MaxMsgs \in Nat /\ MaxMsgs >= Cardinality(admitted)
  BY SMTT(30), <1>1, ForemanAssumption DEF AdmittedInv
<1>3. \A a \in Nat, b \in Nat \ {0} : a >= b => a \div b \in Nat /\ a \div b >= 1
  BY SMTT(30)
<1>4. QED BY <1>1, <1>2, <1>3 DEF PerQueryShare

(***************************************************************************)
(* A completion that the foreman reads was counted: for its worker, and    *)
(* among the outstanding work orders of its query.                         *)
(***************************************************************************)
LEMMA CompleteReceived ==
    ASSUME TypeOK, LoadInv, OutstandingInv, Receive("Complete")
    PROVE  LET q == Head(inbox).query
               w == Head(inbox).worker
           IN  /\ q \in Query /\ w \in Worker
               /\ load[w] >= 1 /\ outstanding[q] >= 1
               /\ \A v \in Worker : One(Head(inbox), CompleteBy(v)) = IF v = w THEN 1 ELSE 0
               /\ \A p \in Query : One(Head(inbox), CompleteOf(p)) = IF p = q THEN 1 ELSE 0
<1> DEFINE q == Head(inbox).query
           w == Head(inbox).worker
<1>1. inbox \in Seq(Message) /\ newMessages \in [Query -> Nat]
      /\ queue \in [Worker -> Seq(Query \cup {Poison})]
  BY DEF TypeOK
<1>2. Head(inbox) \in WorkerMessage /\ Head(inbox).type = "Complete" /\ q \in Query /\ w \in Worker
  BY <1>1, Received, MessageKinds
<1>3. /\ \A v \in Worker : One(Head(inbox), CompleteBy(v)) = IF v = w THEN 1 ELSE 0
      /\ \A p \in Query : One(Head(inbox), CompleteOf(p)) = IF p = q THEN 1 ELSE 0
  BY <1>2 DEF One, CompleteBy, CompleteOf
<1>4. load[w] >= 1
  <2>1. Count(inbox, CompleteBy(w)) = Count(inbox', CompleteBy(w)) + 1
    BY <1>1, <1>2, <1>3, ReceivedCount
  <2>2. Count(inbox', CompleteBy(w)) \in Nat /\ Count(queue[w], Query) \in Nat
    BY <1>1, <1>2, ReceivedCount, CountType
  <2>3. QED BY SMTT(30), <1>2, <2>1, <2>2 DEF LoadInv
<1>5. outstanding[q] >= 1
  <2>1. Count(inbox, CompleteOf(q)) = Count(inbox', CompleteOf(q)) + 1
    BY <1>1, <1>2, <1>3, ReceivedCount
  <2>2. Count(inbox', CompleteOf(q)) \in Nat /\ newMessages[q] \in Nat
    BY <1>1, <1>2, ReceivedCount
  <2>3. Total(queue, {q}) \in Nat
    BY <1>1, <1>2, FS_CardinalityType DEF OutstandingInv, Total
  <2>4. QED BY SMTT(30), <1>2, <2>1, <2>2, <2>3 DEF OutstandingInv
<1>6. QED BY <1>2, <1>3, <1>4, <1>5

(***************************************************************************)
(* A step keeps the types.                                                 *)
(***************************************************************************)
LEMMA TypeStep ==
    ASSUME TypeOK, LoadInv, OutstandingInv, AdmittedInv, [Next]_vars
    PROVE  TypeOK'
<1>0. /\ phase \in {"receive", "collect", "dispatch", "notify", "stopped"}
      /\ inbox \in Seq(Message) /\ admitted \in SUBSET Query /\ waiting \in Seq(Query)
      /\ toGenerate \in [Query -> Nat] /\ pending \in [Query -> Nat]
      /\ outstanding \in [Query -> Nat] /\ newMessages \in [Query -> Nat]
      /\ load \in [Worker -> Nat] /\ queue \in [Worker -> Seq(Query \cup {Poison})]
      /\ blocks \in [Query -> Nat] /\ submitted \in 0 .. Len(Batches)
      /\ awaiting \in BOOLEAN /\ completions \in Nat
  BY DEF TypeOK
<1> USE DEF queries, mainThread
<1>1. CASE AdmitQueries
  <2> DEFINE handles == Batches[Head(inbox).batch]
             free == kMaxConcurrentQueries - Cardinality(admitted)
             n == IF free < Len(handles) THEN free ELSE Len(handles)
             new == RangeOf(SubSeq(handles, 1, n))
  <2>1. inbox' \in Seq(Message) /\ Head(inbox).batch \in DOMAIN Batches
    BY <1>0, <1>1, Received, MessageKinds DEF AdmitQueries
  <2>2. handles \in Seq(Query)
    BY SMTT(30), <2>1, ForemanAssumption
  <2>3. /\ GenerateFirst(new) /\ admitted' = admitted \cup new
        /\ waiting' = waiting \o SubSeq(handles, n + 1, Len(handles))
    BY <1>1 DEF AdmitQueries
  <2>4. new \in SUBSET Query /\ SubSeq(handles, n + 1, Len(handles)) \in Seq(Query)
    BY <1>0, <2>2, Admission DEF AdmittedInv
  <2>5. toGenerate' \in [Query -> Nat] /\ pending' \in [Query -> Nat]
    BY <2>3, Generated
  <2> HIDE DEF new, handles, n
  <2>6. admitted' \in SUBSET Query /\ waiting' \in Seq(Query)
    BY SMTT(30), <1>0, <2>3, <2>4
  <2>7. QED BY <1>0, <1>1, <2>1, <2>5, <2>6 DEF AdmitQueries, TypeOK
<1>2. CASE ProcessNewBlock
  BY <1>0, <1>2, Received DEF ProcessNewBlock, TypeOK
<1>3. CASE ProcessDataPipeline
  <2>1. inbox' \in Seq(Message) /\ Head(inbox).query \in Query
    BY <1>0, <1>3, Received, MessageKinds DEF ProcessDataPipeline
  <2>2. toGenerate' \in [Query -> Nat] /\ pending' \in [Query -> Nat]
    BY <1>3, <2>1, GeneratedMore DEF ProcessDataPipeline
  <2>3. QED BY <1>0, <1>3, <2>1, <2>2 DEF ProcessDataPipeline, TypeOK
<1>4. CASE ProcessComplete
  <2> DEFINE q == Head(inbox).query
             w == Head(inbox).worker
  <2>1. inbox' \in Seq(Message) /\ Receive("Complete")
    BY <1>0, <1>4, Received DEF ProcessComplete
  <2>2. q \in Query /\ w \in Worker /\ load[w] >= 1 /\ outstanding[q] >= 1
    BY <2>1, CompleteReceived
  <2>3. load' \in [Worker -> Nat] /\ outstanding' \in [Query -> Nat]
    <3>1. load' = [load EXCEPT ![w] = @ - 1] /\ outstanding' = [outstanding EXCEPT ![q] = @ - 1]
      BY <1>4 DEF ProcessComplete
    <3> HIDE DEF q, w
    <3>2. load[w] - 1 \in Nat /\ outstanding[q] - 1 \in Nat
      BY SMTT(30), <1>0, <2>2
    <3>3. QED BY <1>0, <2>2, <3>1, <3>2
  <2>4. /\ admitted' \in SUBSET Query /\ waiting' \in Seq(Query)
        /\ toGenerate' \in [Query -> Nat] /\ pending' \in [Query -> Nat]
    <3>1. CASE GenerateMore(q) /\ UNCHANGED <<admitted, waiting>>
      BY <1>0, <2>2, <3>1, GeneratedMore
    <3>2. CASE RemoveQuery(q)
      <4>1. CASE UNCHANGED <<waiting, toGenerate, pending>> /\ admitted' = admitted \ {q}
        BY <1>0, <4>1
      <4>2. CASE /\ waiting # << >> /\ waiting' = Tail(waiting) /\ GenerateFirst({Head(waiting)})
                 /\ admitted' = (admitted \ {q}) \cup {Head(waiting)}
        <5>1. Head(waiting) \in Query /\ Tail(waiting) \in Seq(Query)
          BY SMTT(30), <1>0, <4>2
        <5>2. QED BY <1>0, <4>2, <5>1, Generated
      <4>3. QED BY <3>2, <4>1, <4>2 DEF RemoveQuery
    <3>3. QED BY <1>4, <3>1, <3>2 DEF ProcessComplete
  <2>5. QED BY <1>0, <1>4, <2>1, <2>3, <2>4 DEF ProcessComplete, TypeOK
<1>5. CASE ProcessPoison
  BY <1>0, <1>5, Received DEF ProcessPoison, TypeOK
<1>6. CASE SkipCollect \/ EndDispatch
  BY <1>0, <1>6 DEF SkipCollect, EndDispatch, TypeOK
<1>7. CASE GetWorkerMessages
  <2>1. \A q \in Query : newMessages'[q] \in Nat /\ newMessages'[q] <= pending[q]
    BY SMTT(30), <1>0, <1>7, Share DEF GetWorkerMessages
  <2>2. newMessages' \in [Query -> Nat] /\ pending' \in [Query -> Nat]
        /\ outstanding' \in [Query -> Nat]
    BY SMTT(30), <1>0, <1>7, <2>1 DEF GetWorkerMessages
  <2>3. QED BY <1>0, <1>7, <2>2 DEF GetWorkerMessages, Unfinished, TypeOK
<1>8. ASSUME NEW q \in Query, DispatchWorkerMessage(q) PROVE TypeOK'
  <2>1. GetLeastLoadedWorker \in Worker
    BY <1>0, LeastLoaded
  <2>2. newMessages' \in [Query -> Nat] /\ load' \in [Worker -> Nat]
    BY SMTT(30), <1>0, <1>8, <2>1 DEF DispatchWorkerMessage
  <2>3. Append(queue[GetLeastLoadedWorker], q) \in Seq(Query \cup {Poison})
    BY SMTT(30), <1>0, <2>1
  <2>4. queue' \in [Worker -> Seq(Query \cup {Poison})]
    BY <1>0, <1>8, <2>1, <2>3 DEF DispatchWorkerMessage
  <2>5. QED BY <1>0, <1>8, <2>2, <2>4 DEF DispatchWorkerMessage, TypeOK
<1>9. CASE NotifyMainThread
  BY SMTT(30), <1>0, <1>9 DEF NotifyMainThread, TypeOK
<1>10. ASSUME NEW w \in Worker, WorkerStep(w) PROVE TypeOK'
  <2>1. queue[w] # << >> /\ Head(queue[w]) # Poison
    BY <1>10 DEF WorkerStep, ReportBlock, SendWorkOrderComplete
  <2>2. Head(queue[w]) \in Query /\ Tail(queue[w]) \in Seq(Query \cup {Poison})
    BY SMTT(30), <1>0, <1>10, <2>1
  <2>3. ASSUME NEW type \in {"NewBlock", "DataPipeline"}, ReportBlock(w, type) PROVE TypeOK'
    <3>1. [type |-> type, query |-> Head(queue[w]), worker |-> w] \in Message
      BY <1>10, <2>2, MessageKinds DEF WorkerMessage
    <3>2. inbox' \in Seq(Message) /\ blocks' \in [Query -> Nat]
      BY SMTT(30), <1>0, <2>2, <2>3, <3>1 DEF ReportBlock, Send
    <3>3. QED BY <1>0, <2>3, <3>2 DEF ReportBlock, TypeOK
  <2>4. CASE SendWorkOrderComplete(w)
    <3>1. [type |-> "Complete", query |-> Head(queue[w]), worker |-> w] \in Message
      BY <1>10, <2>2, MessageKinds DEF WorkerMessage
    <3>2. inbox' \in Seq(Message) /\ queue' \in [Worker -> Seq(Query \cup {Poison})]
      BY SMTT(30), <1>0, <2>2, <2>4, <3>1 DEF SendWorkOrderComplete, Send
    <3>3. QED BY <1>0, <2>4, <3>2 DEF SendWorkOrderComplete, TypeOK
  <2>5. QED BY <1>10, <2>3, <2>4 DEF WorkerStep
<1>11. CASE SubmitBatch
  <2>1. [type |-> "Admit", batch |-> submitted + 1] \in Message
    BY SMTT(30), <1>0, <1>11, MessageKinds, ForemanAssumption DEF SubmitBatch
  <2>2. inbox' \in Seq(Message)
    BY SMTT(30), <1>0, <1>11, <2>1 DEF SubmitBatch, Send
  <2>3. QED BY SMTT(30), <1>0, <1>11, <2>2, ForemanAssumption DEF SubmitBatch, TypeOK
<1>12. CASE ReceiveQueryCompletion
  <2>0. completions > 0 /\ completions' = completions - 1 /\ awaiting' = FALSE
    BY <1>12 DEF ReceiveQueryCompletion
  <2>1. completions' \in Nat
    <3>1. completions \in Nat
      BY <1>0
    <3>2. QED BY SMTT(30), <2>0, <3>1
  <2>2. awaiting' \in BOOLEAN
    BY <2>0
  <2>3. QED BY <1>0, <1>12, <2>1, <2>2 DEF ReceiveQueryCompletion, TypeOK
<1>13. CASE BroadcastPoison
  <2>1. inbox' \in Seq(Message)
    BY SMTT(30), <1>0, <1>13, MessageKinds DEF BroadcastPoison, Send
  <2>2. \A w \in Worker : Append(queue[w], Poison) \in Seq(Query \cup {Poison})
    BY SMTT(30), <1>0
  <2>3. queue' \in [Worker -> Seq(Query \cup {Poison})]
    BY <1>13, <2>2 DEF BroadcastPoison
  <2>4. QED BY <1>0, <1>13, <2>1, <2>3 DEF BroadcastPoison, TypeOK
<1>14. CASE UNCHANGED vars
  BY <1>0, <1>14 DEF vars, TypeOK
<1>15. QED BY <1>1, <1>2, <1>3, <1>4, <1>5, <1>6, <1>7, <1>8, <1>9, <1>10, <1>11, <1>12, <1>13,
              <1>14 DEF Next, ForemanStep, MainStep, Terminated

(***************************************************************************)
(* Messages other than completions are not counted.                        *)
(***************************************************************************)
CompletesSame ==
    /\ \A w \in Worker : Count(inbox', CompleteBy(w)) = Count(inbox, CompleteBy(w))
    /\ \A q \in Query : Count(inbox', CompleteOf(q)) = Count(inbox, CompleteOf(q))

(***************************************************************************)
(* Receiving another kind of message leaves the completions in the inbox.  *)
(***************************************************************************)
LEMMA OtherReceived ==
    ASSUME inbox \in Seq(Message), NEW type, type # "Complete", Receive(type)
    PROVE  CompletesSame
<1>1. Head(inbox).type # "Complete"
  BY Received
<1>2. ASSUME NEW X, Head(inbox) \notin X PROVE Count(inbox', X) = Count(inbox, X)
  BY SMTT(30), <1>2, ReceivedCount DEF One
<1>3. QED BY <1>1, <1>2 DEF CompletesSame, CompleteBy, CompleteOf

(***************************************************************************)
(* Sending another kind of message leaves the completions in the inbox.    *)
(***************************************************************************)
LEMMA OtherSent ==
    ASSUME inbox \in Seq(Message), NEW m \in Message, m.type # "Complete", Send(m)
    PROVE  CompletesSame
<1>1. ASSUME NEW X, m \notin X PROVE Count(inbox', X) = Count(inbox, X)
  BY SMTT(30), <1>1, SentCount DEF One
<1>2. QED BY <1>1 DEF CompletesSame, CompleteBy, CompleteOf

(***************************************************************************)
(* A worker takes the first work order of its queue.                       *)
(***************************************************************************)
LEMMA AtWorker ==
    ASSUME TypeOK, NEW w \in Worker, queue[w] # << >>, Head(queue[w]) # Poison
    PROVE  /\ Head(queue[w]) \in Query
           /\ Tail(queue[w]) \in Seq(Query \cup {Poison})
           /\ \A type \in {"NewBlock", "DataPipeline", "Complete"} :
                [type |-> type, query |-> Head(queue[w]), worker |-> w] \in Message
<1>1. queue[w] \in Seq(Query \cup {Poison})
  BY DEF TypeOK
<1>2. Head(queue[w]) \in Query /\ Tail(queue[w]) \in Seq(Query \cup {Poison})
  BY SMTT(30), <1>1
<1>3. QED BY <1>2, MessageKinds DEF WorkerMessage

(***************************************************************************)
(* A step keeps the loads of workers exact.                                *)
(***************************************************************************)
LEMMA LoadStep ==
    ASSUME TypeOK, LoadInv, OutstandingInv, [Next]_vars
    PROVE  LoadInv'
<1>0. /\ inbox \in Seq(Message) /\ load \in [Worker -> Nat]
      /\ queue \in [Worker -> Seq(Query \cup {Poison})]
  BY DEF TypeOK
<1>a. ASSUME load' = load, queue' = queue, inbox' = inbox \/ CompletesSame PROVE LoadInv'
  BY <1>a DEF LoadInv, CompletesSame
<1>b. ASSUME NEW type, type # "Complete", Receive(type), load' = load, queue' = queue
      PROVE  LoadInv'
  BY <1>0, <1>a, <1>b, OtherReceived
<1> USE DEF queries, mainThread
<1>1. CASE AdmitQueries \/ ProcessNewBlock \/ ProcessDataPipeline
  BY <1>b, <1>1 DEF AdmitQueries, ProcessNewBlock, ProcessDataPipeline
<1>2. CASE ProcessPoison
  BY <1>b, <1>2 DEF ProcessPoison, Poison
<1>3. CASE ProcessComplete
  <2> DEFINE w == Head(inbox).worker
  <2>1. Receive("Complete") /\ load' = [load EXCEPT ![w] = @ - 1] /\ queue' = queue
    BY <1>3 DEF ProcessComplete
  <2>2. /\ w \in Worker
        /\ \A v \in Worker : One(Head(inbox), CompleteBy(v)) = IF v = w THEN 1 ELSE 0
    BY <2>1, CompleteReceived
  <2> HIDE DEF w
  <2>3. ASSUME NEW v \in Worker
        PROVE  load'[v] = Count(queue'[v], Query) + Count(inbox', CompleteBy(v))
    <3>1. /\ Count(inbox, CompleteBy(v)) = Count(inbox', CompleteBy(v)) + IF v = w THEN 1 ELSE 0
          /\ Count(inbox', CompleteBy(v)) \in Nat
      BY <1>0, <2>1, <2>2, ReceivedCount
    <3>2. load'[v] = load[v] - IF v = w THEN 1 ELSE 0
      BY SMTT(30), <1>0, <2>1, <2>2
    <3>3. Count(queue[v], Query) \in Nat
      BY <1>0, CountType
    <3>4. QED BY SMTT(30), <2>1, <3>1, <3>2, <3>3 DEF LoadInv
  <2>4. QED BY <2>3 DEF LoadInv
<1>4. CASE SkipCollect \/ EndDispatch \/ GetWorkerMessages \/ NotifyMainThread
           \/ ReceiveQueryCompletion \/ UNCHANGED vars
  BY <1>a, <1>4 DEF SkipCollect, EndDispatch, GetWorkerMessages, NotifyMainThread,
     ReceiveQueryCompletion, vars
<1>5. ASSUME NEW q \in Query, DispatchWorkerMessage(q) PROVE LoadInv'
  <2> DEFINE g == GetLeastLoadedWorker
  <2>1. g \in Worker
    BY <1>0, LeastLoaded
  <2>2. /\ queue' = [queue EXCEPT ![g] = Append(@, q)] /\ load' = [load EXCEPT ![g] = @ + 1]
        /\ inbox' = inbox
    BY <1>5 DEF DispatchWorkerMessage
  <2> HIDE DEF g
  <2>3. Count(Append(queue[g], q), Query) = Count(queue[g], Query) + 1
    <3>1. queue[g] \in Seq(Query \cup {Poison}) /\ q \in Query \cup {Poison}
      BY <1>0, <2>1
    <3>2. Count(Append(queue[g], q), Query) = Count(queue[g], Query) + One(q, Query)
      BY <3>1, CountAppend
    <3>3. QED BY <3>2 DEF One
  <2>4. ASSUME NEW v \in Worker
        PROVE  load'[v] = Count(queue'[v], Query) + Count(inbox', CompleteBy(v))
    <3>1. Count(queue[v], Query) \in Nat /\ Count(inbox, CompleteBy(v)) \in Nat
      BY <1>0, CountType
    <3>2. CASE v = g
      BY SMTT(30), <1>0, <2>1, <2>2, <2>3, <3>1, <3>2 DEF LoadInv
    <3>3. CASE v # g
      BY <1>0, <2>1, <2>2, <3>3 DEF LoadInv
    <3>4. QED BY <3>2, <3>3
  <2>5. QED BY <2>4 DEF LoadInv
<1>6. ASSUME NEW w \in Worker, NEW type \in {"NewBlock", "DataPipeline"}, ReportBlock(w, type)
      PROVE  LoadInv'
  <2> DEFINE m == [type |-> type, query |-> Head(queue[w]), worker |-> w]
  <2>1. m \in Message /\ m.type # "Complete"
    BY <1>6, AtWorker DEF ReportBlock
  <2>2. Send(m) /\ load' = load /\ queue' = queue
    BY <1>6 DEF ReportBlock
  <2> HIDE DEF m
  <2>3. QED BY <1>0, <1>a, <2>1, <2>2, OtherSent
<1>7. ASSUME NEW w \in Worker, SendWorkOrderComplete(w) PROVE LoadInv'
  <2> DEFINE m == [type |-> "Complete", query |-> Head(queue[w]), worker |-> w]
  <2>1. m \in Message /\ Head(queue[w]) \in Query /\ Tail(queue[w]) \in Seq(Query \cup {Poison})
    BY <1>7, AtWorker DEF SendWorkOrderComplete
  <2>2. Send(m) /\ load' = load /\ queue' = [queue EXCEPT ![w] = Tail(@)] /\ queue[w] # << >>
    BY <1>7 DEF SendWorkOrderComplete
  <2>3. \A v \in Worker : One(m, CompleteBy(v)) = IF v = w THEN 1 ELSE 0
    BY <1>7, <2>1 DEF One, CompleteBy, WorkerMessage
  <2> HIDE DEF m
  <2>4. Count(queue[w], Query) = Count(Tail(queue[w]), Query) + 1
    <3>1. queue[w] \in Seq(Query \cup {Poison})
      BY <1>0, <1>7
    <3>2. Count(queue[w], Query) = Count(Tail(queue[w]), Query) + One(Head(queue[w]), Query)
      BY <2>2, <3>1, CountTail
    <3>3. QED BY <2>1, <3>2 DEF One
  <2>5. ASSUME NEW v \in Worker
        PROVE  load'[v] = Count(queue'[v], Query) + Count(inbox', CompleteBy(v))
    <3>1. /\ Count(inbox', CompleteBy(v)) = Count(inbox, CompleteBy(v)) + IF v = w THEN 1 ELSE 0
          /\ Count(inbox, CompleteBy(v)) \in Nat
      BY <1>0, <2>1, <2>2, <2>3, SentCount
    <3>2. Count(queue[v], Query) \in Nat /\ Count(Tail(queue[w]), Query) \in Nat
      BY <1>0, <2>1, CountType
    <3>3. CASE v = w
      BY SMTT(30), <1>0, <2>2, <2>4, <3>1, <3>2, <3>3 DEF LoadInv
    <3>4. CASE v # w
      BY SMTT(30), <1>0, <2>2, <3>1, <3>2, <3>4 DEF LoadInv
    <3>5. QED BY <3>3, <3>4
  <2>6. QED BY <2>5 DEF LoadInv
<1>8. CASE SubmitBatch
  <2> DEFINE m == [type |-> "Admit", batch |-> submitted + 1]
  <2>1. m \in Message /\ m.type # "Complete"
    BY SMTT(30), <1>8, MessageKinds, ForemanAssumption DEF SubmitBatch, TypeOK
  <2>2. Send(m) /\ load' = load /\ queue' = queue
    BY <1>8 DEF SubmitBatch
  <2> HIDE DEF m
  <2>3. QED BY <1>0, <1>a, <2>1, <2>2, OtherSent
<1>9. CASE BroadcastPoison
  <2>1. CompletesSame /\ load' = load
    BY <1>0, <1>9, OtherSent, MessageKinds DEF BroadcastPoison, Poison
  <2>2. ASSUME NEW w \in Worker PROVE Count(queue'[w], Query) = Count(queue[w], Query)
    <3>1. queue[w] \in Seq(Query \cup {Poison}) /\ queue'[w] = Append(queue[w], Poison)
      BY <1>0, <1>9 DEF BroadcastPoison
    <3>2. Count(queue'[w], Query) = Count(queue[w], Query) + One(Poison, Query)
      BY SMTT(30), <3>1, CountAppend
    <3>3. One(Poison, Query) = 0 /\ Count(queue[w], Query) \in Nat
      BY <3>1, ForemanAssumption, CountType DEF One
    <3>4. QED BY SMTT(30), <3>2, <3>3
  <2>3. QED BY <2>1, <2>2 DEF LoadInv, CompletesSame
<1>10. QED BY <1>1, <1>2, <1>3, <1>4, <1>5, <1>6, <1>7, <1>8, <1>9
       DEF Next, ForemanStep, WorkerStep, MainStep, Terminated

(***************************************************************************)
(* A worker's queue changes: so do the work orders of a query at workers.  *)
(***************************************************************************)
LEMMA QueueChanged ==
    ASSUME TypeOK, OutstandingInv, NEW w \in Worker, NEW t \in Seq(Query \cup {Poison}),
           queue' = [queue EXCEPT ![w] = t], NEW p \in Query
    PROVE  /\ IsFiniteSet(Places(queue', {p}))
           /\ Total(queue', {p}) \in Nat /\ Total(queue, {p}) \in Nat
           /\ Count(queue[w], {p}) \in Nat /\ Count(t, {p}) \in Nat
           /\ Total(queue', {p}) + Count(queue[w], {p}) = Total(queue, {p}) + Count(t, {p})
<1>1. queue \in [Worker -> Seq(Query \cup {Poison})] /\ IsFiniteSet(Places(queue, {p}))
  BY DEF TypeOK, OutstandingInv
<1>a. queue' \in [Worker -> Seq(Query \cup {Poison})] /\ queue'[w] = t
      /\ \A v \in Worker \ {w} : queue'[v] = queue[v]
  BY <1>1
<1> DEFINE Q == Query \cup {Poison}
<1>b. queue \in Queues(Worker, Q) /\ queue' \in Queues(Worker, Q)
  BY <1>1, <1>a DEF Queues
<1>c. \A v \in Worker \ {w} : queue'[v] = queue[v]
  BY <1>1
<1>d. IsFiniteSet(Places(queue, {p}))
  BY <1>1
<1>2. /\ IsFiniteSet(Places(queue', {p}))
      /\ Total(queue, {p}) \in Nat /\ Total(queue', {p}) \in Nat
      /\ Total(queue', {p}) + Count(queue[w], {p}) = Total(queue, {p}) + Count(queue'[w], {p})
  <2> HIDE DEF Q
  <2>0. w \in Worker
    OBVIOUS
  <2>1. QED BY ONLY SMTT(30), <1>b, <1>c, <1>d, <2>0, TotalExcept
<1>3. Count(queue[w], {p}) \in Nat /\ Count(t, {p}) \in Nat
  BY <1>1, CountType
<1>4. QED BY <1>a, <1>2, <1>3

(***************************************************************************)
(* A step keeps the outstanding work orders of a query exact.              *)
(***************************************************************************)
LEMMA OutstandingStep ==
    ASSUME TypeOK, LoadInv, OutstandingInv, AdmittedInv, [Next]_vars
    PROVE  OutstandingInv'
<1>0. /\ inbox \in Seq(Message) /\ outstanding \in [Query -> Nat] /\ newMessages \in [Query -> Nat]
      /\ pending \in [Query -> Nat]
      /\ queue \in [Worker -> Seq(Query \cup {Poison})]
  BY DEF TypeOK
<1>a. ASSUME outstanding' = outstanding, newMessages' = newMessages, queue' = queue,
             inbox' = inbox \/ CompletesSame
      PROVE  OutstandingInv'
  BY <1>a DEF OutstandingInv, CompletesSame
<1>b. ASSUME NEW type, type # "Complete", Receive(type),
             outstanding' = outstanding, newMessages' = newMessages, queue' = queue
      PROVE  OutstandingInv'
  BY <1>0, <1>a, <1>b, OtherReceived
<1>c. \A q \in Query : Count(inbox, CompleteOf(q)) \in Nat /\ Total(queue, {q}) \in Nat
  BY <1>0, CountType, TotalZero DEF OutstandingInv
<1>d. \A q \in Query :
         /\ outstanding[q] = newMessages[q] + Count(inbox, CompleteOf(q)) + Total(queue, {q})
         /\ newMessages[q] \in Nat /\ Count(inbox, CompleteOf(q)) \in Nat
         /\ Total(queue, {q}) \in Nat /\ outstanding[q] \in Nat
  BY <1>0, <1>c DEF OutstandingInv
<1> USE DEF queries, mainThread
<1>1. CASE AdmitQueries \/ ProcessNewBlock \/ ProcessDataPipeline
  BY <1>b, <1>1 DEF AdmitQueries, ProcessNewBlock, ProcessDataPipeline
<1>2. CASE ProcessPoison
  BY <1>b, <1>2 DEF ProcessPoison, Poison
<1>3. CASE ProcessComplete
  <2> DEFINE q == Head(inbox).query
  <2>1. /\ Receive("Complete") /\ outstanding' = [outstanding EXCEPT ![q] = @ - 1]
        /\ queue' = queue /\ newMessages' = newMessages
    BY <1>3 DEF ProcessComplete
  <2>2. /\ q \in Query
        /\ \A p \in Query : One(Head(inbox), CompleteOf(p)) = IF p = q THEN 1 ELSE 0
    BY <2>1, CompleteReceived
  <2> HIDE DEF q
  <2>3. ASSUME NEW p \in Query
        PROVE  outstanding'[p]
                 = newMessages'[p] + Count(inbox', CompleteOf(p)) + Total(queue', {p})
    <3>1. /\ Count(inbox, CompleteOf(p)) = Count(inbox', CompleteOf(p)) + IF p = q THEN 1 ELSE 0
          /\ Count(inbox', CompleteOf(p)) \in Nat
      BY <1>0, <2>1, <2>2, ReceivedCount
    <3>2. outstanding'[p] = outstanding[p] - IF p = q THEN 1 ELSE 0
      BY SMTT(30), <1>0, <2>1, <2>2
    <3>3. CASE p = q
      BY SMTT(30), <1>d, <2>1, <3>1, <3>2, <3>3
    <3>4. CASE p # q
      BY SMTT(30), <1>d, <2>1, <3>1, <3>2, <3>4
    <3>5. QED BY <3>3, <3>4
  <2>4. QED BY <2>1, <2>3 DEF OutstandingInv
<1>4. CASE SkipCollect \/ EndDispatch \/ NotifyMainThread
           \/ ReceiveQueryCompletion \/ UNCHANGED vars
  BY <1>a, <1>4 DEF SkipCollect, EndDispatch, NotifyMainThread, ReceiveQueryCompletion, vars
<1>5. CASE GetWorkerMessages
  <2>1. TypeOK'
    BY <1>5, TypeStep DEF Next, ForemanStep
  <2>2. newMessages' \in [Query -> Nat]
    BY <2>1 DEF TypeOK
  <2>3. /\ \A q \in Query : newMessages[q] = 0
        /\ \A q \in Query : outstanding'[q] = outstanding[q] + newMessages'[q]
        /\ queue' = queue /\ inbox' = inbox
    BY <1>5 DEF GetWorkerMessages, AdmittedInv
  <2>4. ASSUME NEW p \in Query
        PROVE  outstanding'[p]
                 = newMessages'[p] + Count(inbox', CompleteOf(p)) + Total(queue', {p})
    BY SMTT(30), <1>d, <2>2, <2>3
  <2>5. QED BY <2>3, <2>4 DEF OutstandingInv
<1>6. ASSUME NEW q \in Query, DispatchWorkerMessage(q) PROVE OutstandingInv'
  <2> DEFINE g == GetLeastLoadedWorker
             t == Append(queue[g], q)
  <2>1. g \in Worker
    BY LeastLoaded DEF TypeOK
  <2>2. /\ queue' = [queue EXCEPT ![g] = t] /\ newMessages' = [newMessages EXCEPT ![q] = @ - 1]
        /\ inbox' = inbox /\ outstanding' = outstanding
    BY <1>0, <1>6, <2>1 DEF DispatchWorkerMessage
  <2>3. t \in Seq(Query \cup {Poison}) /\ queue[g] \in Seq(Query \cup {Poison})
    BY SMTT(30), <1>0, <2>1
  <2>4. \A p \in Query : Count(t, {p}) = Count(queue[g], {p}) + IF p = q THEN 1 ELSE 0
    BY SMTT(30), <2>3, CountAppend DEF One
  <2> HIDE DEF g, t
  <2>5. ASSUME NEW p \in Query
        PROVE  /\ IsFiniteSet(Places(queue', {p}))
               /\ Total(queue', {p}) = Total(queue, {p}) + IF p = q THEN 1 ELSE 0
    <3>2. /\ IsFiniteSet(Places(queue', {p}))
          /\ Total(queue', {p}) \in Nat /\ Total(queue, {p}) \in Nat
          /\ Count(queue[g], {p}) \in Nat /\ Count(t, {p}) \in Nat
          /\ Total(queue', {p}) + Count(queue[g], {p}) = Total(queue, {p}) + Count(t, {p})
      BY <2>1, <2>2, <2>3, QueueChanged
    <3>4. CASE p = q
      BY SMTT(30), <2>4, <3>2, <3>4
    <3>5. CASE p # q
      BY SMTT(30), <2>4, <3>2, <3>5
    <3>6. QED BY <3>4, <3>5
  <2>6. \A p \in Query : newMessages'[p] = newMessages[p] - IF p = q THEN 1 ELSE 0
    BY SMTT(30), <1>0, <2>2
  <2>7. ASSUME NEW p \in Query
        PROVE  outstanding'[p]
                 = newMessages'[p] + Count(inbox', CompleteOf(p)) + Total(queue', {p})
    <3>0. /\ outstanding'[p] = outstanding[p]
          /\ Count(inbox', CompleteOf(p)) = Count(inbox, CompleteOf(p))
          /\ newMessages'[p] = newMessages[p] - IF p = q THEN 1 ELSE 0
          /\ Total(queue', {p}) = Total(queue, {p}) + IF p = q THEN 1 ELSE 0
      BY <2>2, <2>5, <2>6
    <3>1. /\ outstanding[p] = newMessages[p] + Count(inbox, CompleteOf(p)) + Total(queue, {p})
          /\ newMessages[p] \in Nat /\ Count(inbox, CompleteOf(p)) \in Nat
          /\ Total(queue, {p}) \in Nat
      BY <1>d
    <3>2. QED BY SMTT(30), <3>0, <3>1
  <2>8. QED BY <2>5, <2>7 DEF OutstandingInv
<1>7. ASSUME NEW w \in Worker, NEW type \in {"NewBlock", "DataPipeline"}, ReportBlock(w, type)
      PROVE  OutstandingInv'
  <2> DEFINE m == [type |-> type, query |-> Head(queue[w]), worker |-> w]
  <2>1. m \in Message /\ m.type # "Complete"
    BY <1>7, AtWorker DEF ReportBlock
  <2>2. Send(m) /\ outstanding' = outstanding /\ newMessages' = newMessages /\ queue' = queue
    BY <1>7 DEF ReportBlock
  <2> HIDE DEF m
  <2>3. QED BY <1>0, <1>a, <2>1, <2>2, OtherSent
<1>8. ASSUME NEW w \in Worker, SendWorkOrderComplete(w) PROVE OutstandingInv'
  <2> DEFINE q == Head(queue[w])
             m == [type |-> "Complete", query |-> q, worker |-> w]
             t == Tail(queue[w])
  <2>1. m \in Message /\ q \in Query /\ t \in Seq(Query \cup {Poison})
    BY <1>8, AtWorker DEF SendWorkOrderComplete
  <2>2. /\ Send(m) /\ queue' = [queue EXCEPT ![w] = t] /\ queue[w] # << >>
        /\ newMessages' = newMessages /\ outstanding' = outstanding
    BY <1>0, <1>8 DEF SendWorkOrderComplete
  <2>3. \A p \in Query : One(m, CompleteOf(p)) = IF p = q THEN 1 ELSE 0
    BY <1>8, <2>1 DEF One, CompleteOf, WorkerMessage
  <2>4. \A p \in Query : Count(queue[w], {p}) = Count(t, {p}) + IF p = q THEN 1 ELSE 0
    <3>1. queue[w] \in Seq(Query \cup {Poison})
      BY <1>0, <1>8
    <3>2. QED BY <2>2, <3>1, CountTail DEF One
  <2> HIDE DEF m, q, t
  <2>5. ASSUME NEW p \in Query
        PROVE  /\ IsFiniteSet(Places(queue', {p}))
               /\ Total(queue', {p}) = Total(queue, {p}) - IF p = q THEN 1 ELSE 0
    <3>2. /\ IsFiniteSet(Places(queue', {p}))
          /\ Total(queue', {p}) \in Nat /\ Total(queue, {p}) \in Nat
          /\ Count(queue[w], {p}) \in Nat /\ Count(t, {p}) \in Nat
          /\ Total(queue', {p}) + Count(queue[w], {p}) = Total(queue, {p}) + Count(t, {p})
      BY <2>1, <2>2, <1>8, QueueChanged
    <3>4. CASE p = q
      BY SMTT(30), <2>4, <3>2, <3>4
    <3>5. CASE p # q
      BY SMTT(30), <2>4, <3>2, <3>5
    <3>6. QED BY <3>4, <3>5
  <2>6. ASSUME NEW p \in Query
        PROVE  Count(inbox', CompleteOf(p)) = Count(inbox, CompleteOf(p)) + IF p = q THEN 1 ELSE 0
    BY <1>0, <2>1, <2>2, <2>3, SentCount
  <2>7. ASSUME NEW p \in Query
        PROVE  outstanding'[p]
                 = newMessages'[p] + Count(inbox', CompleteOf(p)) + Total(queue', {p})
    <3>0. /\ outstanding'[p] = outstanding[p]
          /\ Count(inbox', CompleteOf(p)) = Count(inbox, CompleteOf(p)) + IF p = q THEN 1 ELSE 0
          /\ newMessages'[p] = newMessages[p]
          /\ Total(queue', {p}) = Total(queue, {p}) - IF p = q THEN 1 ELSE 0
      BY <2>2, <2>5, <2>6
    <3>1. /\ outstanding[p] = newMessages[p] + Count(inbox, CompleteOf(p)) + Total(queue, {p})
          /\ newMessages[p] \in Nat /\ Count(inbox, CompleteOf(p)) \in Nat
          /\ Total(queue, {p}) \in Nat
      BY <1>d
    <3>2. QED BY SMTT(30), <3>0, <3>1
  <2>8. QED BY <2>5, <2>7 DEF OutstandingInv
<1>9. CASE SubmitBatch
  <2> DEFINE m == [type |-> "Admit", batch |-> submitted + 1]
  <2>1. m \in Message /\ m.type # "Complete"
    BY SMTT(30), <1>9, MessageKinds, ForemanAssumption DEF SubmitBatch, TypeOK
  <2>2. Send(m) /\ outstanding' = outstanding /\ newMessages' = newMessages /\ queue' = queue
    BY <1>9 DEF SubmitBatch
  <2> HIDE DEF m
  <2>3. QED BY <1>0, <1>a, <2>1, <2>2, OtherSent
<1>10. CASE BroadcastPoison
  <2>1. CompletesSame /\ outstanding' = outstanding /\ newMessages' = newMessages
    BY <1>0, <1>10, OtherSent, MessageKinds DEF BroadcastPoison, Poison
  <2>2. ASSUME NEW q \in Query PROVE Places(queue', {q}) = Places(queue, {q})
    <3>1. queue' = [w \in Worker |-> Append(queue[w], Poison)]
      BY <1>10 DEF BroadcastPoison
    <3>2. Poison # q
      BY ForemanAssumption
    <3>3. DOMAIN queue = Worker /\ DOMAIN queue' = Worker
      BY <1>0, <3>1
    <3>4. ASSUME NEW w \in Worker, NEW i \in Nat
          PROVE  (i \in DOMAIN queue'[w] /\ queue'[w][i] = q)
                   <=> (i \in DOMAIN queue[w] /\ queue[w][i] = q)
      <4>1. queue[w] \in Seq(Query \cup {Poison}) /\ queue'[w] = Append(queue[w], Poison)
        BY <1>0, <3>1
      <4>2. QED BY SMTT(30), <3>2, <4>1
    <3>5. QED BY <3>3, <3>4 DEF Places
  <2>3. QED BY <2>1, <2>2 DEF OutstandingInv, CompletesSame, Total
<1>11. QED BY <1>1, <1>2, <1>3, <1>4, <1>5, <1>6, <1>7, <1>8, <1>9, <1>10
       DEF Next, ForemanStep, WorkerStep, MainStep, Terminated

(***************************************************************************)
(* A query with a completion in the inbox or a work order at a worker has  *)
(* outstanding work orders.                                                *)
(***************************************************************************)
LEMMA Present ==
    ASSUME TypeOK, OutstandingInv, NEW q \in Query,
           \/ \E i \in DOMAIN inbox : inbox[i] \in CompleteOf(q)
           \/ \E w \in Worker : \E i \in DOMAIN queue[w] : queue[w][i] = q
    PROVE  outstanding[q] >= 1
<1>1. /\ inbox \in Seq(Message) /\ newMessages[q] \in Nat
      /\ queue \in [Worker -> Seq(Query \cup {Poison})]
  BY DEF TypeOK
<1>2. /\ outstanding[q] = newMessages[q] + Count(inbox, CompleteOf(q)) + Total(queue, {q})
      /\ IsFiniteSet(Places(queue, {q}))
  BY DEF OutstandingInv
<1>3. /\ Count(inbox, CompleteOf(q)) \in Nat
      /\ Count(inbox, CompleteOf(q)) = 0 <=> \A i \in DOMAIN inbox : inbox[i] \notin CompleteOf(q)
  BY <1>1, CountType
<1>4. /\ Total(queue, {q}) \in Nat
      /\ Total(queue, {q}) = 0 <=> \A w \in Worker : \A i \in DOMAIN queue[w] : queue[w][i] \notin {q}
  BY <1>1, <1>2, TotalZero
<1>5. Count(inbox, CompleteOf(q)) # 0 \/ Total(queue, {q}) # 0
  BY <1>3, <1>4
<1>6. QED BY SMTT(30), <1>1, <1>2, <1>3, <1>4, <1>5

(***************************************************************************)
(* Whatever is on its way between the foreman and the workers belongs to a *)
(* query that is still admitted.                                           *)
(***************************************************************************)
LEMMA OfAdmitted ==
    ASSUME TypeOK, OutstandingInv, AdmittedInv, ReportInv
    PROVE  /\ \A i \in DOMAIN inbox :
                inbox[i].type \in {"NewBlock", "DataPipeline", "Complete"}
                  => inbox[i].query \in admitted
           /\ \A w \in Worker : \A i \in DOMAIN queue[w] :
                queue[w][i] # Poison => queue[w][i] \in admitted
<1>1. inbox \in Seq(Message) /\ queue \in [Worker -> Seq(Query \cup {Poison})]
  BY DEF TypeOK
<1>2. ASSUME NEW q \in Query, outstanding[q] >= 1 PROVE q \in admitted
  BY SMTT(30), <1>2 DEF AdmittedInv
<1>3. ASSUME NEW i \in DOMAIN inbox, inbox[i].type = "Complete"
      PROVE  inbox[i].query \in admitted
  <2>1. inbox[i] \in Message
    BY SMTT(30), <1>1
  <2>2. inbox[i] \in WorkerMessage
    BY <1>3, <2>1, MessageKinds
  <2>3. inbox[i].query \in Query /\ inbox[i] \in CompleteOf(inbox[i].query)
    BY <1>3, <2>2 DEF CompleteOf, WorkerMessage
  <2>4. QED BY <1>2, <2>3, Present
<1>4. ASSUME NEW w \in Worker, NEW i \in DOMAIN queue[w], queue[w][i] # Poison
      PROVE  queue[w][i] \in admitted
  <2>1. queue[w][i] \in Query
    BY SMTT(30), <1>1, <1>4
  <2>2. QED BY <1>2, <1>4, <2>1, Present
<1>5. ASSUME NEW i \in DOMAIN inbox, inbox[i].type \in {"NewBlock", "DataPipeline"}
      PROVE  inbox[i].query \in admitted
  <2>1. inbox[i].query \in Query /\ inbox[i].worker \in Worker
    <3>1. inbox[i] \in Message
      BY SMTT(30), <1>1
    <3>2. inbox[i] \in WorkerMessage
      BY <1>5, <3>1, MessageKinds
    <3>3. QED BY <3>2 DEF WorkerMessage
  <2>2. CASE \E j \in DOMAIN inbox : inbox[j].type = "Complete" /\ inbox[j].query = inbox[i].query
    BY <1>3, <2>2
  <2>3. CASE queue[inbox[i].worker] # << >> /\ Head(queue[inbox[i].worker]) = inbox[i].query
    <3> DEFINE w == inbox[i].worker
    <3>1. queue[w] \in Seq(Query \cup {Poison}) /\ 1 \in DOMAIN queue[w] /\ queue[w][1] = Head(queue[w])
      BY SMTT(30), <1>1, <2>1, <2>3
    <3>2. queue[w][1] # Poison
      BY <2>1, <2>3, <3>1, ForemanAssumption
    <3>3. QED BY <1>4, <2>1, <2>3, <3>1, <3>2
  <2>4. QED BY <1>5, <2>2, <2>3 DEF ReportInv
<1>6. QED BY <1>3, <1>4, <1>5

(***************************************************************************)
(* A step leaves nothing of queries that are not admitted, and no more     *)
(* than kMaxConcurrentQueries are.                                         *)
(***************************************************************************)
LEMMA AdmittedStep ==
    ASSUME TypeOK, LoadInv, OutstandingInv, AdmittedInv, ReportInv, [Next]_vars
    PROVE  AdmittedInv'
<1>0. /\ inbox \in Seq(Message) /\ admitted \in SUBSET Query /\ waiting \in Seq(Query)
      /\ pending \in [Query -> Nat] /\ outstanding \in [Query -> Nat]
      /\ newMessages \in [Query -> Nat]
      /\ IsFiniteSet(admitted) /\ Cardinality(admitted) <= kMaxConcurrentQueries
      /\ \A q \in Query \ admitted : pending[q] = 0 /\ outstanding[q] = 0
      /\ phase # "dispatch" => \A q \in Query : newMessages[q] = 0
  BY DEF TypeOK, AdmittedInv
<1> USE DEF queries, mainThread
<1>1. CASE AdmitQueries
  <2> DEFINE handles == Batches[Head(inbox).batch]
             free == kMaxConcurrentQueries - Cardinality(admitted)
             n == IF free < Len(handles) THEN free ELSE Len(handles)
             new == RangeOf(SubSeq(handles, 1, n))
  <2>1. handles \in Seq(Query)
    <3>1. Head(inbox) \in Message /\ Head(inbox).type = "Admit"
      BY <1>0, <1>1, Received DEF AdmitQueries
    <3>2. QED BY SMTT(30), <3>1, MessageKinds, ForemanAssumption
  <2>2. IsFiniteSet(admitted \cup new) /\ Cardinality(admitted \cup new) <= kMaxConcurrentQueries
    BY <1>0, <2>1, Admission
  <2>3. /\ admitted' = admitted \cup new /\ GenerateFirst(new) /\ phase' = "collect"
        /\ outstanding' = outstanding /\ newMessages' = newMessages /\ phase = "receive"
    BY <1>1 DEF AdmitQueries, Receive
  <2> HIDE DEF new
  <2>4. \A q \in Query \ new : pending'[q] = pending[q]
    BY <2>3, Generated
  <2>5. QED BY <1>0, <2>2, <2>3, <2>4 DEF AdmittedInv
<1>2. CASE ProcessNewBlock \/ ProcessPoison
  BY <1>0, <1>2 DEF AdmittedInv, ProcessNewBlock, ProcessPoison, Receive
<1>3. CASE ProcessDataPipeline
  <2> DEFINE q == Head(inbox).query
  <2>1. /\ Receive("DataPipeline") /\ GenerateMore(q) /\ phase = "receive" /\ phase' = "collect"
        /\ UNCHANGED <<admitted, outstanding, newMessages>>
    BY <1>3 DEF ProcessDataPipeline, Receive
  <2>2. q \in admitted
    BY <1>0, <2>1, OfAdmitted, Received
  <2> HIDE DEF q
  <2>3. \A p \in Query \ {q} : pending'[p] = pending[p]
    BY <1>0, <2>1, <2>2, GeneratedMore
  <2>4. QED BY <1>0, <2>1, <2>2, <2>3 DEF AdmittedInv
<1>4. CASE ProcessComplete
  <2> DEFINE q == Head(inbox).query
  <2>1. /\ Receive("Complete") /\ phase = "receive" /\ phase' = "collect" /\ newMessages' = newMessages
        /\ outstanding' = [outstanding EXCEPT ![q] = @ - 1]
        /\ \/ GenerateMore(q) /\ UNCHANGED <<admitted, waiting>>
           \/ LastWorkOrder(q) /\ RemoveQuery(q)
    BY <1>4 DEF ProcessComplete, Receive
  <2>2. q \in admitted
    BY <1>0, <2>1, OfAdmitted, Received
  <2> HIDE DEF q
  <2>3. CASE GenerateMore(q) /\ UNCHANGED admitted
    <3>1. \A p \in Query \ {q} : pending'[p] = pending[p]
      BY <1>0, <2>2, <2>3, GeneratedMore
    <3>2. QED BY <1>0, <2>1, <2>2, <2>3, <3>1 DEF AdmittedInv
  <2>4. CASE LastWorkOrder(q) /\ RemoveQuery(q)
    <3>1. pending[q] = 0 /\ outstanding'[q] = 0
      BY SMTT(30), <1>0, <2>1, <2>2, <2>4 DEF LastWorkOrder
    <3>2. /\ IsFiniteSet(admitted \ {q})
          /\ Cardinality(admitted \ {q}) = Cardinality(admitted) - 1
          /\ Cardinality(admitted) \in Nat
      BY <1>0, <2>2, FS_RemoveElement, FS_CardinalityType
    <3>3. CASE waiting = << >> /\ admitted' = admitted \ {q} /\ pending' = pending
      <4>1. \A p \in Query \ admitted' : pending'[p] = 0 /\ outstanding'[p] = 0
        BY <1>0, <2>1, <3>1, <3>3
      <4>2. Cardinality(admitted') <= kMaxConcurrentQueries
        BY SMTT(30), <1>0, <3>2, <3>3, ForemanAssumption
      <4>3. QED BY <1>0, <2>1, <3>2, <3>3, <4>1, <4>2 DEF AdmittedInv
    <3>4. CASE /\ waiting # << >> /\ admitted' = (admitted \ {q}) \cup {Head(waiting)}
               /\ GenerateFirst({Head(waiting)})
      <4>1. \A p \in Query \ {Head(waiting)} : pending'[p] = pending[p]
        BY <3>4, Generated
      <4>2. \A p \in Query \ admitted' : pending'[p] = 0 /\ outstanding'[p] = 0
        BY <1>0, <2>1, <3>1, <3>4, <4>1
      <4>3. /\ IsFiniteSet(admitted')
            /\ \/ Cardinality(admitted') = Cardinality(admitted \ {q})
               \/ Cardinality(admitted') = Cardinality(admitted \ {q}) + 1
        BY <3>2, <3>4, FS_AddElement
      <4>4. Cardinality(admitted') <= kMaxConcurrentQueries
        BY SMTT(30), <1>0, <3>2, <4>3, ForemanAssumption
      <4>5. QED BY <1>0, <2>1, <4>2, <4>3, <4>4 DEF AdmittedInv
    <3>5. QED BY <2>4, <3>3, <3>4 DEF RemoveQuery
  <2>5. QED BY <2>1, <2>3, <2>4
<1>5. CASE GetWorkerMessages
  <2>1. /\ admitted' = {q \in admitted : ~Executed(q)} /\ phase' = "dispatch"
        /\ \A q \in Query :
             /\ pending'[q] = pending[q] - newMessages'[q]
             /\ outstanding'[q] = outstanding[q] + newMessages'[q]
             /\ newMessages'[q] = IF q \notin admitted THEN 0
                  ELSE IF pending[q] < PerQueryShare THEN pending[q] ELSE PerQueryShare
    BY <1>5 DEF GetWorkerMessages, Unfinished
  <2>2. IsFiniteSet(admitted') /\ Cardinality(admitted') <= Cardinality(admitted)
        /\ Cardinality(admitted') \in Nat /\ Cardinality(admitted) \in Nat
    <3>1. admitted' \subseteq admitted
      BY <2>1
    <3>2. QED BY <1>0, <3>1, FS_Subset, FS_CardinalityType
  <2>3. ASSUME NEW q \in Query, q \notin admitted' PROVE pending'[q] = 0 /\ outstanding'[q] = 0
    <3>1. pending[q] = 0 /\ outstanding[q] = 0
      BY <1>0, <2>1, <2>3 DEF Executed
    <3>2. admitted # {} => PerQueryShare \in Nat /\ PerQueryShare >= 1
      BY Share
    <3>3. newMessages'[q] = 0
      BY SMTT(30), <2>1, <3>1, <3>2
    <3>4. QED BY SMTT(30), <2>1, <3>1, <3>3
  <2>4. Cardinality(admitted') <= kMaxConcurrentQueries
    BY SMTT(30), <1>0, <2>2, ForemanAssumption
  <2>5. QED BY <2>1, <2>2, <2>3, <2>4 DEF AdmittedInv
<1>6. ASSUME NEW q \in Query, DispatchWorkerMessage(q) PROVE AdmittedInv'
  BY <1>0, <1>6 DEF AdmittedInv, DispatchWorkerMessage
<1>7. CASE SkipCollect \/ EndDispatch \/ NotifyMainThread \/ ReceiveQueryCompletion
           \/ SubmitBatch \/ BroadcastPoison \/ UNCHANGED vars
  BY <1>0, <1>7 DEF AdmittedInv, SkipCollect, EndDispatch, NotifyMainThread,
     ReceiveQueryCompletion, SubmitBatch, BroadcastPoison, vars
<1>8. ASSUME NEW w \in Worker,
             SendWorkOrderComplete(w) \/ \E type \in {"NewBlock", "DataPipeline"} : ReportBlock(w, type)
      PROVE  AdmittedInv'
  BY <1>0, <1>8 DEF AdmittedInv, SendWorkOrderComplete, ReportBlock
<1>9. QED BY <1>1, <1>2, <1>3, <1>4, <1>5, <1>6, <1>7, <1>8
      DEF Next, ForemanStep, WorkerStep, MainStep, Terminated

(***************************************************************************)
(* A message is sent to the end of the inbox.                              *)
(***************************************************************************)
LEMMA Sent ==
    ASSUME inbox \in Seq(Message), NEW m, Send(m)
    PROVE  LET n == Len(inbox) + 1
           IN  /\ n \in Nat /\ n \in DOMAIN inbox' /\ inbox'[n] = m /\ Len(inbox') = n
               /\ \A i \in DOMAIN inbox :
                    i \in Nat /\ i < n /\ i \in DOMAIN inbox' /\ inbox'[i] = inbox[i]
               /\ \A i \in DOMAIN inbox' : i \in DOMAIN inbox \/ i = n
BY SMTT(30) DEF Send

(***************************************************************************)
(* A step keeps the order of a work order's reports: its completion comes  *)
(* after the blocks that it reports.                                       *)
(***************************************************************************)
LEMMA ReportStep ==
    ASSUME TypeOK, ReportInv, [Next]_vars
    PROVE  ReportInv'
<1>0. inbox \in Seq(Message) /\ queue \in [Worker -> Seq(Query \cup {Poison})]
  BY DEF TypeOK
<1> DEFINE Report(i) == inbox[i].type \in {"NewBlock", "DataPipeline"}
           Later(i) == \E j \in DOMAIN inbox :
                  /\ j > i /\ inbox[j].type = "Complete"
                  /\ inbox[j].query = inbox[i].query /\ inbox[j].worker = inbox[i].worker
           Runs(i) == /\ queue[inbox[i].worker] # << >>
                      /\ Head(queue[inbox[i].worker]) = inbox[i].query
<1>a. \A i \in DOMAIN inbox : Report(i) => Later(i) \/ Runs(i)
  BY DEF ReportInv
<1>b. ASSUME NEW i \in DOMAIN inbox, Report(i)
      PROVE  inbox[i].worker \in Worker /\ inbox[i].query \in Query
  <2>1. inbox[i] \in Message
    BY SMTT(30), <1>0
  <2>2. inbox[i] \in WorkerMessage
    BY <1>b, <2>1, MessageKinds
  <2>3. QED BY <2>2 DEF WorkerMessage
<1>c. ASSUME NEW type, Receive(type), queue' = queue PROVE ReportInv'
  <2>1. ASSUME NEW i \in DOMAIN inbox', Report(i)' PROVE Later(i)' \/ Runs(i)'
    <3>1. i + 1 \in DOMAIN inbox /\ inbox'[i] = inbox[i + 1] /\ i \in Nat
      BY SMTT(30), <1>0, <1>c, Received, inbox' \in Seq(Message)
    <3>2. CASE Later(i + 1)
      <4>1. PICK j \in DOMAIN inbox :
                  /\ j > i + 1 /\ inbox[j].type = "Complete"
                  /\ inbox[j].query = inbox[i + 1].query /\ inbox[j].worker = inbox[i + 1].worker
        BY <3>2
      <4>2. j - 1 \in DOMAIN inbox' /\ inbox'[j - 1] = inbox[j] /\ j - 1 > i
        <5>1. j \in Nat /\ j # 1
          BY SMTT(30), <1>0, <3>1, <4>1
        <5>2. j - 1 \in DOMAIN inbox'
          BY <1>0, <1>c, <5>1, Received
        <5>3. inbox'[j - 1] = inbox[(j - 1) + 1] /\ (j - 1) + 1 = j
          BY <1>0, <1>c, <5>1, <5>2, Received
        <5>4. QED BY SMTT(30), <3>1, <4>1, <5>1, <5>2, <5>3
      <4>3. QED BY <3>1, <4>1, <4>2
    <3>3. CASE Runs(i + 1)
      BY <1>c, <3>1, <3>3
    <3>4. QED BY <1>a, <2>1, <3>1, <3>2, <3>3
  <2>2. QED BY <2>1 DEF ReportInv
<1>d. ASSUME inbox' = inbox, queue' = queue PROVE ReportInv'
  BY <1>d DEF ReportInv
<1>e. ASSUME NEW m, Send(m), NEW i \in DOMAIN inbox, Later(i)
      PROVE  i \in DOMAIN inbox' /\ inbox'[i] = inbox[i] /\ Later(i)'
  <2>1. \A j \in DOMAIN inbox : j \in DOMAIN inbox' /\ inbox'[j] = inbox[j]
    BY <1>0, <1>e, Sent
  <2>2. QED BY <1>e, <2>1
<1>f. ASSUME NEW m, Send(m), m.type \notin {"NewBlock", "DataPipeline"},
             \A w \in Worker : queue[w] # << >> =>
                queue'[w] # << >> /\ Head(queue'[w]) = Head(queue[w])
      PROVE  ReportInv'
  <2>1. ASSUME NEW i \in DOMAIN inbox', Report(i)' PROVE Later(i)' \/ Runs(i)'
    <3>1. i \in DOMAIN inbox /\ inbox'[i] = inbox[i]
      BY <1>0, <1>f, <2>1, Sent
    <3>2. QED BY SMTT(30), <1>a, <1>b, <1>e, <1>f, <2>1, <3>1
  <2>2. QED BY <2>1 DEF ReportInv
<1> USE DEF queries, mainThread
<1>1. CASE AdmitQueries \/ ProcessNewBlock \/ ProcessDataPipeline \/ ProcessComplete \/ ProcessPoison
  BY <1>c, <1>1 DEF AdmitQueries, ProcessNewBlock, ProcessDataPipeline, ProcessComplete, ProcessPoison
<1>2. CASE SkipCollect \/ GetWorkerMessages \/ EndDispatch \/ NotifyMainThread
           \/ ReceiveQueryCompletion \/ UNCHANGED vars
  BY <1>d, <1>2 DEF SkipCollect, GetWorkerMessages, EndDispatch, NotifyMainThread,
     ReceiveQueryCompletion, vars
<1>3. ASSUME NEW q \in Query, DispatchWorkerMessage(q) PROVE ReportInv'
  <2> DEFINE g == GetLeastLoadedWorker
  <2>1. g \in Worker /\ queue' = [queue EXCEPT ![g] = Append(@, q)] /\ inbox' = inbox
    BY <1>3, LeastLoaded DEF TypeOK, DispatchWorkerMessage
  <2> HIDE DEF g
  <2>2. ASSUME NEW w \in Worker, queue[w] # << >>
        PROVE  queue'[w] # << >> /\ Head(queue'[w]) = Head(queue[w])
    <3>1. queue[w] \in Seq(Query \cup {Poison})
      BY <1>0
    <3>2. Append(queue[w], q) # << >> /\ Head(Append(queue[w], q)) = Head(queue[w])
      BY SMTT(30), <2>2, <3>1
    <3>3. queue'[w] = queue[w] \/ queue'[w] = Append(queue[w], q)
      BY <1>0, <2>1
    <3>4. QED BY <2>2, <3>2, <3>3
  <2>3. ASSUME NEW i \in DOMAIN inbox', Report(i)' PROVE Later(i)' \/ Runs(i)'
    BY <1>a, <1>b, <2>1, <2>2, <2>3
  <2>4. QED BY <2>3 DEF ReportInv
<1>4. ASSUME NEW w \in Worker, NEW type \in {"NewBlock", "DataPipeline"}, ReportBlock(w, type)
      PROVE  ReportInv'
  <2> DEFINE m == [type |-> type, query |-> Head(queue[w]), worker |-> w]
  <2>1. Send(m) /\ queue' = queue /\ queue[w] # << >>
    BY <1>4 DEF ReportBlock
  <2>2. ASSUME NEW i \in DOMAIN inbox', Report(i)' PROVE Later(i)' \/ Runs(i)'
    <3>1. CASE i \in DOMAIN inbox
      <4>1. inbox'[i] = inbox[i]
        BY <1>0, <2>1, <3>1, Sent
      <4>2. QED BY <1>a, <1>e, <2>1, <2>2, <3>1, <4>1
    <3>2. CASE inbox'[i] = m
      BY SMTT(30), <2>1, <3>2
    <3>3. QED BY <1>0, <2>1, <3>1, <3>2, Sent
  <2>3. QED BY <2>2 DEF ReportInv
<1>5. ASSUME NEW w \in Worker, SendWorkOrderComplete(w) PROVE ReportInv'
  <2> DEFINE m == [type |-> "Complete", query |-> Head(queue[w]), worker |-> w]
             n == Len(inbox) + 1
  <2>1. Send(m) /\ queue' = [queue EXCEPT ![w] = Tail(@)]
    BY <1>5 DEF SendWorkOrderComplete
  <2>2. n \in Nat /\ n \in DOMAIN inbox' /\ inbox'[n] = m
    BY <1>0, <2>1, Sent
  <2>3. ASSUME NEW i \in DOMAIN inbox', Report(i)' PROVE Later(i)' \/ Runs(i)'
    <3>1. i \in DOMAIN inbox /\ inbox'[i] = inbox[i] /\ i < n
      BY SMTT(30), <1>0, <2>1, <2>3, Sent
    <3>2. CASE Later(i)
      BY <1>e, <2>1, <3>1, <3>2
    <3>3. CASE Runs(i) /\ inbox[i].worker = w
      BY SMTT(30), <2>2, <3>1, <3>3
    <3>4. CASE Runs(i) /\ inbox[i].worker # w
      BY <1>0, <1>b, <2>1, <2>3, <3>1, <3>4
    <3>5. QED BY <1>a, <2>3, <3>1, <3>2, <3>3, <3>4
  <2>4. QED BY <2>3 DEF ReportInv
<1>6. CASE SubmitBatch
  <2>1. Send([type |-> "Admit", batch |-> submitted + 1]) /\ queue' = queue
    BY <1>6 DEF SubmitBatch
  <2>2. QED BY <1>f, <2>1
<1>7. CASE BroadcastPoison
  <2>1. Send([type |-> Poison]) /\ queue' = [w \in Worker |-> Append(queue[w], Poison)]
    BY <1>7 DEF BroadcastPoison
  <2>2. ASSUME NEW w \in Worker, queue[w] # << >>
        PROVE  queue'[w] # << >> /\ Head(queue'[w]) = Head(queue[w])
    <3>1. queue[w] \in Seq(Query \cup {Poison}) /\ queue'[w] = Append(queue[w], Poison)
      BY <1>0, <2>1
    <3>2. QED BY SMTT(30), <2>2, <3>1
  <2>3. [type |-> Poison].type \notin {"NewBlock", "DataPipeline"}
    BY DEF Poison
  <2>4. QED BY <1>f, <2>1, <2>2, <2>3
<1>8. QED BY <1>1, <1>2, <1>3, <1>4, <1>5, <1>6, <1>7
      DEF Next, ForemanStep, WorkerStep, MainStep, Terminated

(***************************************************************************)
(* Without queries there are no work orders and no reports.                *)
(***************************************************************************)
LEMMA Idle ==
    ASSUME TypeOK, OutstandingInv, AdmittedInv, ReportInv, ~HasQueries
    PROVE  /\ \A i \in DOMAIN inbox : inbox[i].type \in {"Admit", Poison}
           /\ \A w \in Worker : \A i \in DOMAIN queue[w] : queue[w][i] = Poison
<1>1. admitted = {}
  BY DEF HasQueries
<1>2. ASSUME NEW i \in DOMAIN inbox PROVE inbox[i].type \in {"Admit", Poison}
  <2>1. inbox[i] \in Message
    BY SMTT(30) DEF TypeOK
  <2>2. inbox[i].type \in {"Admit", "NewBlock", "DataPipeline", "Complete", Poison}
    BY <2>1, MessageKinds
  <2>3. QED BY <1>1, <2>2, OfAdmitted
<1>3. QED BY <1>1, <1>2, OfAdmitted

(***************************************************************************)
(* What the main thread knows while it waits and while it does not.        *)
(***************************************************************************)
BatchSent == Len(inbox) = 1 /\ Head(inbox).type = "Admit" /\ phase = "receive" /\ ~HasQueries
                /\ completions = 0
BatchRuns == /\ \A i \in DOMAIN inbox : inbox[i].type # "Admit"
             /\ phase # "receive" \/ HasQueries
             /\ completions = 0
BatchDone == inbox = << >> /\ phase = "receive" /\ ~HasQueries /\ completions = 1
NoBatch == /\ completions = 0 /\ ~HasQueries /\ phase \in {"receive", "stopped"}
           /\ inbox = << >> \/ inbox = <<[type |-> Poison]>>

(***************************************************************************)
(* The four places a batch can be in: sent, running, reported, none.       *)
(***************************************************************************)
LEMMA BatchCases ==
    BatchInv <=> \/ awaiting /\ ~Poisoned /\ (BatchSent \/ BatchRuns \/ BatchDone)
                 \/ ~awaiting /\ (Poisoned => submitted = Len(Batches)) /\ NoBatch
<1>1. CASE awaiting
  BY <1>1 DEF BatchInv, BatchSent, BatchRuns, BatchDone
<1>2. CASE ~awaiting
  BY <1>2 DEF BatchInv, NoBatch
<1>3. QED BY <1>1, <1>2

(***************************************************************************)
(* No one is poisoned by a step that sends no poison.                      *)
(***************************************************************************)
LEMMA PoisonedKept ==
    ASSUME ~Poisoned, phase' # "stopped",
           \A i \in DOMAIN inbox' : inbox'[i].type = Poison =>
              \E j \in DOMAIN inbox : inbox[j].type = Poison,
           \A w \in Worker : \A i \in DOMAIN queue'[w] : queue'[w][i] = Poison =>
              \E j \in DOMAIN queue[w] : queue[w][j] = Poison
    PROVE  ~Poisoned'
BY DEF Poisoned, ShutDown

(***************************************************************************)
(* A step of the foreman that reads a message or works on the queries, and *)
(* a step of a worker, keep the batch running.                             *)
(***************************************************************************)
LEMMA BatchGoesOn ==
    ASSUME TypeOK, awaiting, ~Poisoned, BatchRuns, awaiting' = awaiting, completions' = completions,
           phase' # "stopped", phase' # "receive" \/ HasQueries',
           \A i \in DOMAIN inbox' : inbox'[i].type \in {"Admit", Poison} =>
              \E j \in DOMAIN inbox : inbox[j].type = inbox'[i].type,
           \A w \in Worker : \A i \in DOMAIN queue'[w] : queue'[w][i] = Poison =>
              \E j \in DOMAIN queue[w] : queue[w][j] = Poison
    PROVE  BatchInv'
<1>1. ~Poisoned'
  BY PoisonedKept
<1>2. BatchRuns'
  BY DEF BatchRuns
<1>3. awaiting'
  OBVIOUS
<1>4. QED BY <1>1, <1>2, <1>3, BatchCases DEF BatchInv, BatchRuns

(***************************************************************************)
(* A step moves a batch on; the next is only sent after its report.        *)
(***************************************************************************)
LEMMA BatchStep ==
    ASSUME TypeOK, OutstandingInv, AdmittedInv, ReportInv, BatchInv, [Next]_vars
    PROVE  BatchInv'
<1>0. /\ inbox \in Seq(Message) /\ queue \in [Worker -> Seq(Query \cup {Poison})]
      /\ completions \in Nat /\ waiting \in Seq(Query)
  BY DEF TypeOK
<1>a. \/ awaiting /\ ~Poisoned /\ (BatchSent \/ BatchRuns \/ BatchDone)
      \/ ~awaiting /\ (Poisoned => submitted = Len(Batches)) /\ NoBatch
  BY BatchCases
<1>b. ASSUME inbox # << >> PROVE 1 \in DOMAIN inbox /\ Head(inbox) = inbox[1]
  BY SMTT(30), <1>0, <1>b
<1>c. ASSUME NEW type \in {"NewBlock", "DataPipeline", "Complete"}, Receive(type)
      PROVE  awaiting /\ ~Poisoned /\ BatchRuns
  BY SMTT(30), <1>a, <1>c DEF Receive, BatchSent, BatchDone, NoBatch, Poison
<1>d. ASSUME phase \notin {"receive", "stopped"} PROVE awaiting /\ ~Poisoned /\ BatchRuns
  BY <1>a, <1>d DEF BatchSent, BatchDone, NoBatch
<1>e. ASSUME inbox' = Tail(inbox), inbox # << >>, NEW i \in DOMAIN inbox'
      PROVE  \E j \in DOMAIN inbox : inbox[j].type = inbox'[i].type
  <2>1. i + 1 \in DOMAIN inbox /\ inbox'[i] = inbox[i + 1]
    BY SMTT(30), <1>0, <1>e
  <2>2. QED BY <2>1
<1>f. ASSUME NEW w \in Worker, queue[w] # << >>, Head(queue[w]) # Poison
      PROVE  awaiting /\ ~Poisoned /\ BatchRuns /\ HasQueries
  <2>1. queue[w] \in Seq(Query \cup {Poison})
    BY <1>0
  <2>2. 1 \in DOMAIN queue[w] /\ queue[w][1] # Poison
    BY SMTT(30), <1>f, <2>1
  <2>3. HasQueries
    BY <2>2, Idle
  <2>4. QED BY <1>a, <2>3 DEF BatchSent, BatchDone, NoBatch
<1> USE DEF queries, mainThread
<1>1. CASE AdmitQueries
  <2>1. Receive("Admit") /\ phase' = "collect" /\ queue' = queue /\ UNCHANGED mainThread
    BY <1>1 DEF AdmitQueries
  <2>2. inbox # << >> /\ Head(inbox).type = "Admit" /\ inbox' = Tail(inbox)
    BY <2>1 DEF Receive
  <2>3. awaiting /\ ~Poisoned /\ BatchSent
    BY SMTT(30), <1>a, <1>b, <2>2 DEF BatchRuns, BatchDone, NoBatch, Poison
  <2>4. DOMAIN inbox' = {}
    BY SMTT(30), <1>0, <2>2, <2>3 DEF BatchSent
  <2>5. ~Poisoned'
    BY <2>1, <2>3, <2>4, PoisonedKept
  <2>6. BatchRuns'
    BY <2>1, <2>3, <2>4 DEF BatchRuns, BatchSent
  <2>7. awaiting'
    BY <2>1, <2>3
  <2>8. QED BY <2>5, <2>6, <2>7 DEF BatchInv, BatchRuns
<1>2. ASSUME NEW type \in {"NewBlock", "DataPipeline", "Complete"}, Receive(type),
             phase' \in {"notify", "collect"}, queue' = queue, UNCHANGED mainThread
      PROVE  BatchInv'
  <2>1. awaiting /\ ~Poisoned /\ BatchRuns
    BY <1>c, <1>2
  <2>2. inbox # << >> /\ inbox' = Tail(inbox)
    BY <1>2 DEF Receive
  <2>3. \A i \in DOMAIN inbox' : \E j \in DOMAIN inbox : inbox[j].type = inbox'[i].type
    BY <1>e, <2>2
  <2>4. QED BY <1>2, <2>1, <2>3, BatchGoesOn
<1>3. CASE ProcessNewBlock \/ ProcessDataPipeline \/ ProcessComplete
  BY <1>2, <1>3 DEF ProcessNewBlock, ProcessDataPipeline, ProcessComplete
<1>4. CASE ProcessPoison
  <2>1. /\ inbox # << >> /\ Head(inbox).type = Poison /\ inbox' = Tail(inbox) /\ phase' = "stopped"
        /\ queue' = queue /\ UNCHANGED mainThread /\ UNCHANGED <<admitted, waiting>>
    BY <1>4 DEF ProcessPoison, Receive
  <2>2. Poisoned
    BY <1>b, <2>1 DEF Poisoned, ShutDown
  <2>3. ~awaiting /\ submitted = Len(Batches) /\ NoBatch
    BY <1>a, <2>2
  <2>4. inbox' = << >>
    <3>1. inbox = <<[type |-> Poison]>>
      BY <2>1, <2>3 DEF NoBatch
    <3>2. Tail(<<[type |-> Poison]>>) = << >>
      BY SMTT(30)
    <3>3. QED BY <2>1, <3>1, <3>2
  <2>5. NoBatch'
    BY <2>1, <2>3, <2>4 DEF NoBatch, HasQueries
  <2>6. ~awaiting' /\ submitted' = Len(Batches)
    BY <2>1, <2>3
  <2>7. QED BY <2>5, <2>6 DEF BatchInv, NoBatch
<1>5. ASSUME phase \notin {"receive", "stopped"}, phase' \notin {"receive", "stopped"},
             inbox' = inbox, queue' = queue, UNCHANGED mainThread
      PROVE  BatchInv'
  BY <1>d, <1>5, BatchGoesOn
<1>6. CASE SkipCollect \/ GetWorkerMessages \/ EndDispatch
  BY <1>5, <1>6 DEF SkipCollect, GetWorkerMessages, EndDispatch
<1>7. CASE NotifyMainThread
  <2>1. /\ phase = "notify" /\ phase' = "receive" /\ inbox' = inbox /\ queue' = queue
        /\ awaiting' = awaiting /\ UNCHANGED <<admitted, waiting>>
        /\ completions' = IF HasQueries THEN completions ELSE completions + 1
    BY <1>7 DEF NotifyMainThread
  <2>2. awaiting /\ ~Poisoned /\ BatchRuns /\ HasQueries' = HasQueries
    BY <1>d, <2>1 DEF HasQueries
  <2>3. CASE HasQueries
    BY <2>1, <2>2, <2>3, BatchGoesOn
  <2>4. CASE ~HasQueries
    <3>1. ASSUME NEW i \in DOMAIN inbox PROVE FALSE
      BY <2>2, <2>4, Idle DEF BatchRuns, Poisoned, ShutDown
    <3>2. inbox = << >>
      <4>1. 1 \notin DOMAIN inbox
        BY <3>1
      <4>2. QED BY SMTT(30), <1>0, <4>1
    <3>3. completions = 0 /\ completions' = 1
      BY SMTT(30), <2>1, <2>2, <2>4 DEF BatchRuns
    <3>4. BatchDone'
      BY <2>1, <2>2, <2>4, <3>2, <3>3 DEF BatchDone
    <3>5. ~Poisoned'
      BY <2>1, <2>2, PoisonedKept
    <3>6. awaiting'
      BY <2>1, <2>2
    <3>7. QED BY <3>4, <3>5, <3>6 DEF BatchInv, BatchDone
  <2>5. QED BY <2>3, <2>4
<1>8. ASSUME NEW q \in Query, DispatchWorkerMessage(q) PROVE BatchInv'
  <2> DEFINE g == GetLeastLoadedWorker
  <2>1. /\ g \in Worker /\ queue' = [queue EXCEPT ![g] = Append(@, q)] /\ inbox' = inbox
        /\ phase = "dispatch" /\ phase' = phase /\ UNCHANGED mainThread
    BY <1>8, LeastLoaded DEF TypeOK, DispatchWorkerMessage
  <2> HIDE DEF g
  <2>2. ASSUME NEW w \in Worker, NEW i \in DOMAIN queue'[w], queue'[w][i] = Poison
        PROVE  \E j \in DOMAIN queue[w] : queue[w][j] = Poison
    <3>1. queue[w] \in Seq(Query \cup {Poison}) /\ q # Poison
      BY <1>0, ForemanAssumption
    <3>2. queue'[w] = queue[w] \/ queue'[w] = Append(queue[w], q)
      BY <1>0, <2>1
    <3>3. i \in DOMAIN queue[w] /\ queue[w][i] = Poison
      BY SMTT(30), <2>2, <3>1, <3>2
    <3>4. QED BY <3>3
  <2>3. awaiting /\ ~Poisoned /\ BatchRuns
    BY <1>d, <2>1
  <2>4. QED BY <2>1, <2>2, <2>3, BatchGoesOn
<1>9. ASSUME NEW w \in Worker, queue[w] # << >>, Head(queue[w]) # Poison,
             NEW m, Send(m), m.type \notin {"Admit", Poison}, phase' = phase, UNCHANGED mainThread,
             UNCHANGED <<admitted, waiting>>,
             queue' = queue \/ queue' = [queue EXCEPT ![w] = Tail(@)]
      PROVE  BatchInv'
  <2>1. awaiting /\ ~Poisoned /\ BatchRuns /\ HasQueries
    BY <1>9, <1>f
  <2>2. phase' # "stopped" /\ HasQueries'
    BY <1>9, <2>1 DEF Poisoned, ShutDown, HasQueries
  <2>3. ASSUME NEW i \in DOMAIN inbox', inbox'[i].type \in {"Admit", Poison}
        PROVE  \E j \in DOMAIN inbox : inbox[j].type = inbox'[i].type
    <3>1. i \in DOMAIN inbox /\ inbox'[i] = inbox[i]
      BY <1>0, <1>9, <2>3, Sent
    <3>2. QED BY <3>1
  <2>4. ASSUME NEW v \in Worker, NEW i \in DOMAIN queue'[v], queue'[v][i] = Poison
        PROVE  \E j \in DOMAIN queue[v] : queue[v][j] = Poison
    <3>1. queue[v] \in Seq(Query \cup {Poison})
      BY <1>0
    <3>2. CASE queue'[v] = queue[v]
      BY <2>4, <3>2
    <3>3. CASE queue'[v] = Tail(queue[v]) /\ v = w
      <4>1. i + 1 \in DOMAIN queue[v] /\ queue[v][i + 1] = queue'[v][i]
        BY SMTT(30), <1>9, <3>1, <3>3
      <4>2. QED BY <2>4, <4>1
    <3>4. QED BY <1>0, <1>9, <3>2, <3>3
  <2>5. awaiting' = awaiting /\ completions' = completions
    BY <1>9
  <2>6. QED BY <2>1, <2>2, <2>3, <2>4, <2>5, BatchGoesOn
<1>10. ASSUME NEW w \in Worker, NEW type \in {"NewBlock", "DataPipeline"}, ReportBlock(w, type)
       PROVE  BatchInv'
  BY <1>9, <1>10 DEF ReportBlock, Poison
<1>11. ASSUME NEW w \in Worker, SendWorkOrderComplete(w) PROVE BatchInv'
  BY <1>9, <1>11 DEF SendWorkOrderComplete, Poison
<1>12. CASE SubmitBatch
  <2> DEFINE m == [type |-> "Admit", batch |-> submitted + 1]
  <2>1. /\ ~awaiting /\ submitted < Len(Batches) /\ Send(m) /\ awaiting' /\ completions' = completions
        /\ phase' = phase /\ UNCHANGED <<admitted, waiting, queue>>
    BY <1>12 DEF SubmitBatch
  <2>2. NoBatch /\ ~Poisoned
    BY SMTT(30), <1>a, <2>1, ForemanAssumption DEF TypeOK
  <2>3. inbox = << >> /\ phase = "receive"
    <3>1. inbox # <<[type |-> Poison]>>
      BY SMTT(30), <2>2 DEF Poisoned, ShutDown
    <3>2. QED BY <2>2, <3>1 DEF NoBatch, Poisoned, ShutDown
  <2>4. inbox' = <<m>> /\ m.type = "Admit"
    BY SMTT(30), <2>1, <2>3 DEF Send
  <2>5. BatchSent'
    BY SMTT(30), <2>1, <2>2, <2>3, <2>4 DEF BatchSent, NoBatch, HasQueries
  <2>6. ~Poisoned'
    BY SMTT(30), <2>1, <2>2, <2>3, <2>4, PoisonedKept DEF Poison
  <2>7. QED BY <2>1, <2>5, <2>6 DEF BatchInv, BatchSent
<1>13. CASE ReceiveQueryCompletion
  <2>1. /\ awaiting /\ completions > 0 /\ ~awaiting' /\ completions' = completions - 1
        /\ UNCHANGED <<phase, inbox, queue, admitted, waiting>>
    BY <1>13 DEF ReceiveQueryCompletion
  <2>2. ~Poisoned /\ BatchDone
    BY SMTT(30), <1>a, <2>1 DEF BatchSent, BatchRuns
  <2>3. NoBatch' /\ ~Poisoned'
    BY SMTT(30), <2>1, <2>2 DEF NoBatch, BatchDone, HasQueries, Poisoned, ShutDown
  <2>4. QED BY <2>1, <2>3 DEF BatchInv, NoBatch
<1>14. CASE BroadcastPoison
  <2>1. /\ ~awaiting /\ submitted = Len(Batches) /\ ~ShutDown /\ Send([type |-> Poison])
        /\ UNCHANGED <<phase, admitted, waiting, submitted, awaiting, completions>>
    BY <1>14 DEF BroadcastPoison
  <2>2. NoBatch
    BY <1>a, <2>1
  <2>3. inbox = << >>
    <3>1. inbox # <<[type |-> Poison]>>
      BY SMTT(30), <2>1 DEF ShutDown
    <3>2. QED BY <2>2, <3>1 DEF NoBatch
  <2>4. NoBatch'
    BY SMTT(30), <2>1, <2>2, <2>3 DEF NoBatch, HasQueries, Send
  <2>5. ~awaiting' /\ submitted' = Len(Batches)
    BY <2>1
  <2>6. QED BY <2>4, <2>5 DEF BatchInv, NoBatch
<1>15. CASE UNCHANGED vars
  BY <1>15 DEF BatchInv, Poisoned, ShutDown, HasQueries, vars
<1>16. QED BY <1>1, <1>3, <1>4, <1>6, <1>7, <1>8, <1>10, <1>11, <1>12, <1>13, <1>14, <1>15
       DEF Next, ForemanStep, WorkerStep, MainStep, Terminated

(***************************************************************************)
(* A step that leaves work orders in a query manager leaves a worker busy. *)
(***************************************************************************)
LEMMA WakeStep ==
    ASSUME TypeOK, AdmittedInv, WakeInv, [Next]_vars
    PROVE  WakeInv'
<1>0. /\ load \in [Worker -> Nat] /\ pending \in [Query -> Nat] /\ admitted \in SUBSET Query
      /\ newMessages \in [Query -> Nat] /\ MinLoad \in Nat /\ 0 \in Worker
  BY SMTT(30), ForemanAssumption DEF TypeOK, Worker
<1> USE DEF queries, mainThread
<1>1. CASE AdmitQueries \/ ProcessDataPipeline \/ ProcessComplete \/ ProcessPoison
  BY <1>1 DEF WakeInv, AdmitQueries, ProcessDataPipeline, ProcessComplete, ProcessPoison
<1>2. CASE ProcessNewBlock \/ NotifyMainThread \/ ReceiveQueryCompletion \/ SubmitBatch
           \/ BroadcastPoison \/ UNCHANGED vars
  BY <1>2 DEF WakeInv, ProcessNewBlock, Receive, NotifyMainThread, ReceiveQueryCompletion,
     SubmitBatch, BroadcastPoison, vars
<1>3. CASE SkipCollect
  <2>1. LeastLoad \in Nat /\ LeastLoad > MinLoad /\ load' = load
    BY SMTT(30), <1>0, <1>3, LeastLoaded DEF SkipCollect, CanCollectNewMessages
  <2>2. load[0] > 0
    BY SMTT(30), <1>0, <2>1, LeastLoaded
  <2>3. QED BY <1>0, <2>1, <2>2 DEF WakeInv, SkipCollect
<1>4. CASE GetWorkerMessages
  <2>1. /\ admitted' \subseteq admitted /\ phase' = "dispatch"
        /\ \A q \in Query :
             /\ pending'[q] = pending[q] - newMessages'[q]
             /\ newMessages'[q] = IF q \notin admitted THEN 0
                  ELSE IF pending[q] < PerQueryShare THEN pending[q] ELSE PerQueryShare
    BY <1>4 DEF GetWorkerMessages, Unfinished
  <2>2. ASSUME NEW q \in admitted', pending'[q] > 0 PROVE newMessages'[q] > 0
    <3>1. q \in admitted /\ q \in Query
      BY <1>0, <2>1
    <3>2. PerQueryShare \in Nat /\ PerQueryShare >= 1
      BY <3>1, Share
    <3>3. QED BY SMTT(30), <1>0, <2>1, <2>2, <3>1, <3>2
  <2>3. QED BY <1>0, <2>1, <2>2 DEF WakeInv
<1>5. ASSUME NEW q \in Query, DispatchWorkerMessage(q) PROVE WakeInv'
  <2> DEFINE g == GetLeastLoadedWorker
  <2>1. g \in Worker /\ load' = [load EXCEPT ![g] = @ + 1] /\ phase' = "dispatch"
    BY <1>0, <1>5, LeastLoaded DEF DispatchWorkerMessage
  <2> HIDE DEF g
  <2>2. load'[g] > 0
    BY SMTT(30), <1>0, <2>1
  <2>3. QED BY <2>1, <2>2 DEF WakeInv
<1>6. CASE EndDispatch
  BY SMTT(30), <1>0, <1>6 DEF WakeInv, EndDispatch
<1>7. ASSUME NEW w \in Worker,
             SendWorkOrderComplete(w) \/ \E type \in {"NewBlock", "DataPipeline"} : ReportBlock(w, type)
      PROVE  WakeInv'
  BY <1>7 DEF WakeInv, SendWorkOrderComplete, ReportBlock
<1>8. QED BY <1>1, <1>2, <1>3, <1>4, <1>5, <1>6, <1>7
      DEF Next, ForemanStep, WorkerStep, MainStep, Terminated

(***************************************************************************)
(* The invariant holds when the foreman starts.                            *)
(***************************************************************************)
LEMMA ForemanInit == Init => ForemanInv
<1> SUFFICES ASSUME Init PROVE ForemanInv
  OBVIOUS
<1>1. TypeOK
  <2>1. Len(Batches) \in Nat /\ MaxWork \in Nat
    BY SMTT(30), ForemanAssumption
  <2>2. << >> \in Seq(Message) /\ << >> \in Seq(Query) /\ << >> \in Seq(Query \cup {Poison})
    BY SMTT(30)
  <2>3. toGenerate \in [Query -> Nat] /\ pending \in [Query -> Nat]
        /\ outstanding \in [Query -> Nat] /\ newMessages \in [Query -> Nat]
    BY <2>1 DEF Init
  <2>4. load \in [Worker -> Nat] /\ queue \in [Worker -> Seq(Query \cup {Poison})]
        /\ blocks \in [Query -> Nat]
    BY <2>2 DEF Init
  <2>5. submitted \in 0 .. Len(Batches) /\ completions \in Nat
    BY SMTT(30), <2>1 DEF Init
  <2>a. awaiting \in BOOLEAN
    BY DEF Init
  <2>6. inbox \in Seq(Message) /\ waiting \in Seq(Query) /\ admitted \in SUBSET Query
        /\ phase \in {"receive", "collect", "dispatch", "notify", "stopped"}
    BY <2>2 DEF Init
  <2>7. QED BY <2>3, <2>4, <2>5, <2>a, <2>6 DEF TypeOK
<1>2. LoadInv
  BY SMTT(30), CountEmpty DEF Init, LoadInv
<1>3. OutstandingInv
  <2>1. ASSUME NEW q \in Query PROVE IsFiniteSet(Places(queue, {q})) /\ Total(queue, {q}) = 0
    <3>1. Places(queue, {q}) = {}
      BY SMTT(30) DEF Init, Places
    <3>2. QED BY <3>1, FS_EmptySet DEF Total
  <2>2. QED BY SMTT(30), <2>1, CountEmpty DEF Init, OutstandingInv
<1>4. AdmittedInv
  <2>1. IsFiniteSet({}) /\ Cardinality({}) = 0
    BY FS_EmptySet
  <2>2. QED BY SMTT(30), <2>1, ForemanAssumption DEF Init, AdmittedInv
<1>5. ReportInv
  BY SMTT(30) DEF Init, ReportInv
<1>6. BatchInv
  BY SMTT(30) DEF Init, BatchInv, Poisoned, ShutDown, HasQueries
<1>7. WakeInv
  BY DEF Init, WakeInv
<1>8. QED BY <1>1, <1>2, <1>3, <1>4, <1>5, <1>6, <1>7 DEF ForemanInv

-----------------------------------------------------------------------------
(***************************************************************************)
(* The foreman's state and what is on its way to and from the workers stay *)
(* consistent, for any number of workers and queries and in every          *)
(* interleaving of the threads.                                            *)
(***************************************************************************)
THEOREM ForemanCorrect == Spec => []ForemanInv
<1>1. Init => ForemanInv
  BY ForemanInit
<1>2. ForemanInv /\ [Next]_vars => ForemanInv'
  <2> SUFFICES ASSUME ForemanInv, [Next]_vars PROVE ForemanInv'
    OBVIOUS
  <2>1. TypeOK /\ LoadInv /\ OutstandingInv /\ AdmittedInv /\ ReportInv /\ BatchInv /\ WakeInv
    BY DEF ForemanInv
  <2>2. TypeOK' /\ LoadInv' /\ OutstandingInv'
    BY <2>1, TypeStep, LoadStep, OutstandingStep
  <2>3. AdmittedInv' /\ ReportInv'
    BY <2>1, AdmittedStep, ReportStep
  <2>4. BatchInv' /\ WakeInv'
    BY <2>1, BatchStep, WakeStep
  <2>5. QED BY <2>2, <2>3, <2>4 DEF ForemanInv
<1>3. QED BY <1>1, <1>2, PTL DEF Spec

(***************************************************************************)
(* No counter of the foreman, all of them unsigned in the code, ever falls *)
(* below zero.                                                             *)
(***************************************************************************)
THEOREM ForemanTypeCorrect == Spec => []TypeOK
<1>1. ForemanInv => TypeOK
  BY DEF ForemanInv
<1>2. QED BY <1>1, ForemanCorrect, PTL

(***************************************************************************)
(* What the invariant counts at a worker is its load.                      *)
(***************************************************************************)
LEMMA LoadFollows == ForemanInv => LoadExact
<1> SUFFICES ASSUME ForemanInv, NEW w \in Worker
             PROVE  load[w] = Cardinality(WorkOrdersAt(w)) + Cardinality(CompletesOf(w))
  BY DEF LoadExact
<1>1. inbox \in Seq(Message) /\ queue[w] \in Seq(Query \cup {Poison})
  BY DEF ForemanInv, TypeOK
<1>2. WorkOrdersAt(w) = Positions(queue[w], Query)
  BY SMTT(30), <1>1, ForemanAssumption DEF WorkOrdersAt, Positions
<1>3. \A i \in DOMAIN inbox :
         inbox[i] \in CompleteBy(w) <=> inbox[i].type = "Complete" /\ inbox[i].worker = w
  BY SMTT(30), <1>1, MessageKinds DEF CompleteBy
<1>4. CompletesOf(w) = Positions(inbox, CompleteBy(w))
  BY <1>3 DEF CompletesOf, Positions
<1>5. QED BY <1>2, <1>4 DEF ForemanInv, LoadInv, Count

(***************************************************************************)
(* num_queued_workorders_ of a worker is always the number of its work     *)
(* orders plus the completions the foreman has yet to read.                *)
(***************************************************************************)
THEOREM LoadsAreExact == Spec => []LoadExact
BY LoadFollows, ForemanCorrect, PTL

(***************************************************************************)
(* No message and no work order of a removed query is anywhere.            *)
(***************************************************************************)
THEOREM OnlyAdmittedQueries == Spec => []MessagesOfAdmittedQueries
<1>1. ForemanInv => MessagesOfAdmittedQueries
  BY OfAdmitted DEF ForemanInv, MessagesOfAdmittedQueries, WorkOrdersAt
<1>2. QED BY <1>1, ForemanCorrect, PTL

(***************************************************************************)
(* When the main thread is told that its queries are done, nothing of them *)
(* is left, and it is told so once.                                        *)
(***************************************************************************)
THEOREM CompletionIsQuiescent == Spec => []CompletionMeansQuiescent
<1>1. ForemanInv => CompletionMeansQuiescent
  <2> SUFFICES ASSUME ForemanInv, completions > 0
               PROVE  /\ completions = 1 /\ awaiting /\ ~HasQueries /\ inbox = << >>
                      /\ \A w \in Worker : queue[w] = << >> /\ load[w] = 0
    BY DEF CompletionMeansQuiescent
  <2>1. TypeOK /\ LoadInv /\ OutstandingInv /\ AdmittedInv /\ ReportInv /\ BatchInv
    BY DEF ForemanInv
  <2>2. awaiting /\ ~Poisoned /\ BatchDone
    BY SMTT(30), <2>1, BatchCases DEF BatchSent, BatchRuns, NoBatch
  <2>3. completions = 1 /\ ~HasQueries /\ inbox = << >>
    BY <2>2 DEF BatchDone
  <2>4. ASSUME NEW w \in Worker PROVE queue[w] = << >> /\ load[w] = 0
    <3>1. \A i \in DOMAIN queue[w] : queue[w][i] = Poison /\ queue[w][i] # Poison
      BY <2>1, <2>2, <2>3, Idle DEF Poisoned
    <3>2. queue[w] \in Seq(Query \cup {Poison}) /\ 1 \notin DOMAIN queue[w]
      BY <2>1, <3>1 DEF TypeOK
    <3>3. queue[w] = << >>
      BY SMTT(30), <3>2
    <3>4. QED BY SMTT(30), <2>1, <2>3, <3>3, CountEmpty DEF LoadInv
  <2>5. QED BY <2>2, <2>3, <2>4
<1>2. QED BY <1>1, ForemanCorrect, PTL

(***************************************************************************)
(* The foreman never sleeps on work orders that nobody will wake it for.   *)
(***************************************************************************)
THEOREM WorkIsNotForgotten == Spec => []NoWorkForgotten
<1>1. ForemanInv => NoWorkForgotten
  <2> SUFFICES ASSUME ForemanInv, phase = "receive", inbox = << >>, \E q \in admitted : pending[q] > 0
               PROVE  \E w \in Worker : queue[w] # << >>
    BY DEF NoWorkForgotten
  <2>1. PICK w \in Worker : load[w] > 0
    BY DEF ForemanInv, WakeInv
  <2>2. load[w] = Count(queue[w], Query) + 0
    BY SMTT(30), CountEmpty DEF ForemanInv, LoadInv
  <2>3. queue[w] # << >>
    BY SMTT(30), <2>1, <2>2, CountEmpty
  <2>4. QED BY <2>3
<1>2. QED BY <1>1, ForemanCorrect, PTL

=============================================================================
