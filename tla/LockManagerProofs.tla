-------------------------- MODULE LockManagerProofs -------------------------
(* Proofs about LockManager for every set of transactions, resources and       *)
(* requests.                                                                   *)
EXTENDS LockManager, SequenceCounts

USE ZenonT(60)

Step == [rid : Rid, mode : Mode]

(* kLockCompatibilityMatrix is symmetric, so it does not matter which of two   *)
(* locks was there first.                                                      *)
LEMMA CompatibilitySymmetric ==
  ASSUME NEW m \in Mode, NEW n \in Mode, n \in CompatibleModes(m)
  PROVE  m \in CompatibleModes(n)
BY DEF CompatibleModes, Mode

(* The intention mode of an access mode is an access mode. *)
LEMMA IntentionModeType ==
  ASSUME NEW m \in Mode
  PROVE  IntentionMode(m) \in Mode
BY DEF IntentionMode, Mode

(* acquireLock() puts at least one lock on its stack, each on a resource. *)
LEMMA LockPathType ==
  ASSUME NEW r \in Request
  PROVE  LockPath(r) \in Seq(Step) \ {<< >>}
<1>1. r.rid \in Rid /\ r.mode \in Mode
  BY DEF Request
<1>2. r.rid \in Seq(Nat) /\ Len(r.rid) \in Nat \ {0}
  BY SMTT(30), <1>1, LockAssumption
<1>3. \A i \in 1 .. Len(r.rid) : SubSeq(r.rid, 1, i) \in Rid
  BY <1>1, LockAssumption
<1>4. \A i \in 1 .. Len(r.rid) :
        (IF i = Len(r.rid) THEN r.mode ELSE IntentionMode(r.mode)) \in Mode
  BY <1>1, IntentionModeType
<1>5. LockPath(r) \in [1 .. Len(r.rid) -> Step]
  BY <1>3, <1>4 DEF LockPath, Step
<1>6. LockPath(r) \in Seq(Step) /\ Len(LockPath(r)) = Len(r.rid)
  BY SMTT(30), <1>2, <1>5
<1> QED
  BY <1>2, <1>6

(* The elements of a concatenation. *)
LEMMA ConcatElements ==
  ASSUME NEW S, NEW a \in Seq(S), NEW b \in Seq(S)
  PROVE  /\ a \o b \in Seq(S) /\ Len(a \o b) = Len(a) + Len(b)
         /\ \A k \in 1 .. Len(a) + Len(b) :
              (a \o b)[k] = IF k <= Len(a) THEN a[k] ELSE b[k - Len(a)]
<1>1. /\ a \o b \in Seq(S) /\ Len(a \o b) = Len(a) + Len(b)
      /\ \A k \in 1 .. Len(a) : (a \o b)[k] = a[k]
      /\ \A k \in Len(a) + 1 .. Len(a) + Len(b) : (a \o b)[k] = b[k - Len(a)]
      /\ Len(a) \in Nat /\ Len(b) \in Nat
  BY SMTT(30)
<1>2. QED BY SMTT(30), <1>1

(* Removing an entry of a list keeps the others in their order. *)
LEMMA RemoveAtElements ==
  ASSUME NEW S, NEW s \in Seq(S), NEW i \in DOMAIN s
  PROVE  /\ RemoveAt(s, i) \in Seq(S)
         /\ Len(RemoveAt(s, i)) = Len(s) - 1
         /\ \A k \in 1 .. Len(s) - 1 : RemoveAt(s, i)[k] = IF k < i THEN s[k] ELSE s[k + 1]
<1>1. SubSeq(s, 1, i - 1) \in Seq(S) /\ Len(SubSeq(s, 1, i - 1)) = i - 1
  BY SMTT(30)
<1>2. SubSeq(s, i + 1, Len(s)) \in Seq(S) /\ Len(SubSeq(s, i + 1, Len(s))) = Len(s) - i
  BY SMTT(30)
<1>3. /\ RemoveAt(s, i) \in Seq(S)
      /\ Len(RemoveAt(s, i)) = (i - 1) + (Len(s) - i)
      /\ \A k \in 1 .. (i - 1) + (Len(s) - i) :
           RemoveAt(s, i)[k] = IF k <= i - 1 THEN SubSeq(s, 1, i - 1)[k]
                                             ELSE SubSeq(s, i + 1, Len(s))[k - (i - 1)]
  <2> DEFINE a == SubSeq(s, 1, i - 1)
             b == SubSeq(s, i + 1, Len(s))
  <2>1. a \in Seq(S) /\ b \in Seq(S) /\ Len(a) = i - 1 /\ Len(b) = Len(s) - i
    BY <1>1, <1>2
  <2>2. RemoveAt(s, i) = a \o b
    BY DEF RemoveAt
  <2> HIDE DEF a, b
  <2>3. /\ a \o b \in Seq(S)
        /\ Len(a \o b) = Len(a) + Len(b)
        /\ \A k \in 1 .. Len(a) + Len(b) :
             (a \o b)[k] = IF k <= Len(a) THEN a[k] ELSE b[k - Len(a)]
    BY <2>1, ConcatElements
  <2>4. /\ a \o b \in Seq(S)
        /\ Len(a \o b) = (i - 1) + (Len(s) - i)
        /\ \A k \in 1 .. (i - 1) + (Len(s) - i) :
             (a \o b)[k] = IF k <= i - 1 THEN a[k] ELSE b[k - (i - 1)]
    BY <2>1, <2>3
  <2> QED
    BY <2>2, <2>4 DEF a, b
<1>4. ASSUME NEW k \in 1 .. Len(s) - 1
      PROVE  RemoveAt(s, i)[k] = IF k < i THEN s[k] ELSE s[k + 1]
  <2>1. CASE k < i
    <3>1. RemoveAt(s, i)[k] = SubSeq(s, 1, i - 1)[k]
      BY SMTT(30), <1>3, <2>1
    <3>2. SubSeq(s, 1, i - 1)[k] = s[k]
      BY SMTT(30), <2>1
    <3> QED
      BY <2>1, <3>1, <3>2
  <2>2. CASE ~(k < i)
    <3>1. RemoveAt(s, i)[k] = SubSeq(s, i + 1, Len(s))[k - (i - 1)]
      BY SMTT(30), <1>3, <2>2
    <3>2. SubSeq(s, i + 1, Len(s))[k - (i - 1)] = s[k + 1]
      BY SMTT(30), <2>2
    <3> QED
      BY <2>2, <3>1, <3>2
  <2> QED
    BY <2>1, <2>2
<1> QED
  BY SMTT(30), <1>3, <1>4

(* The initial state is well typed. *)
LEMMA TypeInit == Init => TypeOK
BY SMTT(30), LockAssumption DEF Init, TypeOK, Calls, NoCall

(* What acquireLock() works on while it runs. *)
LEMMA AcquireCall ==
  ASSUME call \in Calls, call.kind = "acquire"
  PROVE  /\ call.request \in Request
         /\ call.todo \in Seq(Step) \ {<< >>}
         /\ call = [kind |-> "acquire", request |-> call.request, todo |-> call.todo]
BY SMTT(30) DEF Calls, NoCall, Step

(* What releaseAllLocks() works on while it runs. *)
LEMMA ReleaseCall ==
  ASSUME call \in Calls, call.kind = "release"
  PROVE  /\ call.tid \in Tid
         /\ call.todo \in Seq(Rid)
         /\ call = [kind |-> "release", tid |-> call.tid, todo |-> call.todo]
BY SMTT(30) DEF Calls, NoCall

(* acquireLock() starts with a call on a path. *)
LEMMA StartAcquireType ==
  ASSUME NEW r \in Request, StartAcquire(r)
  PROVE  call' \in Calls
BY LockPathType DEF StartAcquire, Calls, Step

(* releaseAllLocks() starts with the transaction's resources. *)
LEMMA StartReleaseType ==
  ASSUME TypeOK, NEW t \in Tid, StartRelease(t)
  PROVE  call' \in Calls /\ held' \in [Tid -> Seq(Rid)] /\ awaited' \in [Tid -> Seq(Rid)]
<1>1. awaited[t] \o held[t] \in Seq(Rid)
  BY SMTT(30) DEF TypeOK
<1>2. call' \in Calls
  BY <1>1 DEF StartRelease, Calls
<1> QED
  BY SMTT(30), <1>2 DEF StartRelease, TypeOK

(* A step of acquireLock() leaves a call on the rest of the path, or none. *)
LEMMA GoOnType ==
  ASSUME TypeOK, FrontRetried, call.kind = "acquire", GoOn
  PROVE  call' \in Calls /\ inner' \in Seq(Request) /\ permitted' \in SUBSET Request
<1>1. /\ call.request \in Request /\ call.todo \in Seq(Step) \ {<< >>}
      /\ call = [kind |-> "acquire", request |-> call.request, todo |-> call.todo]
  BY AcquireCall DEF TypeOK
<1>2. CASE Len(call.todo) = 1
  <2>1. Permit
    BY <1>2 DEF GoOn
  <2>2. inner' \in Seq(Request)
    BY SMTT(30), <2>1 DEF Permit, TypeOK, FrontRetried
  <2> QED
    BY <1>1, <2>1, <2>2 DEF Permit, TypeOK, Calls
<1>3. CASE Len(call.todo) # 1
  <2>1. Tail(call.todo) \in Seq(Step) /\ Len(Tail(call.todo)) = Len(call.todo) - 1
    BY SMTT(30), <1>1
  <2>2. Len(call.todo) - 1 # 0
    BY SMTT(30), <1>1, <1>3
  <2>3. Tail(call.todo) \in Seq(Step) \ {<< >>}
    BY <2>1, <2>2
  <2>4. call' = [kind |-> "acquire", request |-> call.request, todo |-> Tail(call.todo)]
    BY <1>1, <1>3 DEF GoOn
  <2>5. call' \in Calls
    BY <1>1, <2>3, <2>4 DEF Calls, Step
  <2> QED
    BY <1>3, <2>5 DEF GoOn, TypeOK
<1> QED
  BY <1>2, <1>3

(* A request that has to wait is queued once. *)
LEMMA PostponeType ==
  ASSUME TypeOK, call.kind = "acquire", Postpone
  PROVE  call' \in Calls /\ inner' \in Seq(Request) /\ permitted' \in SUBSET Request
<1>1. call.request \in Request
  BY AcquireCall DEF TypeOK
<1> QED
  BY SMTT(30), <1>1 DEF Postpone, TypeOK, Calls

(* putLock() and the TransactionTable's put operations keep both tables well   *)
(* typed.                                                                      *)
LEMMA PlaceType ==
  ASSUME TypeOK, NEW t \in Tid, NEW r \in Rid, NEW m \in Mode,
         PlaceInOwned(t, r, m) \/ PlaceInPending(t, r, m)
  PROVE  /\ own' \in [Rid -> Seq(Entry)] /\ pending' \in [Rid -> Seq(Entry)]
         /\ held' \in [Tid -> Seq(Rid)] /\ awaited' \in [Tid -> Seq(Rid)]
<1>1. [tid |-> t, mode |-> m] \in Entry
  BY DEF Entry
<1>2. CASE PlaceInOwned(t, r, m)
  BY SMTT(30), <1>1, <1>2 DEF PlaceInOwned, TypeOK
<1>3. CASE PlaceInPending(t, r, m)
  BY SMTT(30), <1>1, <1>3 DEF PlaceInPending, TypeOK
<1> QED
  BY <1>2, <1>3

(* deleteLock() keeps the lock table well typed. *)
LEMMA DeleteLockType ==
  ASSUME TypeOK, NEW t \in Tid, NEW r \in Rid, DeleteLock(t, r)
  PROVE  /\ own' \in [Rid -> Seq(Entry)] /\ pending' \in [Rid -> Seq(Entry)]
         /\ fault' \in {"none", "hang", "check", "graph"}
<1>1. own[r] \in Seq(Entry) /\ pending[r] \in Seq(Entry)
  BY DEF TypeOK
<1>2. /\ \A i \in DOMAIN own[r] : RemoveAt(own[r], i) \in Seq(Entry)
      /\ \A i \in DOMAIN pending[r] : RemoveAt(pending[r], i) \in Seq(Entry)
  BY <1>1, RemoveAtElements
<1>3. fault' \in {"none", "hang", "check", "graph"}
  BY DEF DeleteLock, MovePendingToOwned, TypeOK
<1>4. own' = own \/ \E i \in DOMAIN own[r] : own' = [own EXCEPT ![r] = RemoveAt(own[r], i)]
  BY DEF DeleteLock, lockTable
<1>5. \/ pending' = pending
      \/ \E i \in DOMAIN pending[r] : pending' = [pending EXCEPT ![r] = RemoveAt(pending[r], i)]
  BY DEF DeleteLock, lockTable
<1>6. own' \in [Rid -> Seq(Entry)]
  BY <1>2, <1>4 DEF TypeOK
<1>7. pending' \in [Rid -> Seq(Entry)]
  BY <1>2, <1>5 DEF TypeOK
<1> QED
  BY <1>3, <1>6, <1>7

-----------------------------------------------------------------------------
(* Type correctness, together with FrontRetried, which a retry needs so that   *)
(* popping inner_pending_requests_ is defined.                                 *)
TypeInvariant == TypeOK /\ FrontRetried

(* The initial state satisfies the invariant. *)
LEMMA TypeInvariantInit == Init => TypeInvariant
BY TypeInit DEF TypeInvariant, FrontRetried, Init, NoCall

(* The loop over incoming_requests_ preserves the invariant. *)
LEMMA PollIncomingInvariant ==
  ASSUME TypeInvariant, PollIncoming
  PROVE  TypeInvariant'
<1> USE DEF TypeInvariant
<1>1. tries' \in 0 .. kMaxTry
  BY SMTT(30), LockAssumption DEF PollIncoming, TriesLeft, TypeOK
<1>2. incoming' \in Seq(Request \cup [tid : Tid, type : {ReleaseLocks}])
  <2> DEFINE M == Request \cup [tid : Tid, type : {ReleaseLocks}]
  <2>1. incoming \in Seq(M)
    BY DEF TypeOK
  <2>2. incoming' = incoming \/ (incoming # << >> /\ incoming' = Tail(incoming))
    BY DEF PollIncoming, transactions
  <2> HIDE DEF M
  <2>3. incoming' \in Seq(M)
    BY SMTT(30), <2>1, <2>2
  <2> QED
    BY <2>3 DEF M
<1>3. call' \in Calls /\ held' \in [Tid -> Seq(Rid)] /\ awaited' \in [Tid -> Seq(Rid)]
  <2>1. CASE incoming = << >>
    BY <2>1 DEF PollIncoming, TypeOK, transactions
  <2>2. CASE incoming # << >> /\ Head(incoming) \in Request
    <3>1. StartAcquire(Head(incoming)) /\ UNCHANGED transactions
      BY <2>2 DEF PollIncoming
    <3> QED
      BY <2>2, <3>1, StartAcquireType DEF TypeOK, transactions
  <2>3. CASE incoming # << >> /\ Head(incoming) \notin Request
    <3>1. Head(incoming) \in [tid : Tid, type : {ReleaseLocks}]
      BY SMTT(30), <2>3 DEF TypeOK
    <3>2. Head(incoming).tid \in Tid
      BY <3>1
    <3>3. StartRelease(Head(incoming).tid)
      BY <2>3 DEF PollIncoming
    <3> QED
      BY <3>2, <3>3, StartReleaseType
  <2> QED
    BY <2>1, <2>2, <2>3
<1>4. TypeOK'
  BY <1>1, <1>2, <1>3
     DEF PollIncoming, TypeOK, lockTable, detection, clients
<1>5. FrontRetried'
  BY DEF PollIncoming, Ready, FrontRetried
<1> QED
  BY <1>4, <1>5

(* The loop over inner_pending_requests_ preserves the invariant. *)
LEMMA PollInnerInvariant ==
  ASSUME TypeInvariant, PollInner
  PROVE  TypeInvariant'
<1> USE DEF TypeInvariant
<1>1. tries' \in 0 .. kMaxTry
  BY SMTT(30), LockAssumption DEF PollInner, TriesLeft, TypeOK
<1>2. call' \in Calls
  <2>1. CASE inner = << >>
    BY <2>1 DEF PollInner, TypeOK
  <2>2. CASE inner # << >>
    <3>1. FrontRequest \in Request
      BY SMTT(30), <2>2 DEF TypeOK, FrontRequest
    <3>2. StartAcquire(FrontRequest)
      BY <2>2 DEF PollInner
    <3> QED
      BY <3>1, <3>2, StartAcquireType
  <2> QED
    BY <2>1, <2>2
<1>3. TypeOK'
  BY <1>1, <1>2
     DEF PollInner, TypeOK, lockTable, transactions, queues, detection, clients
<1>4. FrontRetried'
  BY SMTT(30) DEF PollInner, Ready, FrontRetried, FrontRequest, StartAcquire, queues, NoCall
<1> QED
  BY <1>3, <1>4

(* acquireLockInternal() and what follows it preserve the invariant. *)
LEMMA AcquireLockInvariant ==
  ASSUME TypeInvariant, AcquireLock
  PROVE  TypeInvariant'
<1> USE DEF TypeInvariant
<1> DEFINE t == call.request.tid
           r == Head(call.todo).rid
           m == Head(call.todo).mode
<1>1. call.kind = "acquire"
  BY DEF AcquireLock, Acquiring
<1>2. call.request \in Request /\ call.todo \in Seq(Step) /\ call.todo # << >>
  BY <1>1, AcquireCall DEF TypeOK
<1>3. Head(call.todo) \in Step
  BY SMTT(30), <1>2
<1>4. t \in Tid /\ r \in Rid /\ m \in Mode
  BY <1>2, <1>3 DEF Request, Step
<1>5. /\ \/ UNCHANGED <<lockTable, transactions>>
         \/ PlaceInOwned(t, r, m) \/ PlaceInPending(t, r, m)
      /\ GoOn \/ Postpone
      /\ UNCHANGED <<incoming, loop, tries, toKill, status, victims, detection, clients,
                     killed, fault>>
  BY DEF AcquireLock
<1> HIDE DEF t, r, m
<1>6. /\ own' \in [Rid -> Seq(Entry)] /\ pending' \in [Rid -> Seq(Entry)]
      /\ held' \in [Tid -> Seq(Rid)] /\ awaited' \in [Tid -> Seq(Rid)]
  <2>1. CASE UNCHANGED <<lockTable, transactions>>
    BY <2>1 DEF TypeOK, lockTable, transactions
  <2>2. CASE PlaceInOwned(t, r, m) \/ PlaceInPending(t, r, m)
    BY <1>4, <2>2, PlaceType
  <2> QED
    BY <1>5, <2>1, <2>2
<1>7. call' \in Calls /\ inner' \in Seq(Request) /\ permitted' \in SUBSET Request
  BY <1>1, <1>5, GoOnType, PostponeType
<1>8. TypeOK'
  BY <1>5, <1>6, <1>7 DEF TypeOK, detection, clients
<1>9. FrontRetried'
  <2>1. CASE call' = NoCall
    BY <2>1 DEF FrontRetried, NoCall
  <2>2. CASE call' # NoCall
    <3>1. call' = [call EXCEPT !.todo = Tail(@)] /\ UNCHANGED inner
      BY <1>5, <2>2 DEF GoOn, Permit, Postpone
    <3>2. call'.request = call.request
      BY <1>1, <3>1, AcquireCall DEF TypeOK
    <3> QED
      BY <1>1, <1>5, <3>1, <3>2 DEF FrontRetried
  <2> QED
    BY <2>1, <2>2
<1> QED
  BY <1>8, <1>9

(* The loop of releaseAllLocks() preserves the invariant. *)
LEMMA ReleaseLockInvariant ==
  ASSUME TypeInvariant, ReleaseLock
  PROVE  TypeInvariant'
<1> USE DEF TypeInvariant
<1>1. /\ call.tid \in Tid /\ call.todo \in Seq(Rid)
      /\ call = [kind |-> "release", tid |-> call.tid, todo |-> call.todo]
  BY ReleaseCall DEF ReleaseLock, TypeOK
<1>2. CASE call.todo = << >>
  <2>1. call' = NoCall /\ UNCHANGED <<lockTable, fault>>
    BY <1>2 DEF ReleaseLock
  <2>2. TypeOK'
    BY <2>1
       DEF ReleaseLock, TypeOK, Calls, lockTable, transactions, queues, detection, clients
  <2> QED
    BY <2>1, <2>2 DEF FrontRetried, NoCall
<1>3. CASE call.todo # << >>
  <2>1. call' = [kind |-> "release", tid |-> call.tid, todo |-> Tail(call.todo)]
    BY <1>1, <1>3 DEF ReleaseLock
  <2>2. call' \in Calls
    BY SMTT(30), <1>1, <1>3, <2>1 DEF Calls
  <2>3. DeleteLock(call.tid, Head(call.todo)) /\ Head(call.todo) \in Rid
    BY SMTT(30), <1>1, <1>3 DEF ReleaseLock
  <2>4. /\ own' \in [Rid -> Seq(Entry)] /\ pending' \in [Rid -> Seq(Entry)]
        /\ fault' \in {"none", "hang", "check", "graph"}
    BY <1>1, <2>3, DeleteLockType
  <2>5. TypeOK'
    BY <2>2, <2>4 DEF ReleaseLock, TypeOK, transactions, queues, detection, clients
  <2> QED
    BY <2>1, <2>5 DEF FrontRetried
<1> QED
  BY <1>2, <1>3

(* killVictims() preserves the invariant. *)
LEMMA KillVictimInvariant ==
  ASSUME TypeInvariant, NEW t \in Tid, KillVictim(t)
  PROVE  TypeInvariant'
<1> USE DEF TypeInvariant
<1>1. call' \in Calls /\ held' \in [Tid -> Seq(Rid)] /\ awaited' \in [Tid -> Seq(Rid)]
  BY StartReleaseType DEF KillVictim
<1>2. TypeOK'
  BY <1>1 DEF KillVictim, TypeOK, lockTable, queues, detection, clients
<1>3. FrontRetried'
  BY DEF KillVictim, StartRelease, FrontRetried
<1> QED
  BY <1>2, <1>3

(* The other steps of LockManager::run() preserve the invariant: they only     *)
(* move on in the loop, outside any call.                                      *)
LEMMA LoopInvariant ==
  ASSUME TypeInvariant,
         EndOfTries \/ LoadStatus \/ EndOfKilling \/ ClearVictims \/ StoreNotReady
  PROVE  TypeInvariant'
<1> USE DEF TypeInvariant
<1>1. TypeOK'
  BY SMTT(30), LockAssumption
     DEF EndOfTries, LoadStatus, EndOfKilling, ClearVictims, StoreNotReady, TypeOK,
         lockTable, transactions, queues, detection, clients
<1>2. FrontRetried'
  BY SMTT(30) DEF EndOfTries, LoadStatus, EndOfKilling, ClearVictims, StoreNotReady, Ready,
         FrontRetried, NoCall
<1> QED
  BY <1>1, <1>2

(* DeadLockDetector::run() preserves the invariant: every scan extends the     *)
(* mapping from transactions to node ids.                                      *)
LEMMA DetectorInvariant ==
  ASSUME TypeInvariant, DetectorStep
  PROVE  TypeInvariant'
<1> USE DEF TypeInvariant
<1>1. UNCHANGED <<call, loop, inner>>
  BY DEF DetectorStep, CheckStatus, GetAllVictims, SwapVictims, SignalDone, queues, control
<1>2. FrontRetried'
  BY <1>1 DEF FrontRetried
<1>3. CASE CheckStatus \/ SwapVictims \/ SignalDone
  <2>1. TypeOK'
    BY SMTT(30), <1>3, LockAssumption
       DEF CheckStatus, SwapVictims, SignalDone, TypeOK, lockTable, transactions, queues,
           control, clients
  <2> QED
    BY <1>2, <2>1
<1>4. CASE GetAllVictims
  <2> DEFINE new == {t \in Scanned : nodeOf[t] = 0}
             nodes == 1 .. Cardinality(new)
  <2>1. PICK node \in Bijection(new, nodes) :
          nodeOf' = [t \in Tid |-> IF t \in new THEN node[t] ELSE nodeOf[t]]
    BY <1>4 DEF GetAllVictims
  <2>2. node \in [new -> nodes]
    BY <2>1 DEF Bijection, Injection
  <2>3. \A n \in nodes : n \in Nat
    BY SMTT(30)
  <2>4. \A t \in new : node[t] \in Nat
    BY <2>2, <2>3
  <2>5. nodeOf' \in [Tid -> Nat]
    BY <2>1, <2>4 DEF TypeOK
  <2>6. Scanned \subseteq Tid
    <3>1. \A r \in Rid : /\ \A i \in DOMAIN own[r] : own[r][i] \in Entry
                         /\ \A i \in DOMAIN pending[r] : pending[r][i] \in Entry
      BY SMTT(30) DEF TypeOK
    <3>2. \A r \in Rid : Range(own[r]) \subseteq Entry /\ Range(pending[r]) \subseteq Entry
      BY <3>1 DEF Range
    <3>3. \A e \in Entry : e.tid \in Tid
      BY DEF Entry
    <3>4. Owners \subseteq Tid
      BY <3>2, <3>3 DEF Owners
    <3>5. \A w \in WaitsFor : w[1] \in Tid
      BY SMTT(30), <3>2, <3>3 DEF WaitsFor
    <3> QED
      BY <3>4, <3>5 DEF Scanned
  <2>7. batch' \in SUBSET Tid /\ fault' \in {"none", "hang", "check", "graph"}
    BY <1>4, <2>6 DEF GetAllVictims, TypeOK
  <2>8. TypeOK'
    BY <1>4, <2>5, <2>7
       DEF GetAllVictims, TypeOK, lockTable, transactions, queues, control, clients
  <2> QED
    BY <1>2, <2>8
<1> QED
  BY <1>3, <1>4 DEF DetectorStep

(* The transactions' requests preserve the invariant. *)
LEMMA ClientInvariant ==
  ASSUME TypeInvariant, ClientStep
  PROVE  TypeInvariant'
<1> USE DEF TypeInvariant
<1>1. UNCHANGED <<call, loop, inner>>
  BY DEF ClientStep, SendRequest, SendRelease, control
<1>2. FrontRetried'
  BY <1>1 DEF FrontRetried
<1> DEFINE M == Request \cup [tid : Tid, type : {ReleaseLocks}]
<1>3. ASSUME NEW r \in Requests, SendRequest(r) PROVE TypeOK'
  <2>1. r \in Request /\ r \in M
    BY LockAssumption
  <2>2. incoming' \in Seq(M)
    <3>1. incoming \in Seq(M) /\ incoming' = Append(incoming, r)
      BY <1>3 DEF TypeOK, SendRequest
    <3> QED
      BY SMTT(30), <2>1, <3>1
  <2> QED
    BY <1>3, <2>1, <2>2
       DEF SendRequest, TypeOK, lockTable, transactions, control, detection
<1>4. ASSUME NEW t \in Tid, SendRelease(t) PROVE TypeOK'
  <2>1. Release(t) \in M
    BY DEF Release
  <2>2. incoming' \in Seq(M)
    <3>1. incoming \in Seq(M) /\ incoming' = Append(incoming, Release(t))
      BY <1>4 DEF TypeOK, SendRelease
    <3> QED
      BY SMTT(30), <2>1, <3>1
  <2> QED
    BY <1>4, <2>2
       DEF SendRelease, TypeOK, lockTable, transactions, control, detection
<1> QED
  BY <1>2, <1>3, <1>4 DEF ClientStep

(* Every step preserves the type invariant. *)
LEMMA TypeInvariantStep == TypeInvariant /\ [Next]_vars => TypeInvariant'
<1> SUFFICES ASSUME TypeInvariant, [Next]_vars PROVE TypeInvariant'
  OBVIOUS
<1>1. CASE ManagerStep
  BY <1>1, PollIncomingInvariant, PollInnerInvariant, AcquireLockInvariant,
     ReleaseLockInvariant, KillVictimInvariant, LoopInvariant DEF ManagerStep
<1>2. CASE DetectorStep
  BY <1>2, DetectorInvariant
<1>3. CASE ClientStep
  BY <1>3, ClientInvariant
<1>4. CASE UNCHANGED vars
  BY <1>4 DEF TypeInvariant, TypeOK, FrontRetried, vars, lockTable, transactions, queues,
              control, detection, clients
<1> QED
  BY <1>1, <1>2, <1>3, <1>4 DEF Next, Failed

(* The lock manager's state keeps its types in every interleaving of the two   *)
(* threads and the transactions.                                               *)
THEOREM LockTypeCorrect == Spec => []TypeOK
<1>1. TypeInvariant => TypeOK
  BY DEF TypeInvariant
<1> QED
  BY <1>1, TypeInvariantInit, TypeInvariantStep, PTL DEF Spec

(* inner_pending_requests_.pop() removes the request that was just granted.    *)
THEOREM FrontIsRetried == Spec => []FrontRetried
<1>1. TypeInvariant => FrontRetried
  BY DEF TypeInvariant
<1> QED
  BY <1>1, TypeInvariantInit, TypeInvariantStep, PTL DEF Spec

-----------------------------------------------------------------------------
(* Granted locks are compatible. *)

(* putLock() adds to the owners only what is compatible with all of them. *)
LEMMA PlaceInOwnedCompatible ==
  ASSUME TypeOK, OwnedCompatible, NEW t \in Tid, NEW r \in Rid, NEW m \in Mode,
         PlaceInOwned(t, r, m)
  PROVE  OwnedCompatible'
<1> DEFINE e == [tid |-> t, mode |-> m]
           s == own[r]
<1>1. s \in Seq(Entry) /\ e \in Entry /\ e.mode = m
  BY DEF TypeOK, Entry
<1>2. \A k \in Rid : own'[k] = IF k = r THEN Append(s, e) ELSE own[k]
  BY DEF PlaceInOwned, TypeOK
<1>3. \A i \in DOMAIN s : s[i].mode \in Mode /\ s[i].mode \in CompatibleModes(m)
  <2>1. \A i \in DOMAIN s : s[i] \in Entry /\ s[i] \in Range(s)
    BY SMTT(30), <1>1 DEF Range
  <2> QED
    BY <2>1 DEF PlaceInOwned, CompatibleWithAll, Entry
<1>4. \A i \in DOMAIN s : m \in CompatibleModes(s[i].mode)
  BY <1>3, CompatibilitySymmetric
<1>5. ASSUME NEW i \in DOMAIN Append(s, e), NEW j \in DOMAIN Append(s, e), i # j
      PROVE  Append(s, e)[i].mode \in CompatibleModes(Append(s, e)[j].mode)
  <2> HIDE DEF e
  <2>1. /\ i \in 1 .. Len(s) + 1 /\ j \in 1 .. Len(s) + 1 /\ DOMAIN s = 1 .. Len(s)
        /\ Append(s, e)[Len(s) + 1] = e
        /\ \A k \in 1 .. Len(s) : Append(s, e)[k] = s[k]
    BY SMTT(30), <1>1
  <2>2. CASE i = Len(s) + 1
    BY SMTT(30), <1>1, <1>4, <1>5, <2>1, <2>2
  <2>3. CASE j = Len(s) + 1
    BY SMTT(30), <1>1, <1>3, <1>5, <2>1, <2>3
  <2>4. CASE i \in 1 .. Len(s) /\ j \in 1 .. Len(s)
    BY <1>5, <2>1, <2>4 DEF OwnedCompatible
  <2> QED
    BY SMTT(30), <1>1, <2>1, <2>2, <2>3, <2>4
<1> HIDE DEF s, e
<1>6. ASSUME NEW k \in Rid, NEW i \in DOMAIN own'[k], NEW j \in DOMAIN own'[k], i # j
      PROVE  own'[k][i].mode \in CompatibleModes(own'[k][j].mode)
  BY <1>2, <1>5, <1>6 DEF OwnedCompatible
<1> QED
  BY <1>6 DEF OwnedCompatible

(* deleteLock() only takes locks away: movePendingToOwned() moves none. *)
LEMMA DeleteLockCompatible ==
  ASSUME TypeOK, OwnedCompatible, NEW t \in Tid, NEW r \in Rid, DeleteLock(t, r)
  PROVE  OwnedCompatible'
<1>1. CASE own' = own
  BY <1>1 DEF OwnedCompatible
<1>2. CASE \E i \in DOMAIN own[r] : own' = [own EXCEPT ![r] = RemoveAt(own[r], i)]
  <2>1. PICK d \in DOMAIN own[r] : own' = [own EXCEPT ![r] = RemoveAt(own[r], d)]
    BY <1>2
  <2> DEFINE s == own[r]
             u == RemoveAt(s, d)
  <2>2. s \in Seq(Entry)
    BY DEF TypeOK
  <2>3. /\ u \in Seq(Entry) /\ Len(u) = Len(s) - 1
        /\ \A k \in 1 .. Len(s) - 1 : u[k] = IF k < d THEN s[k] ELSE s[k + 1]
    BY <2>1, <2>2, RemoveAtElements
  <2>4. \A k \in Rid : own'[k] = IF k = r THEN u ELSE own[k]
    BY <2>1 DEF TypeOK
  <2> HIDE DEF u
  <2>5. ASSUME NEW i \in DOMAIN u, NEW j \in DOMAIN u, i # j
        PROVE  u[i].mode \in CompatibleModes(u[j].mode)
    <3>1. /\ i \in 1 .. Len(s) - 1 /\ j \in 1 .. Len(s) - 1
          /\ d \in 1 .. Len(s) /\ DOMAIN s = 1 .. Len(s) /\ Len(s) \in Nat
      BY SMTT(30), <2>2, <2>3
    <3>2. PICK a \in DOMAIN s : u[i] = s[a] /\ a = IF i < d THEN i ELSE i + 1
      BY SMTT(30), <2>3, <3>1
    <3>3. PICK b \in DOMAIN s : u[j] = s[b] /\ b = IF j < d THEN j ELSE j + 1
      BY SMTT(30), <2>3, <3>1
    <3>4. a # b
      BY SMTT(30), <2>5, <3>1, <3>2, <3>3
    <3> QED
      BY <3>2, <3>3, <3>4 DEF OwnedCompatible
  <2>6. ASSUME NEW k \in Rid, NEW i \in DOMAIN own'[k], NEW j \in DOMAIN own'[k], i # j
        PROVE  own'[k][i].mode \in CompatibleModes(own'[k][j].mode)
    BY <2>4, <2>5, <2>6 DEF OwnedCompatible
  <2> QED
    BY <2>6 DEF OwnedCompatible
<1> QED
  BY <1>1, <1>2 DEF DeleteLock, lockTable

(* Every step keeps granted locks compatible; only acquireLockInternal() and   *)
(* deleteLock() touch the owners.                                              *)
LEMMA CompatibleStep ==
  TypeInvariant /\ OwnedCompatible /\ [Next]_vars => OwnedCompatible'
<1> SUFFICES ASSUME TypeInvariant, OwnedCompatible, [Next]_vars PROVE OwnedCompatible'
  OBVIOUS
<1>1. CASE own' = own
  BY <1>1 DEF OwnedCompatible
<1>2. CASE AcquireLock
  <2>1. call.request \in Request /\ call.todo \in Seq(Step) /\ call.todo # << >>
    BY <1>2, AcquireCall DEF AcquireLock, Acquiring, TypeOK, TypeInvariant
  <2>2. Head(call.todo) \in Step
    BY SMTT(30), <2>1
  <2>3. call.request.tid \in Tid /\ Head(call.todo).rid \in Rid /\ Head(call.todo).mode \in Mode
    BY <2>1, <2>2 DEF Request, Step
  <2>4. own' = own \/ PlaceInOwned(call.request.tid, Head(call.todo).rid, Head(call.todo).mode)
    BY <1>2 DEF AcquireLock, PlaceInPending, lockTable
  <2> QED
    BY <1>1, <2>3, <2>4, PlaceInOwnedCompatible DEF TypeInvariant
<1>3. CASE ReleaseLock
  <2>1. call.tid \in Tid /\ call.todo \in Seq(Rid)
    BY <1>3, ReleaseCall DEF ReleaseLock, TypeOK, TypeInvariant
  <2>2. own' = own \/ (call.todo # << >> /\ DeleteLock(call.tid, Head(call.todo)))
    BY <1>3 DEF ReleaseLock, lockTable
  <2>3. TypeOK /\ (call.todo # << >> => Head(call.todo) \in Rid)
    BY SMTT(30), <2>1 DEF TypeInvariant
  <2> QED
    BY <1>1, <2>1, <2>2, <2>3, DeleteLockCompatible
<1>4. CASE ~AcquireLock /\ ~ReleaseLock
  <2>1. own' = own
    BY <1>4
       DEF Next, ManagerStep, DetectorStep, ClientStep, Failed, vars, lockTable, PollIncoming,
           PollInner, EndOfTries, LoadStatus, EndOfKilling, ClearVictims, StoreNotReady,
           KillVictim, CheckStatus, GetAllVictims, SwapVictims, SignalDone, SendRequest,
           SendRelease
  <2> QED
    BY <1>1, <2>1
<1> QED
  BY <1>2, <1>3, <1>4

(* The locks owned on a resource are pairwise compatible, for any number of    *)
(* transactions, resources and requests, whatever they wait for and whoever is *)
(* killed.                                                                     *)
THEOREM LocksCompatible == Spec => []OwnedCompatible
<1>1. Init => OwnedCompatible
  BY SMTT(30) DEF Init, OwnedCompatible
<1> QED
  BY <1>1, TypeInvariantInit, TypeInvariantStep, CompatibleStep, PTL DEF Spec

-----------------------------------------------------------------------------
(* Requests, tables and ancestors. *)

Of(t) == {e \in Entry : e.tid = t}
Owns(t, l) == [tid |-> t, mode |-> l.mode] \in Range(own[l.rid])
InCall(r) ==
  IF call.kind = "acquire" /\ call.request = r /\ loop = "incoming" THEN 1 ELSE 0
Releasing(t) == call.kind = "release" /\ call.tid = t
Todo(t, r) == IF Releasing(t) THEN Count(call.todo, {r}) ELSE 0

(* A sent request is in one place; the process does not fail amid acquireLock(). *)
ConserveInv ==
  /\ \A r \in Request :
       Count(incoming, {r}) + Count(inner, {r}) + One(r, permitted) + InCall(r) = One(r, sent)
  /\ ~Working => call.kind # "acquire"

(* The lock table and the transaction table list the same locks; the ones of a *)
(* transaction that is being released are in the call.                         *)
AgreeInv ==
  /\ \A t \in Tid, r \in Rid :
       Count(own[r], Of(t)) + Count(pending[r], Of(t))
         = Count(held[t], {r}) + Count(awaited[t], {r}) + Todo(t, r)
  /\ \A t \in Tid : Releasing(t) => held[t] = << >> /\ awaited[t] = << >>
  /\ fault # "check"

(* acquireLock() works on the end of a path, and has the k locks before it. *)
HasFirst(t, path, todo, k) ==
  /\ Len(path) = k + Len(todo)
  /\ \A j \in DOMAIN todo : todo[j] = path[k + j]
  /\ \A i \in 1 .. k : Owns(t, path[i])
PathInv ==
  call.kind = "acquire" =>
    \E k \in Nat : HasFirst(call.request.tid, LockPath(call.request), call.todo, k)

(* The ancestors of a lock are locked, but for a transaction being released. *)
AncestorInv ==
  \A r \in Rid : \A e \in Range(own[r]) :
    Len(r) > 1 /\ ~Releasing(e.tid) =>
      [tid |-> e.tid, mode |-> IntentionMode(e.mode)] \in Range(own[SubSeq(r, 1, Len(r) - 1)])

(* Whoever is released asked for it or is a victim; others hold their locks. *)
AskedInv ==
  /\ \A i \in DOMAIN incoming : incoming[i] \notin Request => incoming[i].tid \in released
  /\ \A t \in Tid : Releasing(t) => t \in killed \cup released
HoldsPath(r) == \A i \in DOMAIN LockPath(r) : Owns(r.tid, LockPath(r)[i])
HoldInv == \A r \in permitted : r.tid \notin killed \cup released => HoldsPath(r)

LockInv ==
  /\ TypeInvariant /\ ConserveInv /\ AgreeInv /\ PathInv
  /\ AncestorInv /\ AskedInv /\ HoldInv

(* A request to release all locks is not a lock request. *)
LEMMA ReleaseNoRequest == \A t \in Tid : Release(t) \notin Request
BY SMTT(30) DEF Release, Request

(* The step leaves the locks, the queues and the calls alone. *)
Idles == UNCHANGED <<lockTable, transactions, queues, sent, released, killed, call>>

(* What the steps outside acquireLock() and releaseAllLocks() do. *)
LEMMA IdleSteps ==
  ASSUME \/ EndOfTries \/ LoadStatus \/ EndOfKilling \/ ClearVictims \/ StoreNotReady
         \/ DetectorStep \/ UNCHANGED vars
  PROVE  /\ Idles
         /\ call.kind = "acquire" => loop' = loop
         /\ fault' = fault \/ (fault' = "graph" /\ call = NoCall)
<1>1. CASE EndOfTries \/ LoadStatus \/ EndOfKilling \/ ClearVictims \/ StoreNotReady
  BY SMTT(30), <1>1 DEF EndOfTries, LoadStatus, EndOfKilling, ClearVictims, StoreNotReady, Ready, Idles,
              NoCall, clients
<1>2. CASE CheckStatus \/ SwapVictims \/ SignalDone
  BY <1>2 DEF CheckStatus, SwapVictims, SignalDone, Idles, clients, control
<1>3. CASE GetAllVictims
  BY <1>3 DEF GetAllVictims, Latched, Idles, clients, control
<1>4. CASE UNCHANGED vars
  BY <1>4 DEF vars, Idles, clients, control
<1> QED
  BY <1>1, <1>2, <1>3, <1>4 DEF DetectorStep

(* Every step is one of these. *)
LEMMA Steps ==
  ASSUME [Next]_vars
  PROVE  \/ PollIncoming \/ PollInner \/ AcquireLock \/ ReleaseLock
         \/ \E t \in Tid : KillVictim(t)
         \/ \E r \in Requests : SendRequest(r)
         \/ \E t \in Tid : SendRelease(t)
         \/ /\ Idles
            /\ call.kind = "acquire" => loop' = loop
            /\ fault' = fault \/ (fault' = "graph" /\ call = NoCall)
BY IdleSteps DEF Next, ManagerStep, ClientStep, Failed

(* The parts of the sum are numbers. *)
LEMMA ConserveType ==
  ASSUME TypeOK, NEW r \in Request
  PROVE  /\ Count(incoming, {r}) \in Nat /\ Count(inner, {r}) \in Nat
         /\ One(r, permitted) \in Nat /\ InCall(r) \in Nat /\ One(r, sent) \in Nat
<1>1. Count(incoming, {r}) \in Nat
  BY CountType DEF TypeOK
<1>2. Count(inner, {r}) \in Nat
  BY CountType DEF TypeOK
<1> QED
  BY <1>1, <1>2 DEF One, InCall

(* Every step keeps each request in one place. *)
LEMMA ConserveStep ==
  ASSUME TypeInvariant, ConserveInv, [Next]_vars
  PROVE  ConserveInv'
<1> DEFINE M == Request \cup [tid : Tid, type : {ReleaseLocks}]
<1>0. TypeOK /\ FrontRetried /\ incoming \in Seq(M) /\ inner \in Seq(Request) /\ call \in Calls
  BY DEF TypeInvariant, TypeOK
<1> DEFINE Sum(r) ==
             /\ Count(incoming, {r}) + Count(inner, {r}) + One(r, permitted) + InCall(r)
                  = One(r, sent)
             /\ Count(incoming, {r}) \in Nat /\ Count(inner, {r}) \in Nat
             /\ One(r, permitted) \in Nat /\ InCall(r) \in Nat /\ One(r, sent) \in Nat
<1>a. \A r \in Request : Sum(r)
  BY <1>0, ConserveType DEF ConserveInv
<1> HIDE DEF M
<1>1. CASE PollIncoming
  <2>1. /\ Working /\ loop = "incoming" /\ loop' = loop /\ call = NoCall /\ fault' = fault
        /\ inner' = inner /\ permitted' = permitted /\ sent' = sent
    BY <1>1 DEF PollIncoming, Ready, clients
  <2>2. \A r \in Request : InCall(r) = 0
    BY <2>1 DEF InCall, NoCall
  <2>3. CASE incoming = << >>
    BY <1>1, <2>1, <2>3 DEF PollIncoming, ConserveInv, InCall, Working
  <2>4. CASE incoming # << >>
    <3>1. incoming' = Tail(incoming) /\ Head(incoming) \in M
      BY SMTT(30), <1>0, <1>1, <2>4 DEF PollIncoming
    <3>2. \A r \in Request :
             /\ Count(incoming, {r}) = Count(incoming', {r}) + One(Head(incoming), {r})
             /\ Count(incoming', {r}) \in Nat
      <4>1. Tail(incoming) \in Seq(M)
        BY SMTT(30), <1>0, <2>4
      <4> QED
        BY <1>0, <2>4, <3>1, <4>1, CountTail, CountType
    <3>3. \A r \in Request : InCall(r)' = One(Head(incoming), {r})
      <4>1. CASE Head(incoming) \in Request
        BY SMTT(30), <1>1, <2>1, <2>4, <4>1 DEF PollIncoming, StartAcquire, InCall, One
      <4>2. CASE Head(incoming) \notin Request
        <5>1. StartRelease(Head(incoming).tid)
          BY <1>1, <2>4, <4>2 DEF PollIncoming
        <5>2. call'.kind = "release"
          BY <5>1 DEF StartRelease
        <5> QED
          BY <4>2, <5>2 DEF InCall, One
      <4> QED
        BY <4>1, <4>2
    <3>4. ASSUME NEW r \in Request
          PROVE  Count(incoming', {r}) + Count(inner', {r}) + One(r, permitted') + InCall(r)'
                   = One(r, sent')
      <4>1. One(Head(incoming), {r}) \in Nat
        BY DEF One
      <4> QED
        BY SMTT(30), <1>a, <2>1, <2>2, <3>2, <3>3, <4>1
    <3> QED
      BY <2>1, <3>4 DEF ConserveInv, Working
  <2> QED
    BY <2>3, <2>4
<1>2. CASE PollInner
  <2>1. /\ Working /\ loop = "inner" /\ loop' = loop /\ call = NoCall /\ fault' = fault
        /\ UNCHANGED <<incoming, inner, permitted, sent>>
    BY <1>2 DEF PollInner, Ready, queues, clients
  <2>2. \A r \in Request : InCall(r) = 0 /\ InCall(r)' = 0
    BY <2>1 DEF InCall, NoCall
  <2> QED
    BY <1>a, <2>1, <2>2 DEF ConserveInv, Working
<1>3. CASE AcquireLock
  <2>1. /\ call.kind = "acquire" /\ Working /\ fault' = fault /\ loop' = loop
        /\ incoming' = incoming /\ sent' = sent /\ (GoOn \/ Postpone)
    BY <1>3 DEF AcquireLock, Acquiring, clients
  <2> DEFINE q == call.request
  <2>2. /\ q \in Request /\ call = [kind |-> "acquire", request |-> q, todo |-> call.todo]
        /\ loop = "incoming" \/ (loop = "inner" /\ inner # << >> /\ q = Head(inner))
    BY <1>0, <2>1, AcquireCall DEF FrontRetried
  <2>3. \A r \in Request : InCall(r) = IF r = q /\ loop = "incoming" THEN 1 ELSE 0
    BY <2>1 DEF InCall
  <2>4. loop = "inner" => \A r \in Request :
           /\ Count(inner, {r}) = Count(Tail(inner), {r}) + IF r = q THEN 1 ELSE 0
           /\ Count(Tail(inner), {r}) \in Nat
    <3>1. SUFFICES ASSUME loop = "inner"
                   PROVE  \A r \in Request :
                             /\ Count(inner, {r}) = Count(Tail(inner), {r}) + IF r = q THEN 1 ELSE 0
                             /\ Count(Tail(inner), {r}) \in Nat
      OBVIOUS
    <3>2. inner # << >> /\ q = Head(inner) /\ Tail(inner) \in Seq(Request)
      BY SMTT(30), <1>0, <2>2, <3>1
    <3> QED
      BY <1>0, <3>2, CountTail, CountType DEF One
  <2>5. \A r \in Request : Count(Append(inner, q), {r}) = Count(inner, {r}) + IF r = q THEN 1 ELSE 0
    BY SMTT(30), <1>0, <2>2, CountAppend DEF One
  <2> HIDE DEF q
  <2>6. CASE call' = [call EXCEPT !.todo = Tail(@)] /\ UNCHANGED <<inner, permitted>>
    <3>1. call'.kind = "acquire" /\ call'.request = call.request
      BY SMTT(30), <2>2, <2>6 DEF q
    <3>2. \A r \in Request : InCall(r)' = InCall(r)
      BY <2>1, <3>1 DEF InCall
    <3> QED
      BY <1>a, <2>1, <2>6, <3>2 DEF ConserveInv, Working
  <2>7. ASSUME call' = NoCall PROVE \A r \in Request : InCall(r)' = 0
    BY <2>7 DEF InCall, NoCall
  <2>8. CASE Permit
    <3>1. /\ permitted' = permitted \cup {q} /\ call' = NoCall
          /\ inner' = IF loop = "inner" THEN Tail(inner) ELSE inner
      BY <2>8 DEF Permit, q
    <3>2. q \notin permitted
      <4>1. InCall(q) + Count(inner, {q}) >= 1
        <5>1. Sum(q)
          BY <1>a, <2>2
        <5>2. CASE loop = "incoming"
          BY SMTT(30), <2>2, <2>3, <5>1, <5>2
        <5>3. CASE loop = "inner"
          <6>1. Count(inner, {q}) = Count(Tail(inner), {q}) + 1 /\ Count(Tail(inner), {q}) \in Nat
            BY <2>2, <2>4, <5>3
          <6> QED
            BY SMTT(30), <5>1, <6>1
        <5> QED
          BY <2>2, <5>2, <5>3
      <4>2. One(q, permitted) = 0
        <5>1. One(q, sent) <= 1
          BY SMTT(30) DEF One
        <5> QED
          <6>1. Sum(q)
            BY <1>a, <2>2
          <6> QED
            BY SMTT(30), <4>1, <5>1, <6>1
      <4> QED
        BY SMTT(30), <4>2 DEF One
    <3>3. \A r \in Request : One(r, permitted') = One(r, permitted) + IF r = q THEN 1 ELSE 0
      BY SMTT(30), <3>1, <3>2 DEF One
    <3>4. ASSUME NEW r \in Request
          PROVE  Count(incoming', {r}) + Count(inner', {r}) + One(r, permitted') + InCall(r)'
                   = One(r, sent')
      <4>1. CASE loop = "inner"
        <5>1. Sum(r) /\ InCall(r) = 0 /\ InCall(r)' = 0
          BY <1>a, <2>3, <2>7, <3>1, <4>1
        <5>2. /\ Count(inner, {r}) = Count(inner', {r}) + IF r = q THEN 1 ELSE 0
              /\ Count(inner', {r}) \in Nat
          BY <2>4, <3>1, <4>1
        <5>3. One(r, permitted') = One(r, permitted) + IF r = q THEN 1 ELSE 0
          BY <3>3
        <5> QED
          BY SMTT(30), <2>1, <5>1, <5>2, <5>3
      <4>2. CASE loop = "incoming"
        BY SMTT(30), <1>a, <2>1, <2>3, <2>7, <3>1, <3>3, <4>2
      <4> QED
        BY <2>2, <4>1, <4>2
    <3> QED
      BY <2>1, <3>4 DEF ConserveInv, Working
  <2>9. CASE Postpone
    <3>1. /\ permitted' = permitted /\ call' = NoCall
          /\ inner' = IF loop = "inner" THEN inner ELSE Append(inner, q)
      BY <2>9 DEF Postpone, q
    <3>2. ASSUME NEW r \in Request
          PROVE  Count(incoming', {r}) + Count(inner', {r}) + One(r, permitted') + InCall(r)'
                   = One(r, sent')
      <4>1. CASE loop = "inner"
        BY <1>a, <2>1, <2>3, <2>7, <3>1, <4>1
      <4>2. CASE loop = "incoming"
        <5>1. Sum(r) /\ InCall(r)' = 0 /\ InCall(r) = IF r = q THEN 1 ELSE 0
          BY <1>a, <2>3, <2>7, <3>1, <4>2
        <5>2. Count(inner', {r}) = Count(inner, {r}) + IF r = q THEN 1 ELSE 0
          BY <2>5, <3>1, <4>2
        <5> QED
          BY SMTT(30), <2>1, <3>1, <5>1, <5>2
      <4> QED
        BY <2>2, <4>1, <4>2
    <3> QED
      BY <2>1, <3>2 DEF ConserveInv, Working
  <2> QED
    BY <2>1, <2>6, <2>8, <2>9 DEF GoOn
<1>4. CASE ReleaseLock \/ \E t \in Tid : KillVictim(t)
  <2>1. /\ UNCHANGED <<incoming, inner, permitted, sent>>
        /\ call.kind # "acquire" /\ call'.kind # "acquire"
    <3>1. CASE ReleaseLock
      <4>1. call = [kind |-> "release", tid |-> call.tid, todo |-> call.todo]
        BY <1>0, <3>1, ReleaseCall DEF ReleaseLock
      <4>2. call' = NoCall \/ call' = [kind |-> "release", tid |-> call.tid, todo |-> Tail(call.todo)]
        BY <3>1, <4>1 DEF ReleaseLock
      <4> QED
        BY SMTT(30), <3>1, <4>1, <4>2 DEF ReleaseLock, NoCall, queues, clients
    <3>2. CASE \E t \in Tid : KillVictim(t)
      BY SMTT(30), <3>2 DEF KillVictim, Ready, StartRelease, NoCall, queues, clients
    <3> QED
      BY <1>4, <3>1, <3>2
  <2>2. \A r \in Request : InCall(r) = 0 /\ InCall(r)' = 0
    BY <2>1 DEF InCall
  <2> QED
    BY <1>a, <2>1, <2>2 DEF ConserveInv
<1>5. ASSUME NEW q \in Requests, SendRequest(q) PROVE ConserveInv'
  <2>1. /\ Working /\ q \notin sent /\ incoming' = Append(incoming, q) /\ sent' = sent \cup {q}
        /\ UNCHANGED <<inner, permitted, call, loop, fault>>
    BY <1>5 DEF SendRequest, control
  <2>2. q \in Request /\ q \in M
    BY LockAssumption DEF M
  <2>3. \A r \in Request : Count(incoming', {r}) = Count(incoming, {r}) + IF r = q THEN 1 ELSE 0
    BY SMTT(30), <1>0, <2>1, <2>2, CountAppend DEF One
  <2>4. \A r \in Request : One(r, sent') = One(r, sent) + IF r = q THEN 1 ELSE 0
    BY SMTT(30), <2>1 DEF One
  <2>5. \A r \in Request : InCall(r)' = InCall(r)
    BY <2>1 DEF InCall
  <2>6. ASSUME NEW r \in Request
        PROVE  Count(incoming', {r}) + Count(inner', {r}) + One(r, permitted') + InCall(r)'
                 = One(r, sent')
    <3>1. Sum(r) /\ InCall(r)' = InCall(r)
      BY <1>a, <2>5
    <3>2. /\ Count(incoming', {r}) = Count(incoming, {r}) + IF r = q THEN 1 ELSE 0
          /\ One(r, sent') = One(r, sent) + IF r = q THEN 1 ELSE 0
      BY <2>3, <2>4
    <3> QED
      BY SMTT(30), <2>1, <3>1, <3>2
  <2> QED
    BY <2>1, <2>6 DEF ConserveInv, Working
<1>6. ASSUME NEW t \in Tid, SendRelease(t) PROVE ConserveInv'
  <2>1. /\ Working /\ incoming' = Append(incoming, Release(t))
        /\ UNCHANGED <<inner, permitted, sent, call, loop, fault>>
    BY <1>6 DEF SendRelease, control
  <2>2. Release(t) \in M /\ Release(t) \notin Request
    BY ReleaseNoRequest DEF M, Release
  <2>3. \A r \in Request : Count(incoming', {r}) = Count(incoming, {r}) + 0
    BY SMTT(30), <1>0, <2>1, <2>2, CountAppend DEF One
  <2>4. \A r \in Request : InCall(r)' = InCall(r)
    BY <2>1 DEF InCall
  <2>5. ASSUME NEW r \in Request
        PROVE  Count(incoming', {r}) + Count(inner', {r}) + One(r, permitted') + InCall(r)'
                 = One(r, sent')
    <3>1. Sum(r) /\ InCall(r)' = InCall(r) /\ Count(incoming', {r}) = Count(incoming, {r}) + 0
      BY <1>a, <2>3, <2>4
    <3> QED
      BY SMTT(30), <2>1, <3>1
  <2> QED
    BY <2>1, <2>5 DEF ConserveInv, Working
<1>7. CASE /\ Idles
           /\ call.kind = "acquire" => loop' = loop
           /\ fault' = fault \/ (fault' = "graph" /\ call = NoCall)
  <2>1. \A r \in Request : InCall(r)' = InCall(r)
    BY <1>7 DEF InCall, Idles
  <2> QED
    BY SMTT(30), <1>7, <2>1 DEF ConserveInv, Idles, queues, Working, NoCall
<1> QED
  BY <1>1, <1>2, <1>3, <1>4, <1>5, <1>6, <1>7, Steps

(* Removing an entry of a list takes one element away. *)
LEMMA CountRemoveAt ==
  ASSUME NEW S, NEW s \in Seq(S), NEW i \in DOMAIN s, NEW X
  PROVE  /\ Count(s, X) = Count(RemoveAt(s, i), X) + One(s[i], X)
         /\ Count(RemoveAt(s, i), X) \in Nat
<1> DEFINE a == SubSeq(s, 1, i - 1)
           b == SubSeq(s, i + 1, Len(s))
           c == Append(a, s[i])
<1>1. a \in Seq(S) /\ b \in Seq(S) /\ Len(a) = i - 1 /\ Len(b) = Len(s) - i /\ s[i] \in S
  BY SMTT(30)
<1>2. /\ \A k \in 1 .. i - 1 : a[k] = s[k]
      /\ \A k \in 1 .. Len(s) - i : b[k] = s[k + i]
  BY SMTT(30)
<1>3. RemoveAt(s, i) = a \o b
  BY DEF RemoveAt
<1> HIDE DEF a, b
<1>4. /\ c \in Seq(S) /\ Len(c) = i
      /\ \A k \in 1 .. i : c[k] = s[k]
  BY SMTT(30), <1>1, <1>2
<1> HIDE DEF c
<1>5. c \o b = s
  <2> DEFINE w == c \o b
  <2>1. /\ w \in Seq(S) /\ Len(w) = Len(c) + Len(b)
        /\ \A k \in 1 .. Len(c) + Len(b) : w[k] = IF k <= Len(c) THEN c[k] ELSE b[k - Len(c)]
    BY <1>1, <1>4, ConcatElements
  <2> HIDE DEF w
  <2>2. Len(w) = Len(s) /\ Len(s) \in Nat /\ i \in 1 .. Len(s)
    <3>1. Len(s) \in Nat /\ i \in 1 .. Len(s)
      BY SMTT(30)
    <3>2. Len(w) = i + (Len(s) - i)
      BY <1>1, <1>4, <2>1
    <3>3. \A m, n \in Int : m + (n - m) = n
      BY SMTT(30)
    <3> QED
      BY SMTT(30), <3>1, <3>2, <3>3
  <2>3. ASSUME NEW k \in 1 .. Len(s) PROVE w[k] = s[k]
    <3>1. CASE k <= i
      BY SMTT(30), <1>4, <2>1, <2>2, <3>1
    <3>2. CASE ~(k <= i)
      <4>1. k - i \in 1 .. Len(s) - i /\ (k - i) + i = k
        BY SMTT(30), <2>2, <3>2
      <4>2. w[k] = b[k - i]
        BY <1>4, <2>1, <2>2, <3>2
      <4> QED
        BY <1>2, <4>1, <4>2
    <3> QED
      BY <3>1, <3>2
  <2>4. w = s
    BY SMTT(30), <2>1, <2>2, <2>3
  <2> QED
    BY <2>4 DEF w
<1>6. Count(c \o b, X) = Count(c, X) + Count(b, X)
  BY <1>1, <1>4, CountConcat
<1>7. Count(a \o b, X) = Count(a, X) + Count(b, X)
  BY <1>1, CountConcat
<1>8. Count(c, X) = Count(a, X) + One(s[i], X)
  BY <1>1, CountAppend DEF c
<1>9. Count(a, X) \in Nat /\ Count(b, X) \in Nat /\ One(s[i], X) \in Nat
  BY <1>1, CountType DEF One
<1> QED
  BY SMTT(30), <1>3, <1>5, <1>6, <1>7, <1>8, <1>9

(* One entry more, or less, in the lists of the lock table and of the          *)
(* transaction table.                                                          *)
Here(t, r, u, k) == IF u = t /\ k = r THEN 1 ELSE 0

(* An entry removed from a list of the lock table. *)
LEMMA EntryRemoved ==
  ASSUME NEW f \in [Rid -> Seq(Entry)], NEW g, NEW r \in Rid, NEW i \in DOMAIN f[r],
         g = [f EXCEPT ![r] = RemoveAt(f[r], i)], NEW t \in Tid, f[r][i].tid = t
  PROVE  \A u \in Tid, k \in Rid :
           Count(f[k], Of(u)) = Count(g[k], Of(u)) + Here(t, r, u, k) /\ Count(g[k], Of(u)) \in Nat
<1>1. f[r] \in Seq(Entry) /\ f[r][i] \in Entry
  BY SMTT(30)
<1>2. \A u \in Tid : One(f[r][i], Of(u)) = IF u = t THEN 1 ELSE 0
  BY <1>1 DEF One, Of
<1>3. ASSUME NEW u \in Tid, NEW k \in Rid
      PROVE  /\ Count(f[k], Of(u)) = Count(g[k], Of(u)) + Here(t, r, u, k)
             /\ Count(g[k], Of(u)) \in Nat
  <2>1. CASE k = r
    <3>1. g[k] = RemoveAt(f[r], i)
      BY <2>1
    <3>2. /\ Count(f[r], Of(u)) = Count(RemoveAt(f[r], i), Of(u)) + One(f[r][i], Of(u))
          /\ Count(RemoveAt(f[r], i), Of(u)) \in Nat
      BY <1>1, CountRemoveAt
    <3> QED
      BY <1>2, <2>1, <3>1, <3>2 DEF Here
  <2>2. CASE k # r
    <3>1. g[k] = f[k] /\ f[k] \in Seq(Entry)
      BY <2>2
    <3>2. Count(f[k], Of(u)) \in Nat
      BY <3>1, CountType
    <3> QED
      BY SMTT(30), <2>2, <3>1, <3>2 DEF Here
  <2> QED
    BY <2>1, <2>2
<1> QED
  BY <1>3

(* An entry appended to a list of the lock table. *)
LEMMA EntryAppended ==
  ASSUME NEW s \in Seq(Entry), NEW e \in Entry, NEW u \in Tid
  PROVE  Count(Append(s, e), Of(u)) = Count(s, Of(u)) + IF u = e.tid THEN 1 ELSE 0
<1>1. One(e, Of(u)) = IF u = e.tid THEN 1 ELSE 0
  BY DEF One, Of
<1> QED
  BY <1>1, CountAppend

(* A resource appended to a list of the transaction table. *)
LEMMA ListAppended ==
  ASSUME NEW s \in Seq(Rid), NEW r \in Rid, NEW k \in Rid
  PROVE  Count(Append(s, r), {k}) = Count(s, {k}) + IF k = r THEN 1 ELSE 0
<1>1. One(r, {k}) = IF k = r THEN 1 ELSE 0
  BY DEF One
<1> QED
  BY SMTT(30), <1>1, CountAppend

(* The two sides of the comparison of the tables. *)
Agree(t, r) ==
  Count(own[r], Of(t)) + Count(pending[r], Of(t))
    = Count(held[t], {r}) + Count(awaited[t], {r}) + Todo(t, r)

Numbers(t, r) ==
  /\ Count(own[r], Of(t)) \in Nat /\ Count(pending[r], Of(t)) \in Nat
  /\ Count(held[t], {r}) \in Nat /\ Count(awaited[t], {r}) \in Nat /\ Todo(t, r) \in Nat

(* The counts are numbers. *)
LEMMA AgreeType ==
  ASSUME TypeOK, NEW t \in Tid, NEW r \in Rid
  PROVE  Numbers(t, r)
<1>1. own[r] \in Seq(Entry) /\ pending[r] \in Seq(Entry)
  BY DEF TypeOK
<1>2. held[t] \in Seq(Rid) /\ awaited[t] \in Seq(Rid)
  BY DEF TypeOK
<1>3. Count(own[r], Of(t)) \in Nat /\ Count(pending[r], Of(t)) \in Nat
  BY <1>1, CountType
<1>4. Count(held[t], {r}) \in Nat /\ Count(awaited[t], {r}) \in Nat
  BY <1>2, CountType
<1>5. Todo(t, r) \in Nat
  BY SMTT(30), ReleaseCall, CountType DEF Todo, Releasing, TypeOK
<1> QED
  BY <1>3, <1>4, <1>5 DEF Numbers

(* releaseAllLocks() starts: the call takes over what the transaction has.     *)
LEMMA StartReleaseAgree ==
  ASSUME TypeOK, AgreeInv, NEW t \in Tid, call = NoCall, StartRelease(t),
         UNCHANGED lockTable, fault' = fault
  PROVE  AgreeInv'
<1>1. held \in [Tid -> Seq(Rid)] /\ awaited \in [Tid -> Seq(Rid)]
  BY DEF TypeOK
<1>2. /\ held'[t] = << >> /\ awaited'[t] = << >>
      /\ \A u \in Tid \ {t} : held'[u] = held[u] /\ awaited'[u] = awaited[u]
      /\ call'.kind = "release" /\ call'.tid = t /\ call'.todo = awaited[t] \o held[t]
  BY <1>1 DEF StartRelease
<1>3. \A u \in Tid : Releasing(u)' <=> u = t
  BY <1>2 DEF Releasing
<1>4. ASSUME NEW u \in Tid, NEW r \in Rid PROVE Agree(u, r)'
  <2>1. Agree(u, r) /\ Numbers(u, r) /\ Todo(u, r) = 0
    BY AgreeType DEF AgreeInv, Agree, Todo, Releasing, NoCall
  <2>2. own' = own /\ pending' = pending
    BY DEF lockTable
  <2>3. CASE u = t
    <3>1. Count(awaited[t] \o held[t], {r}) = Count(awaited[t], {r}) + Count(held[t], {r})
      BY SMTT(30), <1>1, CountConcat
    <3>2. Todo(u, r)' = Count(awaited[t] \o held[t], {r})
      BY <1>2, <1>3, <2>3 DEF Todo
    <3>3. Count(held'[u], {r}) = 0 /\ Count(awaited'[u], {r}) = 0
      BY <1>2, <2>3, CountEmpty
    <3> QED
      BY SMTT(30), <2>1, <2>2, <2>3, <3>1, <3>2, <3>3 DEF Agree, Numbers
  <2>4. CASE u # t
    <3>1. Todo(u, r)' = 0
      BY <1>3, <2>4 DEF Todo
    <3> QED
      BY <1>2, <2>1, <2>2, <2>4, <3>1 DEF Agree
  <2> QED
    BY <2>3, <2>4
<1> QED
  BY <1>2, <1>3, <1>4 DEF AgreeInv, Agree

(* deleteLock() finds a lock of the transaction that is being released, and    *)
(* takes it away.                                                              *)
LEMMA DeleteAgree ==
  ASSUME TypeOK, AgreeInv, NEW t \in Tid, NEW r \in Rid, Todo(t, r) >= 1, DeleteLock(t, r)
  PROVE  /\ fault' # "check"
         /\ \A u \in Tid, k \in Rid :
              Count(own'[k], Of(u)) + Count(pending'[k], Of(u)) + Here(t, r, u, k)
                = Count(own[k], Of(u)) + Count(pending[k], Of(u))
<1>1. own \in [Rid -> Seq(Entry)] /\ pending \in [Rid -> Seq(Entry)]
  BY DEF TypeOK
<1>2. \A u \in Tid, k \in Rid :
         Count(own[k], Of(u)) \in Nat /\ Count(pending[k], Of(u)) \in Nat /\ Here(t, r, u, k) \in Nat
  BY AgreeType DEF Numbers, Here
<1>3. HasEntry(own[r], t) \/ HasEntry(pending[r], t)
  <2>1. Agree(t, r) /\ Numbers(t, r)
    BY AgreeType DEF AgreeInv, Agree
  <2>2. Count(own[r], Of(t)) # 0 \/ Count(pending[r], Of(t)) # 0
    BY SMTT(30), <2>1 DEF Agree, Numbers
  <2>3. /\ Count(own[r], Of(t)) = 0 <=> \A i \in DOMAIN own[r] : own[r][i] \notin Of(t)
        /\ Count(pending[r], Of(t)) = 0 <=> \A i \in DOMAIN pending[r] : pending[r][i] \notin Of(t)
    <3>1. own[r] \in Seq(Entry) /\ pending[r] \in Seq(Entry)
      BY <1>1
    <3> QED
      BY <3>1, CountType
  <2> QED
    BY <2>2, <2>3 DEF HasEntry, Of
<1>4. CASE \E i \in DOMAIN own[r] :
             /\ own[r][i].tid = t
             /\ own' = [own EXCEPT ![r] = RemoveAt(own[r], i)]
             /\ MovePendingToOwned(RemoveAt(own[r], i), pending[r])
             /\ UNCHANGED pending
  <2>1. PICK i \in DOMAIN own[r] :
             /\ own[r][i].tid = t
             /\ own' = [own EXCEPT ![r] = RemoveAt(own[r], i)]
             /\ MovePendingToOwned(RemoveAt(own[r], i), pending[r])
             /\ UNCHANGED pending
    BY <1>4
  <2>2. fault' # "check"
    BY <2>1 DEF MovePendingToOwned, AgreeInv
  <2>3. \A u \in Tid, k \in Rid :
           Count(own[k], Of(u)) = Count(own'[k], Of(u)) + Here(t, r, u, k)
             /\ Count(own'[k], Of(u)) \in Nat
    <3>1. own \in [Rid -> Seq(Entry)]
      BY <1>1
    <3>2. /\ r \in Rid /\ t \in Tid /\ i \in DOMAIN own[r] /\ own[r][i].tid = t
          /\ own' = [own EXCEPT ![r] = RemoveAt(own[r], i)]
      BY <2>1
    <3> QED
      BY ONLY SMTT(30), <3>1, <3>2, EntryRemoved
  <2>4. ASSUME NEW u \in Tid, NEW k \in Rid
        PROVE  Count(own'[k], Of(u)) + Count(pending'[k], Of(u)) + Here(t, r, u, k)
                 = Count(own[k], Of(u)) + Count(pending[k], Of(u))
    <3>1. /\ Count(own[k], Of(u)) = Count(own'[k], Of(u)) + Here(t, r, u, k)
          /\ Count(own'[k], Of(u)) \in Nat
      BY <2>3
    <3>2. Count(pending[k], Of(u)) \in Nat /\ Here(t, r, u, k) \in Nat /\ pending' = pending
      BY <1>2, <2>1
    <3> QED
      BY SMTT(30), <3>1, <3>2
  <2> QED
    BY <2>2, <2>4
<1>5. CASE /\ \E i \in DOMAIN pending[r] :
                /\ pending[r][i].tid = t
                /\ pending' = [pending EXCEPT ![r] = RemoveAt(pending[r], i)]
           /\ UNCHANGED <<own, fault>>
  <2>1. PICK i \in DOMAIN pending[r] :
             /\ pending[r][i].tid = t
             /\ pending' = [pending EXCEPT ![r] = RemoveAt(pending[r], i)]
    BY <1>5
  <2>2. fault' # "check"
    BY <1>5 DEF AgreeInv
  <2>3. \A u \in Tid, k \in Rid :
           Count(pending[k], Of(u)) = Count(pending'[k], Of(u)) + Here(t, r, u, k)
             /\ Count(pending'[k], Of(u)) \in Nat
    <3>1. pending \in [Rid -> Seq(Entry)]
      BY <1>1
    <3>2. /\ r \in Rid /\ t \in Tid /\ i \in DOMAIN pending[r] /\ pending[r][i].tid = t
          /\ pending' = [pending EXCEPT ![r] = RemoveAt(pending[r], i)]
      BY <2>1
    <3> QED
      BY ONLY SMTT(30), <3>1, <3>2, EntryRemoved
  <2>4. ASSUME NEW u \in Tid, NEW k \in Rid
        PROVE  Count(own'[k], Of(u)) + Count(pending'[k], Of(u)) + Here(t, r, u, k)
                 = Count(own[k], Of(u)) + Count(pending[k], Of(u))
    <3>1. /\ Count(pending[k], Of(u)) = Count(pending'[k], Of(u)) + Here(t, r, u, k)
          /\ Count(pending'[k], Of(u)) \in Nat
      BY <2>3
    <3>2. Count(own[k], Of(u)) \in Nat /\ Here(t, r, u, k) \in Nat /\ own' = own
      BY <1>2, <1>5
    <3> QED
      BY SMTT(30), <3>1, <3>2
  <2> QED
    BY <2>2, <2>4
<1> QED
  BY <1>3, <1>4, <1>5 DEF DeleteLock, IsFirst

(* Both tables get the same lock. *)
LEMMA PlaceAgree ==
  ASSUME TypeOK, AgreeInv, NEW t \in Tid, NEW r \in Rid, NEW m \in Mode,
         PlaceInOwned(t, r, m) \/ PlaceInPending(t, r, m),
         call.kind # "release", call'.kind # "release", fault' = fault
  PROVE  AgreeInv'
<1> DEFINE e == [tid |-> t, mode |-> m]
<1>1. e \in Entry /\ e.tid = t
  BY DEF Entry
<1> HIDE DEF e
<1>2. /\ own \in [Rid -> Seq(Entry)] /\ pending \in [Rid -> Seq(Entry)]
      /\ held \in [Tid -> Seq(Rid)] /\ awaited \in [Tid -> Seq(Rid)]
  BY DEF TypeOK
<1>3. \A u \in Tid : ~Releasing(u)'
  BY DEF Releasing
<1>4. \A u \in Tid, k \in Rid : Todo(u, k) = 0 /\ Todo(u, k)' = 0
  BY DEF Todo, Releasing
<1>5. \A u \in Tid, k \in Rid : Agree(u, k) /\ Numbers(u, k) /\ Here(t, r, u, k) \in Nat
  BY AgreeType DEF AgreeInv, Agree, Here
<1>6. CASE PlaceInOwned(t, r, m)
  <2>1. /\ own' = [own EXCEPT ![r] = Append(@, e)] /\ held' = [held EXCEPT ![t] = Append(@, r)]
        /\ pending' = pending /\ awaited' = awaited
    BY <1>6 DEF PlaceInOwned, e
  <2>2. \A u \in Tid, k \in Rid : Count(own'[k], Of(u)) = Count(own[k], Of(u)) + Here(t, r, u, k)
    <3>1. ASSUME NEW u \in Tid, NEW k \in Rid
          PROVE  Count(own'[k], Of(u)) = Count(own[k], Of(u)) + Here(t, r, u, k)
      <4>1. own[k] \in Seq(Entry) /\ Count(own[k], Of(u)) \in Nat
        BY <1>2, <1>5 DEF Numbers
      <4>2. Count(Append(own[k], e), Of(u)) = Count(own[k], Of(u)) + IF u = t THEN 1 ELSE 0
        BY <1>1, <4>1, EntryAppended
      <4>3. own'[k] = IF k = r THEN Append(own[k], e) ELSE own[k]
        BY <1>2, <2>1
      <4> QED
        BY ONLY SMTT(30), <4>1, <4>2, <4>3 DEF Here
    <3> QED
      BY <3>1
  <2>3. \A u \in Tid, k \in Rid : Count(held'[u], {k}) = Count(held[u], {k}) + Here(t, r, u, k)
    <3>1. ASSUME NEW u \in Tid, NEW k \in Rid
          PROVE  Count(held'[u], {k}) = Count(held[u], {k}) + Here(t, r, u, k)
      <4>1. held[u] \in Seq(Rid) /\ Count(held[u], {k}) \in Nat
        BY <1>2, <1>5 DEF Numbers
      <4>2. Count(Append(held[u], r), {k}) = Count(held[u], {k}) + IF k = r THEN 1 ELSE 0
        BY <4>1, ListAppended
      <4>3. held'[u] = IF u = t THEN Append(held[u], r) ELSE held[u]
        BY <1>2, <2>1
      <4> QED
        BY ONLY SMTT(30), <4>1, <4>2, <4>3 DEF Here
    <3> QED
      BY <3>1
  <2>4. ASSUME NEW u \in Tid, NEW k \in Rid PROVE Agree(u, k)'
    <3>1. /\ Count(own'[k], Of(u)) = Count(own[k], Of(u)) + Here(t, r, u, k)
          /\ Count(held'[u], {k}) = Count(held[u], {k}) + Here(t, r, u, k)
          /\ Todo(u, k) = 0 /\ Todo(u, k)' = 0
      BY <1>4, <2>2, <2>3
    <3>2. Agree(u, k) /\ Numbers(u, k) /\ Here(t, r, u, k) \in Nat
      BY <1>5
    <3>3. Count(pending'[k], Of(u)) = Count(pending[k], Of(u)) /\ Count(awaited'[u], {k}) = Count(awaited[u], {k})
      BY <2>1
    <3> QED
      BY ONLY SMTT(30), <3>1, <3>2, <3>3 DEF Agree, Numbers
  <2> QED
    BY <1>3, <2>4 DEF AgreeInv, Agree
<1>7. CASE PlaceInPending(t, r, m)
  <2>1. /\ pending' = [pending EXCEPT ![r] = Append(@, e)]
        /\ awaited' = [awaited EXCEPT ![t] = Append(@, r)] /\ own' = own /\ held' = held
    BY <1>7 DEF PlaceInPending, e
  <2>2. \A u \in Tid, k \in Rid :
           Count(pending'[k], Of(u)) = Count(pending[k], Of(u)) + Here(t, r, u, k)
    <3>1. ASSUME NEW u \in Tid, NEW k \in Rid
          PROVE  Count(pending'[k], Of(u)) = Count(pending[k], Of(u)) + Here(t, r, u, k)
      <4>1. pending[k] \in Seq(Entry) /\ Count(pending[k], Of(u)) \in Nat
        BY <1>2, <1>5 DEF Numbers
      <4>2. Count(Append(pending[k], e), Of(u)) = Count(pending[k], Of(u)) + IF u = t THEN 1 ELSE 0
        BY <1>1, <4>1, EntryAppended
      <4>3. pending'[k] = IF k = r THEN Append(pending[k], e) ELSE pending[k]
        BY <1>2, <2>1
      <4> QED
        BY ONLY SMTT(30), <4>1, <4>2, <4>3 DEF Here
    <3> QED
      BY <3>1
  <2>3. \A u \in Tid, k \in Rid : Count(awaited'[u], {k}) = Count(awaited[u], {k}) + Here(t, r, u, k)
    <3>1. ASSUME NEW u \in Tid, NEW k \in Rid
          PROVE  Count(awaited'[u], {k}) = Count(awaited[u], {k}) + Here(t, r, u, k)
      <4>1. awaited[u] \in Seq(Rid) /\ Count(awaited[u], {k}) \in Nat
        BY <1>2, <1>5 DEF Numbers
      <4>2. Count(Append(awaited[u], r), {k}) = Count(awaited[u], {k}) + IF k = r THEN 1 ELSE 0
        BY <4>1, ListAppended
      <4>3. awaited'[u] = IF u = t THEN Append(awaited[u], r) ELSE awaited[u]
        BY <1>2, <2>1
      <4> QED
        BY ONLY SMTT(30), <4>1, <4>2, <4>3 DEF Here
    <3> QED
      BY <3>1
  <2>4. ASSUME NEW u \in Tid, NEW k \in Rid PROVE Agree(u, k)'
    <3>1. /\ Count(pending'[k], Of(u)) = Count(pending[k], Of(u)) + Here(t, r, u, k)
          /\ Count(awaited'[u], {k}) = Count(awaited[u], {k}) + Here(t, r, u, k)
          /\ Todo(u, k) = 0 /\ Todo(u, k)' = 0
      BY <1>4, <2>2, <2>3
    <3>2. Agree(u, k) /\ Numbers(u, k) /\ Here(t, r, u, k) \in Nat
      BY <1>5
    <3>3. Count(own'[k], Of(u)) = Count(own[k], Of(u)) /\ Count(held'[u], {k}) = Count(held[u], {k})
      BY <2>1
    <3> QED
      BY ONLY SMTT(30), <3>1, <3>2, <3>3 DEF Agree, Numbers
  <2> QED
    BY <1>3, <2>4 DEF AgreeInv, Agree
<1> QED
  BY <1>6, <1>7

(* A step that touches neither table and starts or ends no release. *)
LEMMA TablesSame ==
  ASSUME AgreeInv, UNCHANGED <<lockTable, transactions>>, fault' # "check",
         call' = call \/ (call.kind # "release" /\ call'.kind # "release")
  PROVE  AgreeInv'
<1>1. \A t \in Tid : Releasing(t)' <=> Releasing(t)
  BY DEF Releasing
<1>2. \A t \in Tid, r \in Rid : Todo(t, r)' = Todo(t, r)
  BY <1>1 DEF Todo, Releasing
<1> QED
  BY <1>1, <1>2 DEF AgreeInv, lockTable, transactions

(* Every step keeps the two tables in agreement. *)
LEMMA AgreeStep ==
  ASSUME TypeInvariant, AgreeInv, [Next]_vars
  PROVE  AgreeInv'
<1>0. TypeOK /\ fault # "check" /\ call \in Calls
  BY DEF TypeInvariant, TypeOK, AgreeInv
<1>1. CASE PollIncoming
  <2>1. call = NoCall /\ UNCHANGED lockTable /\ fault' = fault
    BY <1>1 DEF PollIncoming, Ready
  <2>2. CASE UNCHANGED <<call, transactions>>
    BY <1>0, <2>1, <2>2, TablesSame
  <2>3. CASE incoming # << >> /\ Head(incoming) \in Request
    BY SMTT(30), <1>0, <1>1, <2>1, <2>3, TablesSame DEF PollIncoming, StartAcquire, NoCall
  <2>4. CASE incoming # << >> /\ Head(incoming) \notin Request
    <3>1. Head(incoming) \in [tid : Tid, type : {ReleaseLocks}]
      BY SMTT(30), <1>0, <2>4 DEF TypeOK
    <3>2. Head(incoming).tid \in Tid /\ StartRelease(Head(incoming).tid)
      BY <1>1, <2>4, <3>1 DEF PollIncoming
    <3> QED
      BY <1>0, <2>1, <3>2, StartReleaseAgree
  <2> QED
    BY <1>1, <2>2, <2>3, <2>4 DEF PollIncoming
<1>2. CASE PollInner
  <2>1. call = NoCall /\ UNCHANGED <<lockTable, transactions, fault>>
    BY <1>2 DEF PollInner, Ready
  <2>2. call' = call \/ call'.kind = "acquire"
    BY SMTT(30), <1>2 DEF PollInner, StartAcquire
  <2> QED
    BY <1>0, <2>1, <2>2, TablesSame DEF NoCall
<1>3. CASE AcquireLock
  <2> DEFINE t == call.request.tid
             l == Head(call.todo)
  <2>1. call.kind = "acquire" /\ fault' = fault
    BY <1>3 DEF AcquireLock, Acquiring
  <2>2. /\ call.request \in Request /\ call.todo \in Seq(Step) /\ call.todo # << >>
        /\ call = [kind |-> "acquire", request |-> call.request, todo |-> call.todo]
    BY <1>0, <2>1, AcquireCall
  <2>3. l \in Step
    BY SMTT(30), <2>2
  <2>4. t \in Tid /\ l.rid \in Rid /\ l.mode \in Mode
    BY <2>2, <2>3 DEF Request, Step
  <2>5. call'.kind # "release"
    <3>1. call' = NoCall \/ call' = [call EXCEPT !.todo = Tail(@)]
      BY <1>3 DEF AcquireLock, GoOn, Permit, Postpone
    <3>2. call' = NoCall \/ call' = [kind |-> "acquire", request |-> call.request, todo |-> Tail(call.todo)]
      BY SMTT(30), <2>2, <3>1
    <3> QED
      BY SMTT(30), <3>2 DEF NoCall
  <2>6. \/ UNCHANGED <<lockTable, transactions>>
        \/ PlaceInOwned(t, l.rid, l.mode) \/ PlaceInPending(t, l.rid, l.mode)
    BY <1>3 DEF AcquireLock
  <2> HIDE DEF t, l
  <2>7. CASE UNCHANGED <<lockTable, transactions>>
    BY <1>0, <2>1, <2>5, <2>7, TablesSame
  <2>8. CASE PlaceInOwned(t, l.rid, l.mode) \/ PlaceInPending(t, l.rid, l.mode)
    BY <1>0, <2>1, <2>4, <2>5, <2>8, PlaceAgree
  <2> QED
    BY <2>6, <2>7, <2>8
<1>4. CASE ReleaseLock
  <2> DEFINE t == call.tid
             todo == call.todo
             r == Head(todo)
  <2>1. /\ t \in Tid /\ todo \in Seq(Rid) /\ call.kind = "release" /\ UNCHANGED transactions
        /\ call = [kind |-> "release", tid |-> t, todo |-> todo]
    BY <1>0, <1>4, ReleaseCall DEF ReleaseLock
  <2>2. \A u \in Tid : Releasing(u) <=> u = t
    BY <2>1 DEF Releasing
  <2>3. \A u \in Tid, k \in Rid :
           /\ Agree(u, k) /\ Numbers(u, k)
           /\ Todo(u, k) = IF u = t THEN Count(todo, {k}) ELSE 0
    BY <1>0, <2>2, AgreeType DEF AgreeInv, Agree, Todo
  <2>4. CASE todo = << >>
    <3>1. call' = NoCall /\ UNCHANGED <<lockTable, fault>>
      BY <1>4, <2>4 DEF ReleaseLock
    <3>2. \A u \in Tid : ~Releasing(u)'
      BY <3>1 DEF Releasing, NoCall
    <3>3. \A u \in Tid, k \in Rid : Todo(u, k)' = 0 /\ Todo(u, k) = 0
      BY <2>3, <2>4, <3>2, CountEmpty DEF Todo
    <3>4. ASSUME NEW u \in Tid, NEW k \in Rid PROVE Agree(u, k)'
      BY SMTT(30), <2>1, <2>3, <3>1, <3>3 DEF Agree, lockTable, transactions
    <3> QED
      BY <1>0, <3>1, <3>2, <3>4 DEF AgreeInv, Agree
  <2>5. CASE todo # << >>
    <3>1. call' = [kind |-> "release", tid |-> t, todo |-> Tail(todo)] /\ DeleteLock(t, r)
      BY <1>4, <2>1, <2>5 DEF ReleaseLock
    <3>2. r \in Rid /\ Tail(todo) \in Seq(Rid)
      BY SMTT(30), <2>1, <2>5
    <3>3. \A k \in Rid : /\ Count(todo, {k}) = Count(Tail(todo), {k}) + One(r, {k})
                         /\ Count(Tail(todo), {k}) \in Nat
      BY <2>1, <2>5, <3>2, CountTail, CountType
    <3>4. \A u \in Tid : Releasing(u)' <=> u = t
      BY <3>1 DEF Releasing
    <3>5. \A u \in Tid, k \in Rid : Todo(u, k)' = IF u = t THEN Count(Tail(todo), {k}) ELSE 0
      BY <3>1, <3>4 DEF Todo
    <3> HIDE DEF t, r, todo
    <3>6. \A u \in Tid, k \in Rid :
             Todo(u, k) = Todo(u, k)' + Here(t, r, u, k) /\ Todo(u, k)' \in Nat
               /\ Here(t, r, u, k) \in Nat
      <4>1. ASSUME NEW u \in Tid, NEW k \in Rid, u = t
            PROVE  Todo(u, k) = Todo(u, k)' + Here(t, r, u, k) /\ Todo(u, k)' \in Nat
        <5>1. Count(todo, {k}) = Count(Tail(todo), {k}) + One(r, {k}) /\ Count(Tail(todo), {k}) \in Nat
          BY <3>3
        <5>2. Todo(u, k) = Count(todo, {k}) /\ Todo(u, k)' = Count(Tail(todo), {k})
          BY <2>3, <3>5, <4>1
        <5> QED
          BY <4>1, <5>1, <5>2 DEF Here, One
      <4>2. ASSUME NEW u \in Tid, NEW k \in Rid, u # t
            PROVE  Todo(u, k) = Todo(u, k)' + Here(t, r, u, k) /\ Todo(u, k)' \in Nat
        <5>1. Todo(u, k) = 0 /\ Todo(u, k)' = 0
          BY <2>3, <3>5, <4>2
        <5> QED
          BY SMTT(30), <4>2, <5>1 DEF Here
      <4> QED
        BY <4>1, <4>2 DEF Here
    <3>7. Todo(t, r) >= 1
      <4>1. t \in Tid /\ r \in Rid
        BY <2>1, <3>2
      <4>2. PICK u \in Tid, k \in Rid : u = t /\ k = r
        BY <4>1
      <4>3. Todo(u, k) = Todo(u, k)' + Here(t, r, u, k) /\ Todo(u, k)' \in Nat
        BY <3>6
      <4>4. Here(t, r, u, k) = 1
        BY <4>2 DEF Here
      <4>5. Todo(u, k) >= 1
        BY SMTT(30), <4>3, <4>4
      <4> QED
        BY <4>2, <4>5
    <3>8. /\ fault' # "check"
          /\ \A u \in Tid, k \in Rid :
              Count(own'[k], Of(u)) + Count(pending'[k], Of(u)) + Here(t, r, u, k)
                = Count(own[k], Of(u)) + Count(pending[k], Of(u))
      BY <1>0, <2>1, <3>1, <3>2, <3>7, DeleteAgree
    <3>9. TypeOK'
      BY TypeInvariantStep DEF TypeInvariant
    <3>10. ASSUME NEW u \in Tid, NEW k \in Rid PROVE Agree(u, k)'
      <4>1. Agree(u, k) /\ Numbers(u, k)
        BY <2>3
      <4>2. Todo(u, k) = Todo(u, k)' + Here(t, r, u, k) /\ Todo(u, k)' \in Nat
               /\ Here(t, r, u, k) \in Nat
        BY <3>6
      <4>3. Count(own'[k], Of(u)) + Count(pending'[k], Of(u)) + Here(t, r, u, k)
                = Count(own[k], Of(u)) + Count(pending[k], Of(u))
        BY <3>8
      <4>4. Count(own'[k], Of(u)) \in Nat /\ Count(pending'[k], Of(u)) \in Nat
        <5>1. own'[k] \in Seq(Entry) /\ pending'[k] \in Seq(Entry)
          BY <3>9 DEF TypeOK
        <5> QED
          BY <5>1, CountType
      <4>5. held' = held /\ awaited' = awaited
        BY <2>1 DEF transactions
      <4> QED
        BY SMTT(30), <4>1, <4>2, <4>3, <4>4, <4>5 DEF Agree, Numbers
    <3>11. held' = held /\ awaited' = awaited /\ held[t] = << >> /\ awaited[t] = << >>
      BY <2>1, <2>2 DEF transactions, AgreeInv
    <3> QED
      BY <3>4, <3>8, <3>10, <3>11 DEF AgreeInv, Agree
  <2> QED
    BY <2>4, <2>5
<1>5. ASSUME NEW t \in Tid, KillVictim(t) PROVE AgreeInv'
  BY <1>0, <1>5, StartReleaseAgree DEF KillVictim, Ready
<1>6. CASE (\E r \in Requests : SendRequest(r)) \/ (\E t \in Tid : SendRelease(t))
  BY <1>0, <1>6, TablesSame DEF SendRequest, SendRelease, control
<1>7. CASE Idles /\ (fault' = fault \/ fault' = "graph")
  BY <1>0, <1>7, TablesSame DEF Idles
<1> QED
  BY <1>1, <1>2, <1>3, <1>4, <1>5, <1>6, <1>7, Steps

(* A granted lock is owned, and no owned lock is lost. *)
LEMMA OwnGrows ==
  ASSUME TypeOK, NEW t \in Tid, NEW r \in Rid, NEW m \in Mode, PlaceInOwned(t, r, m)
  PROVE  \A k \in Rid :
           Range(own'[k]) = Range(own[k]) \cup IF k = r THEN {[tid |-> t, mode |-> m]} ELSE {}
<1> DEFINE e == [tid |-> t, mode |-> m]
<1>1. \A k \in Rid : own[k] \in Seq(Entry) /\ own'[k] = IF k = r THEN Append(own[k], e) ELSE own[k]
  BY DEF TypeOK, PlaceInOwned
<1> HIDE DEF e
<1>2. \A q \in Seq(Entry) : Range(Append(q, e)) = Range(q) \cup {e}
  <2> TAKE q \in Seq(Entry)
  <2>1. /\ DOMAIN Append(q, e) = 1 .. Len(q) + 1 /\ DOMAIN q = 1 .. Len(q) /\ Len(q) \in Nat
        /\ Append(q, e)[Len(q) + 1] = e /\ \A k \in 1 .. Len(q) : Append(q, e)[k] = q[k]
    BY SMTT(30)
  <2>2. Len(q) + 1 \in DOMAIN Append(q, e) /\ DOMAIN Append(q, e) = DOMAIN q \cup {Len(q) + 1}
    BY SMTT(30), <2>1
  <2> QED
    BY SMTT(30), <2>1, <2>2 DEF Range
<1> QED
  BY <1>1, <1>2 DEF e

(* deleteLock() takes away a lock of the transaction, and of no other. *)
LEMMA OwnShrinks ==
  ASSUME TypeOK, NEW t \in Tid, NEW r \in Rid, DeleteLock(t, r)
  PROVE  \A k \in Rid : /\ Range(own'[k]) \subseteq Range(own[k])
                        /\ \A e \in Range(own[k]) : e.tid # t => e \in Range(own'[k])
<1>1. CASE own' = own
  BY <1>1
<1>2. CASE \E i \in DOMAIN own[r] : own[r][i].tid = t /\ own' = [own EXCEPT ![r] = RemoveAt(own[r], i)]
  <2>1. PICK d \in DOMAIN own[r] : own[r][d].tid = t /\ own' = [own EXCEPT ![r] = RemoveAt(own[r], d)]
    BY <1>2
  <2> DEFINE s == own[r]
             u == RemoveAt(s, d)
  <2>2. s \in Seq(Entry)
    BY DEF TypeOK
  <2>3. /\ u \in Seq(Entry) /\ Len(u) = Len(s) - 1
        /\ \A k \in 1 .. Len(s) - 1 : u[k] = IF k < d THEN s[k] ELSE s[k + 1]
    BY <2>1, <2>2, RemoveAtElements
  <2>4. \A k \in Rid : own'[k] = IF k = r THEN u ELSE own[k]
    BY <2>1 DEF TypeOK
  <2> HIDE DEF u
  <2>5. d \in 1 .. Len(s) /\ DOMAIN s = 1 .. Len(s) /\ Len(s) \in Nat /\ DOMAIN u = 1 .. Len(s) - 1
    BY SMTT(30), <2>1, <2>2, <2>3
  <2> HIDE DEF s
  <2>6. Range(u) \subseteq Range(s)
    <3>1. \A k \in DOMAIN u : \E j \in DOMAIN s : u[k] = s[j]
      BY SMTT(30), <2>3, <2>5
    <3> QED
      BY <3>1 DEF Range
  <2>7. \A e \in Range(s) : e.tid # t => e \in Range(u)
    <3>1. ASSUME NEW j \in DOMAIN s, j # d PROVE \E k \in DOMAIN u : u[k] = s[j]
      <4>1. CASE j < d
        <5>1. j \in DOMAIN u /\ u[j] = s[j]
          BY SMTT(30), <2>3, <2>5, <3>1, <4>1
        <5> QED
          BY <5>1
      <4>2. CASE j > d
        <5>1. j - 1 \in DOMAIN u /\ ~(j - 1 < d) /\ (j - 1) + 1 = j
          BY SMTT(30), <2>5, <3>1, <4>2
        <5>2. u[j - 1] = s[j]
          BY <2>3, <2>5, <5>1
        <5> QED
          BY <5>1, <5>2
      <4> QED
        BY SMTT(30), <2>5, <3>1, <4>1, <4>2
    <3>2. s[d].tid = t
      BY <2>1 DEF s
    <3> QED
      BY <3>1, <3>2 DEF Range
  <2> QED
    BY <2>4, <2>6, <2>7 DEF s
<1> QED
  BY <1>1, <1>2 DEF DeleteLock, lockTable, IsFirst

(* The path of a request: its length, and each lock's parent. *)
LEMMA PathParents ==
  ASSUME NEW q \in Request
  PROVE  /\ Len(LockPath(q)) \in Nat /\ DOMAIN LockPath(q) = 1 .. Len(LockPath(q))
         /\ \A i \in 1 .. Len(LockPath(q)) :
              /\ LockPath(q)[i].rid \in Rid /\ LockPath(q)[i].mode \in Mode
              /\ Len(LockPath(q)[i].rid) = i
              /\ i > 1 =>
                   /\ SubSeq(LockPath(q)[i].rid, 1, i - 1) = LockPath(q)[i - 1].rid
                   /\ LockPath(q)[i - 1].mode = IntentionMode(LockPath(q)[i].mode)
<1> DEFINE rid == q.rid
           n == Len(rid)
<1>1. rid \in Seq(Nat) /\ n \in Nat /\ q.mode \in Mode
  BY SMTT(30), LockAssumption DEF Request
<1>2. LockPath(q) \in Seq(Step)
  BY LockPathType
<1>3. /\ DOMAIN LockPath(q) = 1 .. n
      /\ \A i \in 1 .. n : /\ LockPath(q)[i].rid = SubSeq(rid, 1, i)
                           /\ LockPath(q)[i].mode = IF i = n THEN q.mode ELSE IntentionMode(q.mode)
  BY DEF LockPath
<1>4. Len(LockPath(q)) = n
  BY SMTT(30), <1>1, <1>2, <1>3
<1> HIDE DEF rid, n
<1>5. \A i \in 1 .. n : LockPath(q)[i].rid \in Rid /\ LockPath(q)[i].mode \in Mode
  <2>1. \A i \in 1 .. n : LockPath(q)[i] \in Step
    BY SMTT(30), <1>1, <1>2, <1>4
  <2> QED
    BY <2>1 DEF Step
<1>6. ASSUME NEW i \in 1 .. n PROVE Len(SubSeq(rid, 1, i)) = i
  BY SMTT(30), <1>1 DEF n
<1>7. ASSUME NEW i \in 1 .. n, i > 1 PROVE SubSeq(SubSeq(rid, 1, i), 1, i - 1) = SubSeq(rid, 1, i - 1)
  <2> DEFINE a == SubSeq(rid, 1, i)
             b == SubSeq(a, 1, i - 1)
             c == SubSeq(rid, 1, i - 1)
  <2>1. a \in Seq(Nat) /\ Len(a) = i /\ \A k \in 1 .. i : a[k] = rid[k]
    BY SMTT(30), <1>1 DEF n
  <2>2. c \in Seq(Nat) /\ Len(c) = i - 1 /\ \A k \in 1 .. i - 1 : c[k] = rid[k]
    BY SMTT(30), <1>1, <1>7 DEF n
  <2> HIDE DEF a, c
  <2>3. b \in Seq(Nat) /\ Len(b) = i - 1 /\ \A k \in 1 .. i - 1 : b[k] = a[k]
    BY SMTT(30), <1>7, <2>1
  <2> HIDE DEF b
  <2>4. \A k \in 1 .. i - 1 : b[k] = c[k]
    BY SMTT(30), <1>1, <2>1, <2>2, <2>3
  <2>5. b = c
    BY SMTT(30), <1>1, <2>2, <2>3, <2>4
  <2> QED
    BY <2>5 DEF a, b, c
<1>8. ASSUME NEW i \in 1 .. n, i > 1
      PROVE  LockPath(q)[i - 1].mode = IntentionMode(LockPath(q)[i].mode)
  <2>1. i - 1 \in 1 .. n /\ i - 1 # n
    BY SMTT(30), <1>1, <1>8
  <2>2. LockPath(q)[i - 1].mode = IntentionMode(q.mode)
    BY <1>3, <2>1
  <2>3. IntentionMode(IntentionMode(q.mode)) = IntentionMode(q.mode)
    BY DEF IntentionMode
  <2> QED
    BY <1>3, <2>2, <2>3
<1>9. \A i \in 1 .. n : i > 1 => SubSeq(LockPath(q)[i].rid, 1, i - 1) = LockPath(q)[i - 1].rid
  <2> SUFFICES ASSUME NEW i \in 1 .. n, i > 1
               PROVE  SubSeq(LockPath(q)[i].rid, 1, i - 1) = LockPath(q)[i - 1].rid
    OBVIOUS
  <2>1. i - 1 \in 1 .. n
    BY SMTT(30), <1>1
  <2> QED
    BY <1>3, <1>7, <2>1
<1>10. \A i \in 1 .. n : Len(LockPath(q)[i].rid) = i
  BY <1>3, <1>6
<1>11. \A i \in 1 .. n : i > 1 => LockPath(q)[i - 1].mode = IntentionMode(LockPath(q)[i].mode)
  BY <1>8
<1> QED
  BY ONLY Zenon, <1>1, <1>3, <1>4, <1>5, <1>9, <1>10, <1>11

(* A step that starts acquireLock() on a request has no lock of the path yet. *)
LEMMA StartPath ==
  ASSUME NEW q \in Request, StartAcquire(q)
  PROVE  PathInv'
<1>1. call'.kind = "acquire" /\ call'.request = q /\ call'.todo = LockPath(q)
  BY DEF StartAcquire
<1> DEFINE p == LockPath(q)
<1>2. p \in Seq(Step)
  BY LockPathType
<1> HIDE DEF p
<1>3. Len(p) = 0 + Len(p) /\ 1 .. 0 = {} /\ \A j \in DOMAIN p : p[j] = p[0 + j]
  BY SMTT(30), <1>2
<1>4. HasFirst(q.tid, p, p, 0)'
  BY <1>3 DEF HasFirst
<1> QED
  BY <1>1, <1>4 DEF PathInv, p

(* What a step of acquireLock() on the lock after the first k of the path does. *)
Gets(q, l) ==
  \/ Owns(q.tid, l) /\ UNCHANGED lockTable
  \/ PlaceInOwned(q.tid, l.rid, l.mode)
StepOf(q, path, todo, k) ==
  /\ q = call.request /\ path = LockPath(q)
  /\ call = [kind |-> "acquire", request |-> q, todo |-> todo]
  /\ HasFirst(q.tid, path, todo, k)
  /\ Len(todo) \in Nat \ {0} /\ k + 1 \in 1 .. Len(path) /\ Len(path) \in Nat
  /\ (GoOn /\ Gets(q, path[k + 1])) \/ (Postpone /\ UNCHANGED own)

(* Such a step exists whenever acquireLockInternal() is called. *)
LEMMA AcquireStep ==
  ASSUME TypeInvariant, PathInv, AcquireLock
  PROVE  \E q \in Request, path, todo \in Seq(Step), k \in Nat : StepOf(q, path, todo, k)
<1>1. call.kind = "acquire" /\ call \in Calls
  BY DEF AcquireLock, Acquiring, TypeInvariant, TypeOK
<1>2. /\ call.request \in Request /\ call.todo \in Seq(Step) \ {<< >>}
      /\ call = [kind |-> "acquire", request |-> call.request, todo |-> call.todo]
  BY <1>1, AcquireCall
<1>3. PICK q \in Request, path \in Seq(Step), todo \in Seq(Step) \ {<< >>} :
        q = call.request /\ path = LockPath(q) /\ todo = call.todo
  BY <1>2, LockPathType
<1>4. PICK k \in Nat : HasFirst(q.tid, path, todo, k)
  BY <1>1, <1>3 DEF PathInv
<1>5. /\ Len(todo) \in Nat \ {0} /\ DOMAIN todo = 1 .. Len(todo) /\ Len(path) \in Nat
      /\ Head(todo) = todo[1]
  BY SMTT(30), <1>3
<1>6. k + 1 \in 1 .. Len(path) /\ Head(todo) = path[k + 1]
  BY SMTT(30), <1>4, <1>5 DEF HasFirst
<1>7. (GoOn /\ Gets(q, Head(todo))) \/ (Postpone /\ UNCHANGED own)
  BY <1>3 DEF AcquireLock, Gets, Owns, PlaceInPending, lockTable
<1>8. StepOf(q, path, todo, k)
  BY <1>2, <1>3, <1>4, <1>5, <1>6, <1>7 DEF StepOf
<1> QED
  BY <1>8

(* After it, acquireLock() has one lock of the path more, if it goes on. *)
LEMMA OneMore ==
  ASSUME TypeOK, NEW q \in Request, NEW path, NEW todo \in Seq(Step), NEW k \in Nat,
         StepOf(q, path, todo, k), Gets(q, path[k + 1])
  PROVE  \A i \in 1 .. k + 1 : Owns(q.tid, path[i])'
<1>1. /\ q.tid \in Tid /\ Len(path) \in Nat /\ k + 1 \in 1 .. Len(path)
      /\ \A i \in 1 .. Len(path) : path[i].rid \in Rid /\ path[i].mode \in Mode
      /\ \A i \in 1 .. k : Owns(q.tid, path[i])
  BY PathParents DEF StepOf, HasFirst, Request
<1>2. \A i \in 1 .. k + 1 : i \in 1 .. k \/ i = k + 1
  BY SMTT(30)
<1>3. CASE Owns(q.tid, path[k + 1]) /\ UNCHANGED lockTable
  BY <1>1, <1>2, <1>3 DEF Owns, lockTable
<1>4. CASE PlaceInOwned(q.tid, path[k + 1].rid, path[k + 1].mode)
  <2>1. PICK r \in Rid, m \in Mode : r = path[k + 1].rid /\ m = path[k + 1].mode
    BY <1>1
  <2>2. \A j \in Rid :
          Range(own'[j]) = Range(own[j]) \cup IF j = r THEN {[tid |-> q.tid, mode |-> m]} ELSE {}
    <3>1. PICK t \in Tid : t = q.tid
      BY <1>1
    <3>2. PlaceInOwned(t, r, m)
      BY <1>4, <2>1, <3>1
    <3>3. \A j \in Rid :
            Range(own'[j]) = Range(own[j]) \cup IF j = r THEN {[tid |-> t, mode |-> m]} ELSE {}
      BY SMTT(30), <3>2, OwnGrows
    <3> QED
      BY ONLY Zenon, <3>1, <3>3
  <2>3. \A i \in 1 .. k : path[i].rid \in Rid
    BY SMTT(30), <1>1
  <2>4. \A i \in 1 .. k : [tid |-> q.tid, mode |-> path[i].mode] \in Range(own'[path[i].rid])
    BY <1>1, <2>2, <2>3 DEF Owns
  <2>5. [tid |-> q.tid, mode |-> m] \in Range(own'[r])
    BY <2>2
  <2> QED
    BY <1>2, <2>1, <2>4, <2>5 DEF Owns
<1> QED
  BY <1>3, <1>4 DEF Gets

(* Every step keeps what acquireLock() has of its path. *)
LEMMA PathStep ==
  ASSUME TypeInvariant, PathInv, [Next]_vars
  PROVE  PathInv'
<1>0. TypeOK /\ call \in Calls
  BY DEF TypeInvariant, TypeOK
<1>1. ASSUME call' = call, own' = own PROVE PathInv'
  <2>1. \A t, path, todo, k : HasFirst(t, path, todo, k)' <=> HasFirst(t, path, todo, k)
    BY <1>1 DEF HasFirst, Owns
  <2> QED
    BY <1>1, <2>1 DEF PathInv
<1>2. CASE PollIncoming
  <2>1. CASE call' = call /\ own' = own
    BY <1>1, <2>1
  <2>2. CASE incoming # << >> /\ Head(incoming) \in Request /\ StartAcquire(Head(incoming))
    BY <2>2, StartPath
  <2>3. CASE StartRelease(Head(incoming).tid)
    BY <2>3 DEF StartRelease, PathInv
  <2> QED
    BY <1>2, <2>1, <2>2, <2>3 DEF PollIncoming, lockTable
<1>3. CASE PollInner
  <2>1. CASE inner = << >>
    BY <1>1, <1>3, <2>1 DEF PollInner, lockTable
  <2>2. CASE inner # << >>
    <3>1. FrontRequest \in Request
      BY SMTT(30), <1>0, <2>2 DEF FrontRequest, TypeOK
    <3> QED
      BY <1>3, <2>2, <3>1, StartPath DEF PollInner
  <2> QED
    BY <2>1, <2>2
<1>4. CASE AcquireLock
  <2>1. PICK q \in Request, path, todo \in Seq(Step), k \in Nat : StepOf(q, path, todo, k)
    BY <1>4, AcquireStep
  <2>2. CASE call' = NoCall
    BY <2>2 DEF NoCall, PathInv
  <2>3. CASE GoOn /\ Gets(q, path[k + 1]) /\ call' # NoCall
    <3>1. /\ path = LockPath(q) /\ call = [kind |-> "acquire", request |-> q, todo |-> todo]
          /\ HasFirst(q.tid, path, todo, k) /\ Len(todo) \in Nat \ {0}
      BY <2>1 DEF StepOf
    <3>2. call' = [kind |-> "acquire", request |-> q, todo |-> Tail(todo)]
      BY <2>3, <3>1 DEF GoOn, Permit
    <3>3. \A i \in 1 .. k + 1 : Owns(q.tid, path[i])'
      BY <1>0, <2>1, <2>3, OneMore
    <3>4. /\ Len(Tail(todo)) = Len(todo) - 1 /\ DOMAIN Tail(todo) = 1 .. Len(todo) - 1
          /\ DOMAIN todo = 1 .. Len(todo)
          /\ \A j \in 1 .. Len(todo) - 1 : Tail(todo)[j] = todo[j + 1]
      BY SMTT(30), <3>1
    <3>5. Len(path) = (k + 1) + Len(Tail(todo))
      BY SMTT(30), <3>1, <3>4 DEF HasFirst
    <3>6. ASSUME NEW j \in DOMAIN Tail(todo) PROVE Tail(todo)[j] = path[(k + 1) + j]
      <4>1. Tail(todo)[j] = todo[j + 1] /\ j + 1 \in DOMAIN todo /\ k + (j + 1) = (k + 1) + j
        BY SMTT(30), <3>1, <3>4, <3>6
      <4> QED
        BY <3>1, <4>1 DEF HasFirst
    <3>7. HasFirst(q.tid, path, Tail(todo), k + 1)'
      BY <3>3, <3>5, <3>6 DEF HasFirst
    <3>8. call'.kind = "acquire" /\ call'.request = q /\ call'.todo = Tail(todo) /\ k + 1 \in Nat
      BY SMTT(30), <3>2
    <3> QED
      BY <3>1, <3>7, <3>8 DEF PathInv
  <2> QED
    BY <2>1, <2>2, <2>3 DEF StepOf, Postpone
<1>5. CASE ReleaseLock
  <2>1. call = [kind |-> "release", tid |-> call.tid, todo |-> call.todo]
    BY <1>0, <1>5, ReleaseCall DEF ReleaseLock
  <2>2. call' = NoCall \/ call' = [kind |-> "release", tid |-> call.tid, todo |-> Tail(call.todo)]
    BY <1>5, <2>1 DEF ReleaseLock
  <2>3. call'.kind # "acquire"
    BY ONLY SMTT(30), <2>2 DEF NoCall
  <2> QED
    BY ONLY Zenon, <2>3 DEF PathInv
<1>6. CASE \E t \in Tid : KillVictim(t)
  <2>1. call'.kind # "acquire"
    BY ONLY SMTT(30), <1>6 DEF KillVictim, StartRelease
  <2> QED
    BY ONLY Zenon, <2>1 DEF PathInv
<1>7. CASE (\E r \in Requests : SendRequest(r)) \/ (\E t \in Tid : SendRelease(t)) \/ Idles
  BY <1>1, <1>7 DEF SendRequest, SendRelease, control, lockTable, Idles
<1> QED
  BY <1>2, <1>3, <1>4, <1>5, <1>6, <1>7, Steps

(* The lock acquireLockInternal() grants is on a child of the last one before it. *)
LEMMA ChildLocked ==
  ASSUME TypeOK, AncestorInv, call.kind # "release", call'.kind # "release",
         NEW q \in Request, NEW path, NEW todo \in Seq(Step), NEW k \in Nat,
         StepOf(q, path, todo, k), Gets(q, path[k + 1])
  PROVE  AncestorInv'
<1> DEFINE Parent(r) == SubSeq(r, 1, Len(r) - 1)
           Up(e) == [tid |-> e.tid, mode |-> IntentionMode(e.mode)]
<1>1. \A t : ~Releasing(t) /\ ~Releasing(t)'
  BY DEF Releasing
<1>2. CASE UNCHANGED lockTable
  BY <1>1, <1>2 DEF AncestorInv, lockTable
<1>3. CASE PlaceInOwned(q.tid, path[k + 1].rid, path[k + 1].mode)
  <2>1. /\ q.tid \in Tid /\ k + 1 \in 1 .. Len(path)
        /\ \A i \in 1 .. k : Owns(q.tid, path[i])
        /\ \A i \in 1 .. Len(path) :
              /\ path[i].rid \in Rid /\ path[i].mode \in Mode
              /\ Len(path[i].rid) = i
              /\ i > 1 => /\ SubSeq(path[i].rid, 1, i - 1) = path[i - 1].rid
                          /\ path[i - 1].mode = IntentionMode(path[i].mode)
    BY PathParents DEF StepOf, HasFirst, Request
  <2>2. PICK t \in Tid, r \in Rid, m \in Mode :
           t = q.tid /\ r = path[k + 1].rid /\ m = path[k + 1].mode
    BY <2>1
  <2>3. \A j \in Rid :
          Range(own'[j]) = Range(own[j]) \cup IF j = r THEN {[tid |-> t, mode |-> m]} ELSE {}
    <3>1. PlaceInOwned(t, r, m)
      BY <1>3, <2>2
    <3> QED
      BY <3>1, OwnGrows
  <2>4. \A j \in Rid : Len(j) > 1 => Parent(j) \in Rid
    <3> SUFFICES ASSUME NEW j \in Rid, Len(j) > 1 PROVE Parent(j) \in Rid
      OBVIOUS
    <3>1. j \in Seq(Nat)
      BY LockAssumption
    <3>2. Len(j) - 1 \in 1 .. Len(j)
      BY SMTT(30), <3>1
    <3> QED
      BY <3>2, LockAssumption
  <2>5. Len(r) > 1 => [tid |-> t, mode |-> IntentionMode(m)] \in Range(own[Parent(r)])
    <3> SUFFICES ASSUME Len(r) > 1
                 PROVE  [tid |-> t, mode |-> IntentionMode(m)] \in Range(own[Parent(r)])
      OBVIOUS
    <3>1. Len(r) = k + 1 /\ k \in 1 .. k /\ (k + 1) - 1 = k /\ k + 1 > 1
      BY SMTT(30), <2>1, <2>2
    <3>2. Parent(r) = path[k].rid /\ IntentionMode(m) = path[k].mode
      BY <2>1, <2>2, <3>1
    <3> HIDE DEF Parent
    <3> QED
      BY <2>1, <2>2, <3>1, <3>2 DEF Owns
  <2> HIDE DEF Parent
  <2>6. ASSUME NEW j \in Rid, NEW e \in Range(own'[j]), Len(j) > 1
        PROVE  Up(e) \in Range(own'[Parent(j)])
    <3>1. CASE e \in Range(own[j])
      <4>1. Up(e) \in Range(own[Parent(j)])
        BY <1>1, <2>6, <3>1 DEF AncestorInv, Parent
      <4> QED
        BY <2>3, <2>4, <2>6, <4>1
    <3>2. CASE j = r /\ e = [tid |-> t, mode |-> m]
      <4>1. Up(e) = [tid |-> t, mode |-> IntentionMode(m)]
        BY <3>2
      <4> QED
        BY <2>3, <2>4, <2>5, <2>6, <3>2, <4>1
    <3> QED
      BY <2>3, <2>6, <3>1, <3>2
  <2> QED
    BY <2>6 DEF AncestorInv, Parent
<1> QED
  BY <1>2, <1>3 DEF Gets

(* Every step keeps the ancestors of a lock locked. *)
LEMMA AncestorStep ==
  ASSUME TypeInvariant, AgreeInv, PathInv, AncestorInv, [Next]_vars
  PROVE  AncestorInv'
<1>0. TypeOK /\ call \in Calls
  BY DEF TypeInvariant, TypeOK
<1>1. ASSUME own' = own, \A t \in Tid : Releasing(t) => Releasing(t)' PROVE AncestorInv'
  <2>1. \A r \in Rid : \A e \in Range(own[r]) : e.tid \in Tid
    <3>1. \A r \in Rid : own[r] \in Seq(Entry)
      BY <1>0 DEF TypeOK
    <3>2. \A r \in Rid : \A e \in Range(own[r]) : e \in Entry
      BY SMTT(30), <3>1 DEF Range
    <3> QED
      BY <3>2 DEF Entry
  <2> QED
    BY <1>1, <2>1 DEF AncestorInv
<1>2. CASE PollIncoming \/ PollInner \/ (\E t \in Tid : KillVictim(t))
  <2>1. own' = own /\ call = NoCall
    BY <1>2 DEF PollIncoming, PollInner, KillVictim, Ready, lockTable
  <2> QED
    BY <1>1, <2>1 DEF Releasing, NoCall
<1>3. CASE AcquireLock
  <2>1. PICK q \in Request, path, todo \in Seq(Step), k \in Nat : StepOf(q, path, todo, k)
    BY <1>3, AcquireStep
  <2>2. call = [kind |-> "acquire", request |-> q, todo |-> todo] /\ call.kind = "acquire"
    BY SMTT(30), <2>1 DEF StepOf
  <2>3. CASE Postpone /\ UNCHANGED own
    BY <1>1, <2>2, <2>3 DEF Releasing
  <2>4. CASE GoOn /\ Gets(q, path[k + 1])
    <3>1. call' = NoCall \/ call' = [kind |-> "acquire", request |-> q, todo |-> Tail(todo)]
      BY <2>2, <2>4 DEF GoOn, Permit
    <3>2. call.kind # "release" /\ call'.kind # "release"
      BY SMTT(30), <2>2, <3>1 DEF NoCall
    <3> QED
      BY <1>0, <2>1, <2>4, <3>2, ChildLocked
  <2> QED
    BY <2>1, <2>3, <2>4 DEF StepOf
<1>4. CASE ReleaseLock
  <2>1. PICK t \in Tid, todo \in Seq(Rid) : call = [kind |-> "release", tid |-> t, todo |-> todo]
    BY <1>0, <1>4, ReleaseCall DEF ReleaseLock
  <2>2. \A u : Releasing(u) <=> u = t
    BY <2>1 DEF Releasing
  <2>3. CASE todo = << >>
    <3>1. own' = own
      BY <1>4, <2>1, <2>3 DEF ReleaseLock, lockTable
    <3>2. \A r \in Rid : \A e \in Range(own[r]) : e.tid # t
      <4>1. SUFFICES ASSUME NEW r \in Rid PROVE \A e \in Range(own[r]) : e.tid # t
        OBVIOUS
      <4>2. held[t] = << >> /\ awaited[t] = << >> /\ Releasing(t) /\ call.todo = << >>
        BY <2>1, <2>2, <2>3 DEF AgreeInv
      <4>3. Count(held[t], {r}) = 0 /\ Count(awaited[t], {r}) = 0 /\ Todo(t, r) = 0
        BY <4>2, CountEmpty DEF Todo
      <4>4. Agree(t, r) /\ Numbers(t, r)
        BY <1>0, AgreeType DEF AgreeInv, Agree
      <4>5. Count(own[r], Of(t)) = 0
        BY SMTT(30), <4>3, <4>4 DEF Agree, Numbers
      <4>6. own[r] \in Seq(Entry)
        BY <1>0 DEF TypeOK
      <4>7. \A i \in DOMAIN own[r] : own[r][i] \notin Of(t)
        BY <4>5, <4>6, CountType
      <4>8. \A i \in DOMAIN own[r] : own[r][i] \in Entry
        BY SMTT(30), <4>6
      <4> QED
        BY <4>7, <4>8 DEF Of, Range
    <3> QED
      BY <2>2, <3>1, <3>2 DEF AncestorInv
  <2>4. CASE todo # << >>
    <3>1. call' = [kind |-> "release", tid |-> t, todo |-> Tail(todo)] /\ DeleteLock(t, Head(todo))
      BY <1>4, <2>1, <2>4 DEF ReleaseLock
    <3>2. PICK r \in Rid : r = Head(todo)
      BY SMTT(30), <2>4
    <3>3. \A k \in Rid : /\ Range(own'[k]) \subseteq Range(own[k])
                         /\ \A e \in Range(own[k]) : e.tid # t => e \in Range(own'[k])
      <4>1. DeleteLock(t, r)
        BY <3>1, <3>2
      <4> QED
        BY <1>0, <4>1, OwnShrinks
    <3>4. \A u : Releasing(u)' <=> u = t
      BY <3>1 DEF Releasing
    <3>5. ASSUME NEW k \in Rid, NEW e \in Range(own'[k]), Len(k) > 1, e.tid # t
          PROVE  [tid |-> e.tid, mode |-> IntentionMode(e.mode)]
                   \in Range(own'[SubSeq(k, 1, Len(k) - 1)])
      <4>1. e \in Range(own[k])
        BY <3>3
      <4>2. [tid |-> e.tid, mode |-> IntentionMode(e.mode)] \in Range(own[SubSeq(k, 1, Len(k) - 1)])
        BY <2>2, <3>5, <4>1 DEF AncestorInv
      <4>3. SubSeq(k, 1, Len(k) - 1) \in Rid
        <5>1. k \in Seq(Nat)
          BY LockAssumption
        <5>2. Len(k) - 1 \in 1 .. Len(k)
          BY SMTT(30), <3>5, <5>1
        <5> QED
          BY <5>2, LockAssumption
      <4> QED
        BY <3>3, <3>5, <4>2, <4>3
    <3> QED
      BY <3>4, <3>5 DEF AncestorInv
  <2> QED
    BY <2>3, <2>4
<1>5. CASE (\E r \in Requests : SendRequest(r)) \/ (\E t \in Tid : SendRelease(t)) \/ Idles
  <2>1. own' = own /\ call' = call
    BY <1>5 DEF SendRequest, SendRelease, control, lockTable, Idles
  <2> QED
    BY <1>1, <2>1 DEF Releasing
<1> QED
  BY <1>2, <1>3, <1>4, <1>5, Steps

(* Every step releases only transactions that asked for it or are victims. *)
LEMMA AskedStep ==
  ASSUME TypeInvariant, AskedInv, [Next]_vars
  PROVE  AskedInv'
<1> DEFINE M == Request \cup [tid : Tid, type : {ReleaseLocks}]
<1>0. TypeOK /\ call \in Calls /\ incoming \in Seq(M)
  BY DEF TypeInvariant, TypeOK
<1> HIDE DEF M
<1>1. CASE PollIncoming
  <2>1. released' = released /\ killed' = killed /\ call = NoCall
    BY <1>1 DEF PollIncoming, Ready, clients
  <2>2. CASE incoming = << >>
    BY <1>1, <2>1, <2>2 DEF PollIncoming, AskedInv, Releasing
  <2>3. CASE incoming # << >>
    <3>1. incoming' = Tail(incoming) /\ Head(incoming) = incoming[1] /\ 1 \in DOMAIN incoming
      BY SMTT(30), <1>0, <1>1, <2>3 DEF PollIncoming
    <3>2. \A i \in DOMAIN incoming' : i + 1 \in DOMAIN incoming /\ incoming'[i] = incoming[i + 1]
      BY SMTT(30), <1>0, <2>3, <3>1
    <3>3. \A t \in Tid : Releasing(t)' => t \in released
      <4>1. CASE Head(incoming) \in Request
        BY SMTT(30), <1>1, <2>3, <4>1 DEF PollIncoming, StartAcquire, Releasing
      <4>2. CASE Head(incoming) \notin Request
        <5>1. StartRelease(Head(incoming).tid)
          BY <1>1, <2>3, <4>2 DEF PollIncoming
        <5>2. Head(incoming).tid \in released
          BY <3>1, <4>2 DEF AskedInv
        <5> QED
          BY <5>1, <5>2 DEF StartRelease, Releasing
      <4> QED
        BY <4>1, <4>2
    <3> QED
      BY <2>1, <3>2, <3>3 DEF AskedInv
  <2> QED
    BY <2>2, <2>3
<1>2. CASE PollInner
  BY SMTT(30), <1>2 DEF PollInner, Ready, NoCall, StartAcquire, queues, clients, AskedInv, Releasing
<1>3. CASE AcquireLock
  <2>1. call.kind = "acquire" /\ UNCHANGED <<incoming, released, killed>>
    BY <1>3 DEF AcquireLock, Acquiring, clients
  <2>2. call = [kind |-> "acquire", request |-> call.request, todo |-> call.todo]
    BY <1>0, <2>1, AcquireCall
  <2>3. call' = NoCall \/ call' = [kind |-> "acquire", request |-> call.request, todo |-> Tail(call.todo)]
    BY SMTT(30), <1>3, <2>2 DEF AcquireLock, GoOn, Permit, Postpone
  <2> QED
    BY SMTT(30), <2>1, <2>3 DEF AskedInv, Releasing, NoCall
<1>4. CASE ReleaseLock
  <2>1. UNCHANGED <<incoming, released, killed>>
    BY <1>4 DEF ReleaseLock, queues, clients
  <2>2. call = [kind |-> "release", tid |-> call.tid, todo |-> call.todo]
    BY <1>0, <1>4, ReleaseCall DEF ReleaseLock
  <2>3. call' = NoCall \/ call' = [kind |-> "release", tid |-> call.tid, todo |-> Tail(call.todo)]
    BY <1>4, <2>2 DEF ReleaseLock
  <2>4. \A t \in Tid : Releasing(t)' => Releasing(t)
    BY SMTT(30), <2>2, <2>3 DEF Releasing, NoCall
  <2> QED
    BY <2>1, <2>4 DEF AskedInv
<1>5. CASE \E t \in Tid : KillVictim(t)
  BY SMTT(30), <1>5 DEF KillVictim, StartRelease, queues, clients, AskedInv, Releasing
<1>6. CASE (\E r \in Requests : SendRequest(r)) \/ (\E t \in Tid : SendRelease(t))
  <2>1. PICK m \in M : /\ incoming' = Append(incoming, m)
                       /\ m \in Request \/ m.tid \in released'
    <3>1. \A t \in Tid : Release(t) \in M /\ Release(t).tid = t
      BY DEF Release, M
    <3>2. Requests \subseteq M /\ Requests \subseteq Request
      BY LockAssumption DEF M
    <3> QED
      BY <1>6, <3>1, <3>2 DEF SendRequest, SendRelease
  <2>2. released \subseteq released' /\ killed' = killed /\ call' = call
    BY <1>6 DEF SendRequest, SendRelease, control
  <2>3. \A i \in DOMAIN incoming' :
           incoming'[i] = m \/ (i \in DOMAIN incoming /\ incoming'[i] = incoming[i])
    BY SMTT(30), <1>0, <2>1
  <2>4. \A i \in DOMAIN incoming' : incoming'[i] \notin Request => incoming'[i].tid \in released'
    BY <2>1, <2>2, <2>3 DEF AskedInv
  <2> QED
    BY <2>2, <2>4 DEF AskedInv, Releasing
<1>7. CASE Idles
  BY <1>7 DEF Idles, queues, AskedInv, Releasing
<1> QED
  BY <1>1, <1>2, <1>3, <1>4, <1>5, <1>6, <1>7, Steps

(* Every step leaves a permitted transaction the locks of its request. *)
LEMMA HoldStep ==
  ASSUME TypeInvariant, PathInv, AskedInv, HoldInv, [Next]_vars
  PROVE  HoldInv'
<1>0. TypeOK /\ call \in Calls
  BY DEF TypeInvariant, TypeOK
<1>1. ASSUME UNCHANGED <<own, permitted>>, killed \subseteq killed', released \subseteq released'
      PROVE  HoldInv'
  <2>1. \A r \in permitted : HoldsPath(r)' <=> HoldsPath(r)
    BY <1>1 DEF HoldsPath, Owns
  <2> QED
    BY <1>1, <2>1 DEF HoldInv
<1>2. CASE PollIncoming \/ PollInner \/ (\E t \in Tid : KillVictim(t))
  BY <1>1, <1>2 DEF PollIncoming, PollInner, KillVictim, lockTable, queues, clients
<1>3. CASE AcquireLock
  <2>1. PICK q \in Request, path, todo \in Seq(Step), k \in Nat : StepOf(q, path, todo, k)
    BY <1>3, AcquireStep
  <2>2. killed' = killed /\ released' = released
    BY <1>3 DEF AcquireLock, clients
  <2>3. CASE Postpone /\ UNCHANGED own
    BY <1>1, <2>2, <2>3 DEF Postpone
  <2>4. CASE GoOn /\ Gets(q, path[k + 1])
    <3>1. ASSUME NEW r \in Request, HoldsPath(r) PROVE HoldsPath(r)'
      <4>1. \A i \in DOMAIN LockPath(r) : LockPath(r)[i].rid \in Rid
        BY PathParents
      <4>2. \A j \in Rid : Range(own[j]) \subseteq Range(own'[j])
        <5>1. CASE UNCHANGED lockTable
          BY <5>1 DEF lockTable
        <5>2. CASE PlaceInOwned(q.tid, path[k + 1].rid, path[k + 1].mode)
          <6>1. q.tid \in Tid /\ path[k + 1].rid \in Rid /\ path[k + 1].mode \in Mode
            BY <2>1, PathParents DEF StepOf, Request
          <6>2. PICK t \in Tid, l \in Rid, m \in Mode : PlaceInOwned(t, l, m)
            BY <5>2, <6>1
          <6> QED
            BY <1>0, <6>2, OwnGrows
        <5> QED
          BY <2>4, <5>1, <5>2 DEF Gets
      <4> QED
        BY <3>1, <4>1, <4>2 DEF HoldsPath, Owns
    <3>2. permitted' = permitted \/ (permitted' = permitted \cup {q} /\ Len(todo) = 1)
      BY SMTT(30), <2>1, <2>4 DEF GoOn, Permit, StepOf
    <3>3. Len(todo) = 1 => HoldsPath(q)'
      <4> SUFFICES ASSUME Len(todo) = 1 PROVE HoldsPath(q)'
        OBVIOUS
      <4>1. \A i \in 1 .. k + 1 : Owns(q.tid, path[i])'
        BY <1>0, <2>1, <2>4, OneMore
      <4>2. path = LockPath(q) /\ Len(path) = k + 1 /\ DOMAIN path = 1 .. Len(path)
        BY <2>1, PathParents DEF StepOf, HasFirst
      <4> QED
        BY <4>1, <4>2 DEF HoldsPath
    <3>4. permitted \subseteq Request
      BY <1>0 DEF TypeOK
    <3> QED
      BY <2>2, <3>1, <3>2, <3>3, <3>4 DEF HoldInv
  <2> QED
    BY <2>1, <2>3, <2>4 DEF StepOf
<1>4. CASE ReleaseLock
  <2>1. PICK t \in Tid, todo \in Seq(Rid) : call = [kind |-> "release", tid |-> t, todo |-> todo]
    BY <1>0, <1>4, ReleaseCall DEF ReleaseLock
  <2>2. t \in killed \cup released /\ UNCHANGED <<permitted, killed, released>>
    BY <1>4, <2>1 DEF AskedInv, Releasing, ReleaseLock, queues, clients
  <2>3. CASE todo = << >>
    BY <1>1, <1>4, <2>1, <2>2, <2>3 DEF ReleaseLock, lockTable
  <2>4. CASE todo # << >>
    <3>1. DeleteLock(t, Head(todo)) /\ Head(todo) \in Rid
      BY SMTT(30), <1>4, <2>1, <2>4 DEF ReleaseLock
    <3>2. \A k \in Rid : \A e \in Range(own[k]) : e.tid # t => e \in Range(own'[k])
      <4>1. PICK r \in Rid : DeleteLock(t, r)
        BY <3>1
      <4> QED
        BY <1>0, <4>1, OwnShrinks
    <3>3. ASSUME NEW r \in Request, r.tid # t, HoldsPath(r) PROVE HoldsPath(r)'
      <4>1. \A i \in DOMAIN LockPath(r) : LockPath(r)[i].rid \in Rid
        BY PathParents
      <4>2. ASSUME NEW i \in DOMAIN LockPath(r) PROVE Owns(r.tid, LockPath(r)[i])'
        <5> DEFINE e == [tid |-> r.tid, mode |-> LockPath(r)[i].mode]
        <5>1. e \in Range(own[LockPath(r)[i].rid]) /\ e.tid # t
          BY <3>3 DEF HoldsPath, Owns
        <5> HIDE DEF e
        <5>2. e \in Range(own'[LockPath(r)[i].rid])
          BY <3>2, <4>1, <5>1
        <5> QED
          BY <5>2 DEF Owns, e
      <4> QED
        BY <4>2 DEF HoldsPath
    <3>4. permitted \subseteq Request
      BY <1>0 DEF TypeOK
    <3> QED
      BY <2>2, <3>3, <3>4 DEF HoldInv
  <2> QED
    BY <2>3, <2>4
<1>5. CASE (\E r \in Requests : SendRequest(r)) \/ (\E t \in Tid : SendRelease(t)) \/ Idles
  BY <1>1, <1>5 DEF SendRequest, SendRelease, lockTable, queues, Idles
<1> QED
  BY <1>2, <1>3, <1>4, <1>5, Steps

(* The invariant holds initially ... *)
LEMMA LockInvInit == Init => LockInv
<1> SUFFICES ASSUME Init PROVE LockInv
  OBVIOUS
<1>1. TypeInvariant
  BY TypeInvariantInit
<1>2. /\ \A r \in Rid : own[r] = << >> /\ pending[r] = << >>
      /\ \A t \in Tid : held[t] = << >> /\ awaited[t] = << >>
      /\ incoming = << >> /\ inner = << >> /\ permitted = {} /\ sent = {} /\ call = NoCall
      /\ fault = "none"
  BY DEF Init
<1>3. \A t : ~Releasing(t)
  BY <1>2 DEF Releasing, NoCall
<1>4. ConserveInv
  <2>1. \A r \in Request : /\ Count(incoming, {r}) = 0 /\ Count(inner, {r}) = 0
                           /\ One(r, permitted) = 0 /\ One(r, sent) = 0 /\ InCall(r) = 0
    BY <1>2, CountEmpty DEF One, InCall, NoCall
  <2> QED
    BY SMTT(30), <1>2, <2>1 DEF ConserveInv, Working
<1>5. AgreeInv
  <2>1. \A t \in Tid, r \in Rid :
           /\ Count(own[r], Of(t)) = 0 /\ Count(pending[r], Of(t)) = 0
           /\ Count(held[t], {r}) = 0 /\ Count(awaited[t], {r}) = 0 /\ Todo(t, r) = 0
    BY <1>2, <1>3, CountEmpty DEF Todo
  <2>2. ASSUME NEW t \in Tid, NEW r \in Rid PROVE Agree(t, r)
    <3>1. /\ Count(own[r], Of(t)) = 0 /\ Count(pending[r], Of(t)) = 0
          /\ Count(held[t], {r}) = 0 /\ Count(awaited[t], {r}) = 0 /\ Todo(t, r) = 0
      BY <2>1
    <3> QED
      BY ONLY SMTT(30), <3>1 DEF Agree
  <2> QED
    BY <1>2, <1>3, <2>2 DEF AgreeInv, Agree
<1>6. PathInv
  BY <1>2 DEF PathInv, NoCall
<1>7. AncestorInv
  BY SMTT(30), <1>2 DEF AncestorInv, Range
<1>8. AskedInv /\ HoldInv
  BY SMTT(30), <1>2, <1>3 DEF AskedInv, HoldInv
<1> QED
  BY <1>1, <1>4, <1>5, <1>6, <1>7, <1>8 DEF LockInv

(* ... and every step keeps it. *)
LEMMA LockInvStep == LockInv /\ [Next]_vars => LockInv'
BY TypeInvariantStep, ConserveStep, AgreeStep, PathStep, AncestorStep, AskedStep, HoldStep
   DEF LockInv

(* The lock manager keeps its tables, its queues and its calls consistent.     *)
THEOREM LockManagerCorrect == Spec => []LockInv
BY LockInvInit, LockInvStep, PTL DEF Spec

(* The TransactionTable lists a transaction's locks in the LockTable, owned or *)
(* pending, each once, at every point of acquireLock() and releaseAllLocks().  *)
THEOREM TablesAlwaysAgree == Spec => []TablesAgree
<1>1. LockInv => TablesAgree
  <2> SUFFICES ASSUME LockInv, NEW t \in Tid, NEW r \in Rid
               PROVE  Entries(t, r) = Occurrences(held[t], r) + Occurrences(awaited[t], r)
                        + IF call.kind = "release"
                          THEN IF call.tid = t THEN Occurrences(call.todo, r) ELSE 0 ELSE 0
    BY DEF TablesAgree
  <2>1. TypeOK /\ Agree(t, r)
    BY DEF LockInv, TypeInvariant, AgreeInv, Agree
  <2>2. own[r] \in Seq(Entry) /\ pending[r] \in Seq(Entry)
    BY <2>1 DEF TypeOK
  <2>3. ASSUME NEW s \in Seq(Entry) PROVE Cardinality({i \in DOMAIN s : s[i].tid = t}) = Count(s, Of(t))
    <3>1. \A i \in DOMAIN s : s[i] \in Entry
      BY SMTT(30)
    <3>2. {i \in DOMAIN s : s[i].tid = t} = Positions(s, Of(t))
      BY <3>1 DEF Positions, Of
    <3> QED
      BY <3>2 DEF Count
  <2>4. \A s : Occurrences(s, r) = Count(s, {r})
    <3> TAKE s
    <3>1. {i \in DOMAIN s : s[i] = r} = Positions(s, {r})
      BY DEF Positions
    <3> QED
      BY <3>1 DEF Occurrences, Count
  <2>5. Entries(t, r) = Count(own[r], Of(t)) + Count(pending[r], Of(t))
    BY <2>2, <2>3 DEF Entries
  <2>6. Todo(t, r) = IF call.kind = "release"
                     THEN IF call.tid = t THEN Occurrences(call.todo, r) ELSE 0 ELSE 0
    BY <2>4 DEF Todo, Releasing
  <2>7. /\ Occurrences(held[t], r) = Count(held[t], {r})
        /\ Occurrences(awaited[t], r) = Count(awaited[t], {r})
    BY <2>4
  <2> QED
    BY ONLY Zenon, <2>1, <2>5, <2>6, <2>7 DEF Agree
<1> QED
  BY <1>1, LockManagerCorrect, PTL

(* CHECK(... deleteLock() ...) of releaseAllLocks() never fails. *)
THEOREM DeleteNeverFails == Spec => [](fault # "check")
<1>1. LockInv => fault # "check"
  BY DEF LockInv, AgreeInv
<1> QED
  BY <1>1, LockManagerCorrect, PTL

(* Each request sent is in one queue, in the call or answered, and only once. *)
THEOREM RequestsAreConserved == Spec => []RequestsConserved
<1>1. LockInv => RequestsConserved
  <2> SUFFICES ASSUME LockInv, NEW r \in sent
               PROVE  Occurrences(incoming, r) + Occurrences(inner, r) + Cardinality({r} \cap permitted)
                        + (IF Acquiring /\ call.request = r /\ loop = "incoming" THEN 1 ELSE 0) = 1
    BY DEF RequestsConserved
  <2>1. TypeOK /\ r \in Request
    BY DEF LockInv, TypeInvariant, TypeOK
  <2>2. Count(incoming, {r}) + Count(inner, {r}) + One(r, permitted) + InCall(r) = One(r, sent)
    BY <2>1 DEF LockInv, ConserveInv
  <2>3. \A s : Occurrences(s, r) = Count(s, {r})
    <3> TAKE s
    <3>1. {i \in DOMAIN s : s[i] = r} = Positions(s, {r})
      BY DEF Positions
    <3> QED
      BY <3>1 DEF Occurrences, Count
  <2>4. Cardinality({r} \cap permitted) = One(r, permitted)
    <3>1. CASE r \in permitted
      <4>1. {r} \cap permitted = {r}
        BY <3>1
      <4>2. Cardinality({r}) = 1
        BY FS_Singleton
      <4> QED
        BY <3>1, <4>1, <4>2 DEF One
    <3>2. CASE r \notin permitted
      <4>1. {r} \cap permitted = {}
        BY <3>2
      <4>2. Cardinality({}) = 0
        BY FS_EmptySet
      <4> QED
        BY <3>2, <4>1, <4>2 DEF One
    <3> QED
      BY <3>1, <3>2
  <2>5. InCall(r) = IF Acquiring /\ call.request = r /\ loop = "incoming" THEN 1 ELSE 0
    <3>1. ~Working => call.kind # "acquire"
      BY DEF LockInv, ConserveInv
    <3> QED
      BY <3>1 DEF InCall, Acquiring
  <2>6. One(r, sent) = 1
    BY DEF One
  <2> QED
    BY SMTT(30), <2>2, <2>3, <2>4, <2>5, <2>6
<1> QED
  BY <1>1, LockManagerCorrect, PTL

(* Whoever owns a lock owns the matching intention lock on the parent. *)
THEOREM AncestorsAreLocked == Spec => []AncestorsLocked
<1>1. LockInv => AncestorsLocked
  BY DEF LockInv, AncestorInv, AncestorsLocked, Releasing
<1> QED
  BY <1>1, LockManagerCorrect, PTL

(* A permitted transaction keeps the locks it was told it has. *)
THEOREM PermittedKeepLocks == Spec => []PermittedHolds
<1>1. LockInv => PermittedHolds
  BY DEF LockInv, HoldInv, HoldsPath, Owns, PermittedHolds
<1> QED
  BY <1>1, LockManagerCorrect, PTL

=============================================================================
