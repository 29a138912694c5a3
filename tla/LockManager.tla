----------------------------- MODULE LockManager ----------------------------
(* Multi-granularity locking: the LockManager thread with its LockTable and    *)
(* TransactionTable, the DeadLockDetector thread, and transactions that send   *)
(* lock requests through a ThreadSafeQueue.  The two threads share the latched *)
(* lock table, an atomic status and the buffer of victims.                     *)
EXTENDS Integers, Sequences, FiniteSets, Functions

(* The sequence s without its element i, as erasing it from the list leaves it. *)
RemoveAt(s, i) == SubSeq(s, 1, i - 1) \o SubSeq(s, i + 1, Len(s))

CONSTANTS
  Tid,         \* transaction ids
  Rid,         \* resource ids: <<db>>, <<db, relation>>, <<db, relation, block>>, ...
  Requests,    \* the lock requests the transactions may send
  kMaxTry,     \* kMaxTryIncoming and kMaxTryInner, both FLAGS_max_try_incoming
  MaxScans     \* bound: scans of the deadlock detector

Mode == {"NL", "IS", "IX", "S", "SIX", "X"}
Request == [tid : Tid, rid : Rid, mode : Mode]
Entry == [tid : Tid, mode : Mode]

(* kLockCompatibilityMatrix *)
CompatibleModes(m) ==
  CASE m = "NL"  -> Mode
    [] m = "IS"  -> Mode \ {"X"}
    [] m = "IX"  -> {"NL", "IS", "IX"}
    [] m = "S"   -> {"NL", "IS", "S"}
    [] m = "SIX" -> {"NL", "IS"}
    [] m = "X"   -> {"NL"}

IntentionMode(m) == IF m \in {"S", "IS"} THEN "IS" ELSE "IX"

(* Mutant: the leaf is locked before its ancestors. *)
LeafFirst(r) ==
  [i \in 1 .. Len(r.rid) |->
     [rid |-> SubSeq(r.rid, 1, Len(r.rid) + 1 - i),
      mode |-> IF i = 1 THEN r.mode ELSE IntentionMode(r.mode)]]

(* acquireLock(): the locks of a request from the root to the leaf. *)
LockPath(r) ==
  [i \in 1 .. Len(r.rid) |->
     [rid |-> SubSeq(r.rid, 1, i),
      mode |-> IF i = Len(r.rid) THEN r.mode ELSE IntentionMode(r.mode)]]

ASSUME LockAssumption ==
  /\ Rid \subseteq Seq(Nat)
  /\ << >> \notin Rid
  /\ \A r \in Rid : \A i \in 1 .. Len(r) : SubSeq(r, 1, i) \in Rid
  /\ Requests \subseteq Request
  /\ kMaxTry \in Nat \ {0}
  /\ MaxScans \in Nat

VARIABLES
  own,         \* own list of each resource in the LockTable
  pending,     \* pending list of each resource in the LockTable
  held,        \* own list of each transaction in the TransactionTable
  awaited,     \* pending list of each transaction in the TransactionTable
  incoming,    \* incoming_requests_
  inner,       \* inner_pending_requests_
  permitted,   \* permitted_requests_
  loop,        \* where LockManager::run() is
  tries,       \* tries of its current for loop
  call,        \* acquireLock() or releaseAllLocks() in progress
  toKill,      \* victims killVictims() has still to release
  status,      \* detector_status_
  victims,     \* victim_result_
  detector,    \* where DeadLockDetector::run() is
  batch,       \* victim_new_batch
  nodeOf,      \* tid_node_mapping_: node id plus one, 0 if there is none
  scans,       \* number of scans so far
  sent,        \* requests sent so far
  released,    \* transactions that have sent kReleaseLocks
  killed,      \* transactions released by killVictims()
  fault        \* how the process failed, if it did

lockTable    == <<own, pending>>
transactions == <<held, awaited>>
queues       == <<incoming, inner, permitted>>
control      == <<loop, tries, call, toKill>>
detection    == <<detector, batch, nodeOf, scans>>
clients      == <<sent, released>>
vars == <<lockTable, transactions, queues, control, status, victims, detection, clients,
          killed, fault>>

ReleaseLocks == "kReleaseLocks"
Release(t) == [tid |-> t, type |-> ReleaseLocks]
NoCall == [kind |-> "none"]
Calls ==
  {NoCall} \cup [kind : {"acquire"}, request : Request, todo : Seq([rid : Rid, mode : Mode]) \ {<< >>}]
           \cup [kind : {"release"}, tid : Tid, todo : Seq(Rid)]

(* The state of the two threads, the lock and transaction tables and the       *)
(* queues has the types that the code's declarations give it.                  *)
TypeOK ==
  /\ own \in [Rid -> Seq(Entry)]
  /\ pending \in [Rid -> Seq(Entry)]
  /\ held \in [Tid -> Seq(Rid)]
  /\ awaited \in [Tid -> Seq(Rid)]
  /\ incoming \in Seq(Request \cup [tid : Tid, type : {ReleaseLocks}])
  /\ inner \in Seq(Request)
  /\ permitted \in SUBSET Request
  /\ loop \in {"incoming", "inner", "load", "kill", "clear", "store"}
  /\ tries \in 0 .. kMaxTry
  /\ call \in Calls
  /\ toKill \in SUBSET Tid
  /\ status \in {"kNotReady", "kDone"}
  /\ victims \in SUBSET Tid
  /\ detector \in {"check", "scan", "swap", "signal"}
  /\ batch \in SUBSET Tid
  /\ nodeOf \in [Tid -> Nat]
  /\ scans \in 0 .. MaxScans
  /\ sent \in SUBSET Request
  /\ released \in SUBSET Tid
  /\ killed \in SUBSET Tid
  /\ fault \in {"none", "hang", "check", "graph"}

Init ==
  /\ own = [r \in Rid |-> << >>]
  /\ pending = [r \in Rid |-> << >>]
  /\ held = [t \in Tid |-> << >>]
  /\ awaited = [t \in Tid |-> << >>]
  /\ incoming = << >>
  /\ inner = << >>
  /\ permitted = {}
  /\ loop = "incoming"
  /\ tries = 0
  /\ call = NoCall
  /\ toKill = {}
  /\ status = "kNotReady"
  /\ victims = {}
  /\ detector = "check"
  /\ batch = {}
  /\ nodeOf = [t \in Tid |-> 0]
  /\ scans = 0
  /\ sent = {}
  /\ released = {}
  /\ killed = {}
  /\ fault = "none"

-----------------------------------------------------------------------------
(* LockTable.  Each action runs under the exclusive latch.                     *)

IsFirst(i, s, t) == s[i].tid = t /\ \A j \in 1 .. i - 1 : s[j].tid # t
HasEntry(s, t) == \E i \in DOMAIN s : s[i].tid = t

(* Mutant: the owners are not looked at. *)
IgnoreOwners(entries, m) == TRUE

CompatibleWithAll(entries, m) == \A e \in Range(entries) : e.mode \in CompatibleModes(m)

(* putLock() and acquireLockInternal(): the request is granted, ... *)
PlaceInOwned(t, r, m) ==
  /\ pending[r] = << >>
  /\ CompatibleWithAll(own[r], m)
  /\ own' = [own EXCEPT ![r] = Append(@, [tid |-> t, mode |-> m])]
  /\ held' = [held EXCEPT ![t] = Append(@, r)]
  /\ UNCHANGED <<pending, awaited>>

(* ... or has to wait: behind an incompatible owner, or behind the others that *)
(* wait, "to eliminate starvation".                                            *)
PlaceInPending(t, r, m) ==
  /\ pending[r] # << >> \/ ~CompatibleWithAll(own[r], m)
  /\ pending' = [pending EXCEPT ![r] = Append(@, [tid |-> t, mode |-> m])]
  /\ awaited' = [awaited EXCEPT ![t] = Append(@, r)]
  /\ UNCHANGED <<own, held>>

(* movePendingToOwned().  The loop over the owners compares with the end of    *)
(* the pending list, so it runs past the end of the own list, into its header  *)
(* node and round again.  It ends only at an incompatible mode: at a real      *)
(* owner's, or at whatever the header's bytes are read as.  No entry is ever   *)
(* moved: either the loop breaks off, or it goes round for ever (or crashes on *)
(* what it reads).                                                             *)
MovePendingToOwned(owners, waiting) ==
  \/ fault' = fault
  \/ /\ waiting # << >>
     /\ CompatibleWithAll(owners, Head(waiting).mode)
     /\ fault' = "hang"

(* deleteLock(): the transaction's first lock on the resource, owned ones      *)
(* before pending ones.                                                        *)
DeleteLock(t, r) ==
  \/ \E i \in DOMAIN own[r] :
       /\ IsFirst(i, own[r], t)
       /\ own' = [own EXCEPT ![r] = RemoveAt(own[r], i)]
       /\ MovePendingToOwned(RemoveAt(own[r], i), pending[r])
       /\ UNCHANGED pending
  \/ /\ ~HasEntry(own[r], t)
     /\ \E i \in DOMAIN pending[r] :
          /\ IsFirst(i, pending[r], t)
          /\ pending' = [pending EXCEPT ![r] = RemoveAt(pending[r], i)]
     /\ UNCHANGED <<own, fault>>
  \/ /\ ~HasEntry(own[r], t) /\ ~HasEntry(pending[r], t)
     /\ fault' = "check"
     /\ UNCHANGED lockTable

-----------------------------------------------------------------------------
(* The LockManager thread. *)

Working == fault = "none"
Ready(phase) == Working /\ loop = phase /\ call = NoCall

StartAcquire(r) == call' = [kind |-> "acquire", request |-> r, todo |-> LockPath(r)]

(* Mutant: the locks a transaction still waits for are left in the table. *)
StartReleaseOwned(t) ==
  /\ call' = [kind |-> "release", tid |-> t, todo |-> held[t]]
  /\ held' = [held EXCEPT ![t] = << >>]
  /\ awaited' = [awaited EXCEPT ![t] = << >>]

(* releaseAllLocks() up to its loop: the resource ids, pending ones first, are *)
(* copied and the transaction's entry is deleted.                              *)
StartRelease(t) ==
  /\ call' = [kind |-> "release", tid |-> t, todo |-> awaited[t] \o held[t]]
  /\ held' = [held EXCEPT ![t] = << >>]
  /\ awaited' = [awaited EXCEPT ![t] = << >>]

(* Mutant: one try too many. *)
OneMoreTry == tries <= kMaxTry

TriesLeft == tries < kMaxTry

(* A try of the loop over incoming_requests_. *)
PollIncoming ==
  /\ Ready("incoming") /\ TriesLeft
  /\ tries' = tries + 1
  /\ \/ incoming = << >> /\ UNCHANGED <<incoming, call, transactions>>
     \/ /\ incoming # << >>
        /\ incoming' = Tail(incoming)
        /\ \/ /\ Head(incoming) \in Request
              /\ StartAcquire(Head(incoming)) /\ UNCHANGED transactions
           \/ /\ Head(incoming) \notin Request
              /\ StartRelease(Head(incoming).tid)
  /\ UNCHANGED <<lockTable, inner, permitted, loop, toKill, status, victims, detection,
                 clients, killed, fault>>

FrontRequest == Head(inner)

(* A try of the loop over inner_pending_requests_: only its front is tried. *)
PollInner ==
  /\ Ready("inner") /\ TriesLeft
  /\ tries' = tries + 1
  /\ IF inner = << >> THEN UNCHANGED call ELSE StartAcquire(FrontRequest)
  /\ UNCHANGED <<lockTable, transactions, queues, loop, toKill, status, victims, detection,
                 clients, killed, fault>>

EndOfTries ==
  /\ \/ Ready("incoming") /\ tries = kMaxTry /\ loop' = "inner"
     \/ Ready("inner") /\ tries = kMaxTry /\ loop' = "load"
  /\ tries' = 0
  /\ UNCHANGED <<lockTable, transactions, queues, call, toKill, status, victims, detection,
                 clients, killed, fault>>

(* The request has all locks of its path. *)
Permit ==
  /\ permitted' = permitted \cup {call.request}
  /\ inner' = IF loop = "inner" THEN Tail(inner) ELSE inner
  /\ call' = NoCall

(* Mutant: a request that is pending already counts as granted. *)
PendingIsGranted == Permit

(* Mutant: a request that is retried in vain is queued once more. *)
QueueAgain ==
  /\ inner' = Append(inner, call.request)
  /\ call' = NoCall
  /\ UNCHANGED permitted

(* The request has to wait; its ancestors' locks are kept. *)
Postpone ==
  /\ inner' = IF loop = "inner" THEN inner ELSE Append(inner, call.request)
  /\ call' = NoCall
  /\ UNCHANGED permitted

GoOn ==
  IF Len(call.todo) = 1 THEN Permit
  ELSE call' = [call EXCEPT !.todo = Tail(@)] /\ UNCHANGED <<inner, permitted>>

Acquiring == Working /\ call.kind = "acquire"

(* acquireLockInternal() on the next lock of the path *)
AcquireLock ==
  /\ Acquiring
  /\ LET t == call.request.tid
         r == Head(call.todo).rid
         m == Head(call.todo).mode
         e == [tid |-> t, mode |-> m]
     IN \/ /\ e \in Range(own[r])
           /\ GoOn /\ UNCHANGED <<lockTable, transactions>>
        \/ /\ e \notin Range(own[r]) /\ e \in Range(pending[r])
           /\ Postpone /\ UNCHANGED <<lockTable, transactions>>
        \/ /\ e \notin Range(own[r]) \cup Range(pending[r])
           /\ \/ PlaceInOwned(t, r, m) /\ GoOn
              \/ PlaceInPending(t, r, m) /\ Postpone
  /\ UNCHANGED <<incoming, loop, tries, toKill, status, victims, detection, clients, killed,
                 fault>>

(* The loop of releaseAllLocks() *)
ReleaseLock ==
  /\ Working /\ call.kind = "release"
  /\ \/ /\ call.todo = << >>
        /\ call' = NoCall
        /\ UNCHANGED <<lockTable, fault>>
     \/ /\ call.todo # << >>
        /\ call' = [call EXCEPT !.todo = Tail(@)]
        /\ DeleteLock(call.tid, Head(call.todo))
  /\ UNCHANGED <<transactions, queues, loop, tries, toKill, status, victims, detection,
                 clients, killed>>

(* killVictims(): load the status, latch the table and release the victims'    *)
(* locks if it is kDone; in any case clear the buffer and store kNotReady.     *)
LoadStatus ==
  /\ Ready("load")
  /\ IF status = "kDone" THEN loop' = "kill" /\ toKill' = victims
                         ELSE loop' = "clear" /\ UNCHANGED toKill
  /\ UNCHANGED <<lockTable, transactions, queues, tries, call, status, victims, detection,
                 clients, killed, fault>>

KillVictim(t) ==
  /\ Ready("kill") /\ t \in toKill
  /\ StartRelease(t)
  /\ toKill' = toKill \ {t}
  /\ killed' = killed \cup {t}
  /\ UNCHANGED <<lockTable, queues, loop, tries, status, victims, detection, clients, fault>>

EndOfKilling ==
  /\ Ready("kill") /\ toKill = {}
  /\ loop' = "clear"
  /\ UNCHANGED <<lockTable, transactions, queues, tries, call, toKill, status, victims,
                 detection, clients, killed, fault>>

ClearVictims ==
  /\ Ready("clear")
  /\ loop' = "store"
  /\ victims' = {}
  /\ UNCHANGED <<lockTable, transactions, queues, tries, call, toKill, status, detection,
                 clients, killed, fault>>

StoreNotReady ==
  /\ Ready("store")
  /\ loop' = "incoming"
  /\ status' = "kNotReady"
  /\ UNCHANGED <<lockTable, transactions, queues, tries, call, toKill, victims, detection,
                 clients, killed, fault>>

-----------------------------------------------------------------------------
(* The DeadLockDetector thread. *)

Latched == call # NoCall \/ loop = "kill"

CheckStatus ==
  /\ Working /\ detector = "check" /\ status # "kDone" /\ scans < MaxScans
  /\ detector' = "scan"
  /\ scans' = scans + 1
  /\ UNCHANGED <<lockTable, transactions, queues, control, status, victims, batch, nodeOf,
                 clients, killed, fault>>

(* The wait-for relation: whoever waits for a resource waits for all owners. *)
Owners == {e.tid : e \in UNION {Range(own[r]) : r \in Rid}}
WaitsFor ==
  UNION {{<<p.tid, o.tid>> : p \in Range(pending[r]), o \in Range(own[r])} : r \in Rid}
Scanned == Owners \cup {w[1] : w \in WaitsFor}

(* No cycle of two nodes or more is left outside V, and V lies on such cycles: *)
(* what CycleDetector computes, see there.                                     *)
Reachable(nodes, edges, v) ==
  {w \in nodes : \A T \in SUBSET nodes :
     (\A x \in T \cup {v} : {y \in nodes : <<x, y>> \in edges} \subseteq T) => w \in T}
OnCycle(nodes, edges) ==
  {v \in nodes : \E w \in nodes \ {v} :
     w \in Reachable(nodes, edges, v) /\ v \in Reachable(nodes, edges, w)}
BreaksCycles(V, nodes, edges) ==
  V \subseteq OnCycle(nodes, edges) /\ OnCycle(nodes \ V, edges) = {}

(* getAllVictims(): the graph starts empty, but tid_node_mapping_ still has    *)
(* the node ids of earlier graphs, and only transactions new to it get a node. *)
(* An edge at a node the graph does not have is an access out of range.        *)
GetAllVictims ==
  /\ Working /\ detector = "scan" /\ ~Latched
  /\ LET new == {t \in Scanned : nodeOf[t] = 0}
         nodes == 1 .. Cardinality(new)
         edges == {<<nodeOf'[w[1]], nodeOf'[w[2]]>> : w \in WaitsFor}
     IN /\ \E node \in Bijection(new, nodes) :
             nodeOf' = [t \in Tid |-> IF t \in new THEN node[t] ELSE nodeOf[t]]
        /\ \/ /\ ~(edges \subseteq nodes \X nodes)
              /\ fault' = "graph"
              /\ UNCHANGED batch
           \/ /\ edges \subseteq nodes \X nodes
              /\ \E V \in SUBSET nodes :
                   BreaksCycles(V, nodes, edges) /\ batch' = {t \in new : nodeOf'[t] \in V}
              /\ UNCHANGED fault
  /\ detector' = "swap"
  /\ UNCHANGED <<lockTable, transactions, queues, control, status, victims, scans, clients,
                 killed>>

SwapVictims ==
  /\ Working /\ detector = "swap"
  /\ detector' = "signal"
  /\ victims' = batch
  /\ batch' = {}
  /\ UNCHANGED <<lockTable, transactions, queues, control, status, nodeOf, scans, clients,
                 killed, fault>>

SignalDone ==
  /\ Working /\ detector = "signal"
  /\ detector' = "check"
  /\ status' = "kDone"
  /\ UNCHANGED <<lockTable, transactions, queues, control, victims, batch, nodeOf, scans,
                 clients, killed, fault>>

-----------------------------------------------------------------------------
(* The transactions: any of their requests, then a release. *)

SendRequest(r) ==
  /\ Working /\ r \in Requests \ sent /\ r.tid \notin released
  /\ incoming' = Append(incoming, r)
  /\ sent' = sent \cup {r}
  /\ UNCHANGED <<lockTable, transactions, inner, permitted, control, status, victims,
                 detection, released, killed, fault>>

SendRelease(t) ==
  /\ Working /\ t \notin released
  /\ incoming' = Append(incoming, Release(t))
  /\ released' = released \cup {t}
  /\ UNCHANGED <<lockTable, transactions, inner, permitted, control, status, victims,
                 detection, sent, killed, fault>>

-----------------------------------------------------------------------------
ManagerStep ==
  \/ PollIncoming \/ PollInner \/ EndOfTries
  \/ AcquireLock \/ ReleaseLock
  \/ LoadStatus \/ EndOfKilling \/ ClearVictims \/ StoreNotReady
  \/ \E t \in Tid : KillVictim(t)

DetectorStep == CheckStatus \/ GetAllVictims \/ SwapVictims \/ SignalDone

ClientStep == (\E r \in Requests : SendRequest(r)) \/ (\E t \in Tid : SendRelease(t))

Failed == ~Working /\ UNCHANGED vars

Next == ManagerStep \/ DetectorStep \/ ClientStep \/ Failed

Spec == Init /\ [][Next]_vars

-----------------------------------------------------------------------------
(* Properties. *)

(* A retried request is the front of inner_pending_requests_, so that pop()    *)
(* after acquireLock() removes the request that was granted and no other.      *)
FrontRetried ==
  call.kind = "acquire" =>
    loop = "incoming" \/ (loop = "inner" /\ inner # << >> /\ call.request = Head(inner))

(* What locking is for: the locks owned on a resource are pairwise compatible. *)
OwnedCompatible ==
  \A r \in Rid : \A i, j \in DOMAIN own[r] :
    i # j => own[r][i].mode \in CompatibleModes(own[r][j].mode)

(* Multi-granularity: whoever owns a lock on a resource also owns the matching *)
(* intention lock on its parent, whatever mixture of requests, waiting and     *)
(* releases led there.  (While releaseAllLocks() runs, under the latch, the    *)
(* ancestors' locks are released before the others.)                           *)
AncestorsLocked ==
  call.kind # "release" => \A r \in Rid : \A e \in Range(own[r]) : Len(r) > 1 =>
    [tid |-> e.tid, mode |-> IntentionMode(e.mode)] \in Range(own[SubSeq(r, 1, Len(r) - 1)])

Entries(t, r) ==
  Cardinality({i \in DOMAIN own[r] : own[r][i].tid = t})
    + Cardinality({i \in DOMAIN pending[r] : pending[r][i].tid = t})
Occurrences(s, r) == Cardinality({i \in DOMAIN s : s[i] = r})

(* The TransactionTable lists for a transaction each of its locks in the       *)
(* LockTable, owned or pending, exactly once, although the two are updated     *)
(* separately: releaseAllLocks() misses no lock and its CHECK on deleteLock()  *)
(* does not fail.                                                              *)
TablesAgree ==
  \A t \in Tid, r \in Rid :
    Entries(t, r) = Occurrences(held[t], r) + Occurrences(awaited[t], r)
      + IF call.kind = "release" THEN IF call.tid = t THEN Occurrences(call.todo, r) ELSE 0 ELSE 0

(* A request is answered at most once and never forgotten: it is in exactly    *)
(* one of the queues or in the call being processed.                           *)
RequestsConserved ==
  \A r \in sent :
    Occurrences(incoming, r) + Occurrences(inner, r) + Cardinality({r} \cap permitted)
      + (IF Acquiring /\ call.request = r /\ loop = "incoming" THEN 1 ELSE 0) = 1

(* A permitted transaction holds the locks it was told it has until it         *)
(* releases them or is killed.                                                 *)
PermittedHolds ==
  \A r \in permitted : r.tid \notin killed \cup released =>
    \A i \in DOMAIN LockPath(r) :
      [tid |-> r.tid, mode |-> LockPath(r)[i].mode] \in Range(own[LockPath(r)[i].rid])

(* deleteLock(): "Since we erased a lock entry from owned list, the first      *)
(* entries in the pending list can be pushed to owned list if they are         *)
(* compatible with the remaining owned entries."                               *)
ReleaseWakesPending ==
  [][\A r \in Rid : Len(own'[r]) < Len(own[r]) /\ pending'[r] # << >> =>
       \E e \in Range(own'[r]) : e.mode \notin CompatibleModes(Head(pending'[r]).mode)]_vars

(* "Signal LockTable that new batch is ready.": a batch of victims leaves      *)
(* victim_result_ only after killVictims() has released their locks.           *)
BatchProcessed == [][victims' # victims => victims \subseteq killed]_vars

(* "Destroy the wait graph. It will be reconstructed kSleepDurationSeconds     *)
(* seconds later.": no edge of a later graph is at a node it does not have.    *)
GraphReconstructed == fault # "graph"
=============================================================================
