------------------------- MODULE StorageLockProofs --------------------------
(***************************************************************************)
(* A step of StorageManager keeps the types of its variables, what is      *)
(* known of the threads' places and arguments, of block ids, of the locks  *)
(* of shards and of references to blocks in memory.                        *)
(***************************************************************************)
EXTENDS StoragePool, TLAPS

USE ZenonT(60)

(***************************************************************************)
(* Counting up or down keeps a function a function to the integers.        *)
(***************************************************************************)
LEMMA CountTyped ==
    ASSUME NEW S, NEW f \in [S -> Int], NEW s
    PROVE  /\ [f EXCEPT ![s] = @ + 1] \in [S -> Int]
           /\ [f EXCEPT ![s] = @ - 1] \in [S -> Int]
           /\ [f EXCEPT ![s] = 0] \in [S -> Int]
<1>1. CASE s \in S
  BY SMTT(30), <1>1
<1>2. CASE s \notin S
  BY <1>2
<1>3. QED BY <1>1, <1>2

(***************************************************************************)
(* The operations of a lock keep its types.                                *)
(***************************************************************************)
LEMMA MutexTyped ==
    ASSUME MutexType, NEW s,
           \/ SetWriteBit(s) \/ Drained(s) \/ unlock(s) \/ AddReader(s) \/ RemoveReader(s)
    PROVE  MutexType'
<1>1. CASE AddReader(s) \/ RemoveReader(s)
  BY SMTT(30), <1>1, CountTyped DEF MutexType, AddReader, RemoveReader
<1>2. CASE SetWriteBit(s) \/ Drained(s) \/ unlock(s)
  BY <1>2 DEF MutexType, SetWriteBit, Drained, unlock, mutexVars
<1>3. QED BY <1>1, <1>2

(***************************************************************************)
(* The methods of the eviction policy keep its types.                      *)
(***************************************************************************)
LEMMA PolicyTyped ==
    ASSUME PolicyType, NEW b \in Block,
           \/ chooseBlockToEvict(b) \/ blockCreated(b) \/ blockEvicted(b)
           \/ blockReferenced(b) \/ blockUnreferenced(b) \/ blockDeleted(b)
    PROVE  PolicyType'
<1>1. refCount' \in [Block -> Int]
  BY SMTT(30), CountTyped DEF PolicyType, chooseBlockToEvict, blockCreated, blockEvicted,
     blockReferenced, blockUnreferenced, blockDeleted
<1>2. inMemory' \in [Block -> BOOLEAN] /\ nonreferenced' \in SUBSET Block
  BY DEF PolicyType, chooseBlockToEvict, blockCreated, blockEvicted,
     blockReferenced, blockUnreferenced, blockDeleted
<1>3. QED BY <1>1, <1>2 DEF PolicyType

(***************************************************************************)
(* The block and the shard a thread works on are there.                    *)
(***************************************************************************)
LEMMA Arguments ==
    ASSUME TypeOK, ControlInv, NEW t \in Thread
    PROVE  /\ pc[t] \in GetLabel \/ job[t] = "get" => target[t] \in Block \cap live
           /\ HasVictim(t) => victim[t] \in Block
           /\ Making(t) \/ pc[t] \in DeleteLabel
                    \/ job[t] = "delete" => target[t] \in Block \ live
           /\ job[t] = "save" => victim[t] \in Block \cap live
  BY DEF TypeOK, ControlInv, ControlAt

(***************************************************************************)
(* When the process ends, threads and references do, and the pool is empty.*)
(* The blocks that are still known have files below the counter.           *)
(***************************************************************************)
LEMMA AfterEnd ==
    ASSUME TypeOK, ControlInv, Restart \/ Crash
    PROVE  /\ \A u \in Thread : pc'[u] = "idle" /\ job'[u] = "none" /\ held'[u] = {}
           /\ blocks' = {} /\ dirty' = {} /\ nonreferenced' = {} /\ usage' = 0
           /\ live' \subseteq Saved(file')
           /\ \A b \in FileIds(file') : b <= blockIndex'
<1>1. /\ blocks' = {} /\ dirty' = {} /\ nonreferenced' = {} /\ usage' = 0
      /\ live' \subseteq Saved(file')
  BY DEF Restart, Crash, EmptyPool
<1>2. \A b \in FileIds(file') : b <= blockIndex'
  BY DEF Restart, Crash, EmptyPool, getMaxUsedBlockCounter
<1>3. \A u \in Thread : pc'[u] = "idle" /\ job'[u] = "none" /\ held'[u] = {}
  BY DEF Restart, Crash, ControlInv, ControlAt, callVars
<1>4. QED BY <1>1, <1>2, <1>3

(***************************************************************************)
(* A step keeps the types.                                                 *)
(***************************************************************************)
LEMMA TypeStep ==
    ASSUME TypeOK, ControlInv, [Next]_vars
    PROVE  TypeOK'
<1>1. CASE Restart \/ Crash
  <2>1. file' \in [Block -> FileState]
    BY <1>1 DEF Restart, Crash, TypeOK, FileState
  <2>2. live' \in SUBSET Block
    BY <1>1, AfterEnd DEF Saved
  <2>3. blockIndex' \in Block \cup {NoBlock}
    BY <1>1 DEF Restart, Crash, EmptyPool, getMaxUsedBlockCounter, FileIds, NoBlock
  <2>4. PolicyType'
    <3>1. EmptyPool
      BY <1>1 DEF Restart, Crash
    <3>2. QED BY SMTT(30), <3>1 DEF EmptyPool, PolicyType
  <2>5. MutexType' /\ shardCount' \in [Shard -> Int]
    <3>1. CASE Restart
      BY <3>1 DEF Restart, TypeOK, MutexType, mutexVars
    <3>2. CASE Crash
      BY SMTT(30), <3>2 DEF Crash, MutexType
    <3>3. QED BY <1>1, <3>1, <3>2
  <2>6. /\ pc' \in [Thread -> Label]
        /\ job' \in [Thread -> {"none", "create", "get", "save", "delete"}]
        /\ target' \in [Thread -> Block \cup {NoBlock}]
        /\ victim' \in [Thread -> Block \cup {NoBlock}]
        /\ held' \in [Thread -> SUBSET Block]
    BY <1>1 DEF Restart, Crash, TypeOK, callVars, Label
  <2>7. blocks' = {} /\ dirty' = {} /\ usage' \in Int
    BY SMTT(30), <1>1, AfterEnd
  <2>8. QED BY <2>1, <2>2, <2>3, <2>4, <2>5, <2>6, <2>7 DEF TypeOK
<1>2. ASSUME NEW t \in Thread, Call(t) \/ Step(t) PROVE TypeOK'
  <2>1. CASE Call(t)
    <3>1. ASSUME NEW b \in Block, ReleaseReference(t, b) PROVE TypeOK'
      <4>1. PolicyType'
        BY <3>1, PolicyTyped DEF ReleaseReference, TypeOK, PolicyType, policyVars
      <4>2. QED
        BY <3>1, <4>1 DEF ReleaseReference, TypeOK, NoBlock, Label, MutexType, Goto,
           mutexVars, policyVars, poolVars, callVars
    <3> USE DEF TypeOK, NoBlock, Label, MutexType, PolicyType, Goto, mutexVars, policyVars,
       poolVars, callVars
    <3>2. CASE CallCreate(t)
      BY <3>2 DEF CallCreate
    <3>3. ASSUME NEW b \in Block, CallGet(t, b) PROVE TypeOK'
      BY <3>3 DEF CallGet
    <3>4. ASSUME NEW b \in Block, CallSave(t, b) PROVE TypeOK'
      BY <3>4 DEF CallSave
    <3>5. ASSUME NEW b \in Block, CallDelete(t, b) PROVE TypeOK'
      BY <3>5 DEF CallDelete
    <3>6. ASSUME NEW b \in Block, WriteBlock(t, b) PROVE TypeOK'
      BY <3>6 DEF WriteBlock, FileState
    <3>7. QED BY <2>1, <3>1, <3>2, <3>3, <3>4, <3>5, <3>6 DEF Call
  <2>2. CASE SharedStep(t)
    <3>1. CASE CountShared(t)
      <4>1. shardCount' \in [Shard -> Int]
        BY <3>1, CountTyped DEF TypeOK, CountShared, CountShard
      <4>2. QED
        BY <3>1, <4>1 DEF CountShared, TypeOK, NoBlock, Label, MutexType, PolicyType, Goto,
           mutexVars, policyVars, poolVars, callVars
    <3>2. CASE LockShared(t)
      <4>1. MutexType'
        BY <3>2, MutexTyped DEF TypeOK, LockShared
      <4>2. QED
        BY <3>2, <4>1 DEF LockShared, TypeOK, NoBlock, Label, PolicyType, Goto, mutexVars,
           policyVars, poolVars, callVars
    <3>3. CASE BackOff(t)
      <4>1. MutexType'
        BY <3>3, MutexTyped DEF TypeOK, BackOff
      <4>2. QED
        BY <3>3, <4>1 DEF BackOff, TypeOK, NoBlock, Label, PolicyType, Goto, mutexVars,
           policyVars, poolVars, callVars
    <3>4. CASE Lookup(t)
      <4>1. target[t] \in Block
        BY <3>4, Arguments DEF Lookup, GetLabel
      <4>2. PolicyType'
        BY <3>4, <4>1, PolicyTyped DEF Lookup, Refer, TypeOK, PolicyType, policyVars
      <4>3. QED
        BY SMTT(30), <3>4, <4>1, <4>2 DEF Lookup, Refer, TypeOK, NoBlock, Label, MutexType, Goto,
           mutexVars, policyVars, poolVars, callVars
    <3>5. CASE UnlockShared(t)
      <4>1. MutexType'
        BY <3>5, MutexTyped DEF TypeOK, UnlockShared
      <4>2. QED
        BY <3>5, <4>1 DEF UnlockShared, TypeOK, NoBlock, Label, PolicyType, Goto, mutexVars,
           policyVars, poolVars, callVars
    <3>6. CASE ReleaseShared(t)
      <4>1. shardCount' \in [Shard -> Int]
        BY <3>6, CountTyped DEF TypeOK, ReleaseShared, ReleaseShard
      <4>2. QED
        BY SMTT(30), <3>6, <4>1 DEF ReleaseShared, Return, TypeOK, NoBlock, Label, MutexType,
           PolicyType, Goto, mutexVars, policyVars, poolVars, callVars
    <3> USE DEF TypeOK, NoBlock, Label, MutexType, PolicyType, Goto, mutexVars, policyVars,
       poolVars, callVars
    <3>7. CASE SpinShared(t)
      BY <3>7 DEF SpinShared
    <3>8. QED BY <2>2, <3>1, <3>2, <3>3, <3>4, <3>5, <3>6, <3>7 DEF SharedStep
  <2>3. CASE ExclusiveStep(t)
    <3>1. CASE CountExclusive(t)
      <4>1. shardCount' \in [Shard -> Int]
        BY <3>1, CountTyped DEF TypeOK, CountExclusive, CountShard
      <4>2. QED
        BY <3>1, <4>1 DEF CountExclusive, TypeOK, NoBlock, Label, MutexType, PolicyType, Goto,
           mutexVars, policyVars, poolVars, callVars
    <3>2. CASE Lock(t)
      <4>1. MutexType'
        BY <3>2, MutexTyped DEF TypeOK, Lock
      <4>2. QED
        BY <3>2, <4>1 DEF Lock, TypeOK, NoBlock, Label, PolicyType, Goto, mutexVars,
           policyVars, poolVars, callVars
    <3>3. CASE Drain(t)
      <4>1. MutexType'
        BY <3>3, MutexTyped DEF TypeOK, Drain
      <4>2. QED
        BY <3>3, <4>1 DEF Drain, TypeOK, NoBlock, Label, PolicyType, Goto, mutexVars,
           policyVars, poolVars, callVars
    <3>4. CASE LookAgain(t)
      <4>1. target[t] \in Block
        BY <3>4, Arguments DEF LookAgain, LoadFile, GetLabel
      <4>2. PolicyType'
        BY <3>4, <4>1, PolicyTyped DEF LookAgain, LoadFile, Refer, TypeOK, PolicyType, policyVars
      <4>3. QED
        BY SMTT(30), <3>4, <4>1, <4>2 DEF LookAgain, LoadFile, Refer, TypeOK, NoBlock, Label, MutexType, Goto,
           mutexVars, policyVars, poolVars, callVars
    <3>5. CASE InsertLoaded(t)
      <4>1. target[t] \in Block
        BY <3>5, Arguments DEF InsertLoaded, Making
      <4>2. QED
        BY <3>5, <4>1 DEF InsertLoaded, TypeOK, NoBlock, Label, MutexType, PolicyType, Goto,
           mutexVars, policyVars, poolVars, callVars
    <3>6. CASE Reference(t)
      <4>1. target[t] \in Block
        BY <3>6, Arguments DEF Reference, GetLabel
      <4>2. PolicyType'
        BY <3>6, <4>1, PolicyTyped DEF Reference, Refer, TypeOK, PolicyType, policyVars
      <4>3. QED
        BY <3>6, <4>1, <4>2 DEF Reference, Refer, TypeOK, NoBlock, Label, MutexType, Goto,
           mutexVars, policyVars, poolVars, callVars
    <3>7. CASE Unlock(t)
      <4>1. MutexType'
        BY <3>7, MutexTyped DEF TypeOK, Unlock
      <4>2. QED
        BY <3>7, <4>1 DEF Unlock, TypeOK, NoBlock, Label, PolicyType, Goto, mutexVars,
           policyVars, poolVars, callVars
    <3>8. CASE Release(t)
      <4>1. shardCount' \in [Shard -> Int]
        BY <3>8, CountTyped DEF TypeOK, Release, ReleaseShard
      <4>2. QED
        BY <3>8, <4>1 DEF Release, Return, TypeOK, NoBlock, Label, MutexType, PolicyType,
           Goto, mutexVars, policyVars, poolVars, callVars
    <3>9. QED BY <2>3, <3>1, <3>2, <3>3, <3>4, <3>5, <3>6, <3>7, <3>8 DEF ExclusiveStep
  <2>4. CASE RoomStep(t)
    <3>1. CASE MakeRoom(t)
      <4>1. PolicyType' /\ victim' \in [Thread -> Block \cup {NoBlock}]
        BY SMTT(30), <3>1, PolicyTyped DEF MakeRoom, Evictable, TypeOK, PolicyType, policyVars
      <4>2. QED
        BY SMTT(30), <3>1, <4>1 DEF MakeRoom, TypeOK, NoBlock, Label, MutexType, Goto, mutexVars,
           policyVars, poolVars, callVars
    <3>2. CASE CountVictim(t)
      <4>1. shardCount' \in [Shard -> Int]
        BY SMTT(30), <3>2, CountTyped DEF TypeOK, CountVictim, CountShard
      <4>2. QED
        BY SMTT(30), <3>2, <4>1 DEF CountVictim, TypeOK, NoBlock, Label, MutexType, PolicyType, Goto,
           mutexVars, policyVars, poolVars, callVars
    <3>3. CASE LockVictim(t)
      <4>1. MutexType'
        BY <3>3, MutexTyped DEF TypeOK, LockVictim
      <4>2. QED
        BY <3>3, <4>1 DEF LockVictim, TypeOK, NoBlock, Label, PolicyType, Goto, mutexVars,
           policyVars, poolVars, callVars
    <3>4. CASE DrainVictim(t)
      <4>1. MutexType'
        BY <3>4, MutexTyped DEF TypeOK, DrainVictim
      <4>2. QED
        BY <3>4, <4>1 DEF DrainVictim, TypeOK, NoBlock, Label, PolicyType, Goto, mutexVars,
           policyVars, poolVars, callVars
    <3>5. CASE ReleaseVictim(t)
      <4>1. shardCount' \in [Shard -> Int]
        BY <3>5, CountTyped DEF TypeOK, ReleaseVictim, ReleaseShard
      <4>2. QED
        BY <3>5, <4>1 DEF ReleaseVictim, TypeOK, NoBlock, Label, MutexType, PolicyType, Goto,
           mutexVars, policyVars, poolVars, callVars
    <3>6. CASE UnlockVictim(t)
      <4>1. MutexType'
        BY <3>6, MutexTyped DEF TypeOK, UnlockVictim
      <4>2. QED
        BY <3>6, <4>1 DEF UnlockVictim, TypeOK, NoBlock, Label, PolicyType, Goto, mutexVars,
           policyVars, poolVars, callVars
    <3>7. CASE Allocate(t)
      <4>1. job[t] = "create" => blockIndex + 1 \in Block
        BY SMTT(30), StorageAssumption, <3>7 DEF Allocate, TypeOK, NoBlock
      <4>2. blockIndex' \in Block \cup {NoBlock} /\ usage' \in Int
        BY SMTT(30), <3>7, <4>1 DEF Allocate, TypeOK
      <4>3. target' \in [Thread -> Block \cup {NoBlock}]
               /\ victim' \in [Thread -> Block \cup {NoBlock}]
        BY <3>7, <4>1 DEF Allocate, TypeOK
      <4>4. QED
        BY <3>7, <4>2, <4>3 DEF Allocate, TypeOK, NoBlock, Label, MutexType, PolicyType, Goto,
           mutexVars, policyVars, poolVars, callVars
    <3> USE DEF TypeOK, NoBlock, Label, MutexType, PolicyType, Goto, mutexVars, policyVars,
       poolVars, callVars
    <3>8. CASE Examine(t)
      BY <3>8 DEF Examine
    <3>9. QED BY <2>4, <3>1, <3>2, <3>3, <3>4, <3>5, <3>6, <3>7, <3>8 DEF RoomStep
  <2>5. CASE EvictStep(t)
    <3> USE DEF TypeOK, NoBlock, Label, MutexType, PolicyType, Goto, mutexVars, policyVars,
       poolVars, callVars
    <3>1. CASE SaveBlock(t)
      <4>1. file' \in [Block -> FileState]
        BY <3>1 DEF SaveBlock, FailedWrite, FileState
      <4>2. QED BY SMTT(30), <3>1, <4>1 DEF SaveBlock, AfterSave, Return
    <3>2. CASE MarkClean(t)
      BY SMTT(30), <3>2 DEF MarkClean, AfterSave, Return
    <3>3. CASE Evict(t)
      BY SMTT(30), <3>3 DEF Evict, Evicted
    <3>4. CASE Deallocate(t)
      BY SMTT(30), <3>4 DEF Deallocate
    <3>5. QED BY <2>5, <3>1, <3>2, <3>3, <3>4 DEF EvictStep
  <2>6. CASE OtherStep(t)
    <3>1. CASE InsertCreated(t)
      <4>1. target[t] \in Block
        BY <3>1, Arguments DEF InsertCreated, Making
      <4>2. QED
        BY <3>1, <4>1 DEF InsertCreated, TypeOK, NoBlock, Label, MutexType, PolicyType, Goto,
           mutexVars, policyVars, poolVars, callVars
    <3>2. CASE Created(t)
      <4>1. target[t] \in Block
        BY <3>2, Arguments DEF Created, Making
      <4>2. PolicyType'
        BY <3>2, <4>1, PolicyTyped DEF Created, TypeOK, PolicyType, policyVars
      <4>3. QED
        BY <3>2, <4>1, <4>2 DEF Created, Return, TypeOK, NoBlock, Label, MutexType, Goto,
           mutexVars, policyVars, poolVars, callVars
    <3>3. CASE PolicyEvicted(t)
      <4>1. target[t] \in Block
        BY <3>3, Arguments DEF PolicyEvicted, DeleteLabel
      <4>2. PolicyType'
        BY <3>3, <4>1, PolicyTyped DEF PolicyEvicted, TypeOK, PolicyType, policyVars
      <4>3. QED
        BY <3>3, <4>1, <4>2 DEF PolicyEvicted, TypeOK, NoBlock, Label, MutexType, Goto,
           mutexVars, policyVars, poolVars, callVars
    <3>4. CASE Unlink(t)
      BY <3>4 DEF Unlink, FileState, TypeOK, NoBlock, Label, MutexType, PolicyType, Goto,
         mutexVars, policyVars, poolVars, callVars
    <3>5. CASE PolicyDeleted(t)
      <4>1. target[t] \in Block
        BY <3>5, Arguments DEF PolicyDeleted, DeleteLabel
      <4>2. PolicyType'
        BY <3>5, <4>1, PolicyTyped DEF PolicyDeleted, TypeOK, PolicyType, policyVars
      <4>3. QED
        BY <3>5, <4>1, <4>2 DEF PolicyDeleted, Return, TypeOK, NoBlock, Label, MutexType,
           Goto, mutexVars, policyVars, poolVars, callVars
    <3> USE DEF TypeOK, NoBlock, Label, MutexType, PolicyType, Goto, mutexVars, policyVars,
       poolVars, callVars
    <3>6. CASE CheckLoaded(t)
      BY <3>6 DEF CheckLoaded
    <3>7. QED BY <2>6, <3>1, <3>2, <3>3, <3>4, <3>5, <3>6 DEF OtherStep
  <2>7. QED BY <1>2, <2>1, <2>2, <2>3, <2>4, <2>5, <2>6 DEF Step
<1>3. CASE UNCHANGED vars
  BY <1>3 DEF vars, TypeOK, NoBlock, Label, MutexType, PolicyType, Goto, mutexVars,
     policyVars, poolVars, callVars
<1>4. QED BY <1>1, <1>2, <1>3 DEF Next

-----------------------------------------------------------------------------
(***************************************************************************)
(* A step of a thread leaves the others alone.                             *)
(***************************************************************************)
LEMMA Others ==
    ASSUME TypeOK, NEW t \in Thread, Call(t) \/ Step(t)
    PROVE  \A u \in Thread \ {t} : Same(u)
<1>0. /\ pc \in [Thread -> Label] /\ held \in [Thread -> SUBSET Block]
      /\ job \in [Thread -> {"none", "create", "get", "save", "delete"}]
      /\ target \in [Thread -> Block \cup {NoBlock}]
      /\ victim \in [Thread -> Block \cup {NoBlock}]
  BY DEF TypeOK
<1> USE DEF Same, Goto, callVars
<1>1. CASE Call(t)
  BY <1>0, <1>1 DEF Call, CallCreate, CallGet, CallSave, CallDelete, WriteBlock,
     ReleaseReference
<1>2. CASE SharedStep(t)
  BY <1>0, <1>2 DEF SharedStep, CountShared, LockShared, BackOff, SpinShared, Lookup, Refer,
     UnlockShared, ReleaseShared, Return
<1>3. CASE ExclusiveStep(t)
  BY <1>0, <1>3 DEF ExclusiveStep, CountExclusive, Lock, Drain, LookAgain, LoadFile, Refer,
     InsertLoaded, Reference, Unlock, Release, Return
<1>4. CASE RoomStep(t)
  BY <1>0, <1>4 DEF RoomStep, MakeRoom, CountVictim, LockVictim, DrainVictim, Examine,
     ReleaseVictim, UnlockVictim, Allocate
<1>5. CASE EvictStep(t)
  BY <1>0, <1>5 DEF EvictStep, SaveBlock, AfterSave, Return, MarkClean, Evict, Deallocate
<1>6. CASE OtherStep(t)
  BY <1>0, <1>6 DEF OtherStep, InsertCreated, Created, Return, CheckLoaded, PolicyEvicted,
     Unlink, PolicyDeleted
<1>7. QED BY <1>1, <1>2, <1>3, <1>4, <1>5, <1>6 DEF Step

(***************************************************************************)
(* A thread left alone keeps all that the invariants look at.              *)
(***************************************************************************)
LEMMA SameKeeps ==
    ASSUME NEW u \in Thread, Same(u)
    PROVE  /\ IdKeeps(u) /\ LockKeeps(u) /\ ReadKeeps(u) /\ AskKeeps(u)
           /\ LoadKeeps(u) /\ SaveKeeps(u) /\ MoveKeeps(u)
<1>1. /\ Loading(u)' <=> Loading(u)
      /\ Evicting(u)' <=> Evicting(u)
      /\ Making(u)' <=> Making(u)
      /\ Reads(u)' <=> Reads(u)
  BY DEF Same, Loading, Evicting, Making, Reads
<1>2. /\ OwnsTarget(u)' <=> OwnsTarget(u)
      /\ OwnsVictim(u)' <=> OwnsVictim(u)
      /\ Leaving(u)' <=> Leaving(u)
      /\ Asks(u)' <=> Asks(u)
  BY <1>1 DEF Same, OwnsTarget, OwnsVictim, Leaving, Asks
<1>3. HasVictim(u)' <=> HasVictim(u)
  BY <1>2 DEF Same, HasVictim
<1>4. IdKeeps(u) /\ LockKeeps(u) /\ ReadKeeps(u)
  BY <1>1, <1>2, <1>3 DEF Same, IdKeeps, LockKeeps, ReadKeeps
<1>5. AskKeeps(u) /\ LoadKeeps(u) /\ SaveKeeps(u) /\ MoveKeeps(u)
  BY <1>1, <1>2 DEF Same, AskKeeps, LoadKeeps, SaveKeeps, MoveKeeps
<1>6. QED BY <1>4, <1>5

(***************************************************************************)
(* A thread left alone, whose block is still known to queries, or still not. *)
(***************************************************************************)
LEMMA SameControl ==
    ASSUME NEW u \in Thread, Same(u), ControlAt(u), live' = live
    PROVE  ControlAt(u)'
<1>1. (Making(u)' <=> Making(u)) /\ (HasVictim(u)' <=> HasVictim(u))
  BY DEF Same, Making, HasVictim, OwnsVictim, Evicting
<1>2. QED BY <1>1 DEF Same, ControlAt

(***************************************************************************)
(* A step keeps what is known of the threads' places and arguments.        *)
(***************************************************************************)
LEMMA ControlStep ==
    ASSUME TypeOK, ControlInv, IdInv, [Next]_vars
    PROVE  ControlInv'
<1>0. /\ pc \in [Thread -> Label] /\ live \in SUBSET Block /\ nonreferenced \in SUBSET Block
      /\ job \in [Thread -> {"none", "create", "get", "save", "delete"}]
      /\ target \in [Thread -> Block \cup {NoBlock}]
      /\ victim \in [Thread -> Block \cup {NoBlock}]
  BY DEF TypeOK, PolicyType
<1>1. CASE Restart \/ Crash
  <2>1. \A u \in Thread : pc'[u] = "idle" /\ job'[u] = "none"
    BY <1>1, AfterEnd
  <2>2. QED BY <2>1 DEF ControlInv, ControlAt, GetLabel, RoomLabel, SharedLabel, DeleteLabel,
     HasVictim, OwnsVictim, Evicting, Making
<1>2. ASSUME NEW t \in Thread, Call(t) \/ Step(t) PROVE ControlInv'
  <2>a. \A u \in Thread \ {t} : Same(u)
    BY <1>2, Others
  <2>b. live' = live /\ ControlAt(t)' => ControlInv'
    BY <2>a, SameControl DEF ControlInv
  <2>c. ControlAt(t)
    BY DEF ControlInv
  <2>1. CASE Call(t)
    <3>1. ASSUME NEW b \in Block, CallDelete(t, b) PROVE ControlInv'
      <4>1. ControlAt(t)'
        BY <1>0, <2>c, <3>1 DEF CallDelete, ControlAt, GetLabel, RoomLabel, SharedLabel,
           DeleteLabel, HasVictim, OwnsVictim, Evicting, Making, NoBlock, Goto, mutexVars,
           policyVars, poolVars, callVars
      <4>2. ASSUME NEW u \in Thread \ {t} PROVE ControlAt(u)'
        <5>1. Same(u) /\ ControlAt(u) /\ live' \subseteq live
          BY <2>a, <3>1 DEF ControlInv, CallDelete
        <5>2. (job[u] = "get" => target[u] # b) /\ (job[u] = "save" => victim[u] # b)
                 /\ live' = live \ {b}
          BY <3>1 DEF CallDelete, Unused
        <5>3. (Making(u)' <=> Making(u)) /\ (HasVictim(u)' <=> HasVictim(u))
          BY <5>1 DEF Same, Making, HasVictim, OwnsVictim, Evicting
        <5>4. QED BY <5>1, <5>2, <5>3 DEF Same, ControlAt
      <4>3. QED BY <4>1, <4>2 DEF ControlInv
    <3> USE DEF ControlAt, GetLabel, RoomLabel, SharedLabel, DeleteLabel, HasVictim,
       OwnsVictim, Evicting, Making, NoBlock, Goto, mutexVars, policyVars, poolVars, callVars
    <3>2. ASSUME NEW b \in Block, CallGet(t, b) PROVE ControlInv'
      BY <1>0, <2>b, <2>c, <3>2 DEF CallGet
    <3>3. ASSUME NEW b \in Block, CallSave(t, b) PROVE ControlInv'
      BY <1>0, <2>b, <2>c, <3>3 DEF CallSave
    <3>4. ASSUME NEW b \in Block, WriteBlock(t, b) PROVE ControlInv'
      BY <1>0, <2>b, <2>c, <3>4 DEF WriteBlock
    <3>5. ASSUME NEW b \in Block, ReleaseReference(t, b) PROVE ControlInv'
      BY <1>0, <2>b, <2>c, <3>5 DEF ReleaseReference, blockUnreferenced
    <3>6. CASE CallCreate(t)
      BY <1>0, <2>b, <2>c, <3>6 DEF CallCreate
    <3>7. QED BY <2>1, <3>1, <3>2, <3>3, <3>4, <3>5, <3>6 DEF Call
  <2>2. CASE SharedStep(t)
    <3> USE DEF ControlAt, GetLabel, RoomLabel, SharedLabel, DeleteLabel, HasVictim,
       OwnsVictim, Evicting, Making, NoBlock, Goto, mutexVars, policyVars, poolVars, callVars
    <3>1. CASE CountShared(t) \/ LockShared(t)
      BY SMTT(30), <1>0, <2>b, <2>c, <3>1 DEF CountShared, CountShard, LockShared, AddReader
    <3>2. CASE BackOff(t) \/ SpinShared(t)
      BY SMTT(30), <1>0, <2>b, <2>c, <3>2 DEF BackOff, RemoveReader, SpinShared
    <3>3. CASE Lookup(t) \/ UnlockShared(t)
      BY SMTT(30), <1>0, <2>b, <2>c, <3>3 DEF Lookup, Refer, blockReferenced, UnlockShared, RemoveReader
    <3>4. CASE ReleaseShared(t)
      BY SMTT(30), <1>0, <2>b, <2>c, <3>4 DEF ReleaseShared, ReleaseShard, Return
    <3>5. QED BY <2>2, <3>1, <3>2, <3>3, <3>4 DEF SharedStep
  <2>3. CASE ExclusiveStep(t)
    <3> USE DEF ControlAt, GetLabel, RoomLabel, SharedLabel, DeleteLabel, HasVictim,
       OwnsVictim, Evicting, Making, NoBlock, Goto, mutexVars, policyVars, poolVars, callVars
    <3>1. CASE CountExclusive(t) \/ Lock(t)
      BY SMTT(30), <1>0, <2>b, <2>c, <3>1 DEF CountExclusive, CountShard, Lock, SetWriteBit
    <3>2. CASE Drain(t) \/ LookAgain(t)
      BY SMTT(30), <1>0, <2>b, <2>c, <3>2 DEF Drain, Drained, LookAgain, LoadFile, Refer, blockReferenced
    <3>3. CASE InsertLoaded(t) \/ Reference(t)
      BY SMTT(30), <1>0, <2>b, <2>c, <3>3 DEF InsertLoaded, Reference, Refer, blockReferenced
    <3>4. CASE Unlock(t) \/ Release(t)
      BY SMTT(30), <1>0, <2>b, <2>c, <3>4 DEF Unlock, unlock, Release, ReleaseShard, Return
    <3>5. QED BY <2>3, <3>1, <3>2, <3>3, <3>4 DEF ExclusiveStep
  <2>4. CASE RoomStep(t)
    <3>1. CASE Allocate(t)
      <4>1. job[t] = "create" => blockIndex + 1 \in Block /\ blockIndex + 1 \notin live
        <5>1. blockIndex \in Int /\ (job[t] = "create" => blockIndex < MaxBlock
                 /\ blockIndex >= 0)
          BY SMTT(30), StorageAssumption, <3>1 DEF Allocate, TypeOK, NoBlock
        <5>2. \A b \in live : b <= blockIndex
          BY DEF IdInv
        <5>3. QED BY SMTT(30), StorageAssumption, <1>0, <5>1, <5>2
      <4>2. QED BY <1>0, <2>b, <2>c, <3>1, <4>1 DEF Allocate, ControlAt, GetLabel, RoomLabel,
         SharedLabel, DeleteLabel, HasVictim, OwnsVictim, Evicting, Making, NoBlock, Goto,
         mutexVars, policyVars, poolVars, callVars
    <3> USE DEF ControlAt, GetLabel, RoomLabel, SharedLabel, DeleteLabel, HasVictim,
       OwnsVictim, Evicting, Making, NoBlock, Goto, mutexVars, policyVars, poolVars, callVars
    <3>2. CASE MakeRoom(t) \/ CountVictim(t)
      BY SMTT(30), <1>0, <2>b, <2>c, <3>2 DEF MakeRoom, chooseBlockToEvict, Evictable, CountVictim,
         CountShard
    <3>3. CASE LockVictim(t) \/ DrainVictim(t)
      BY SMTT(30), <1>0, <2>b, <2>c, <3>3 DEF LockVictim, SetWriteBit, DrainVictim, Drained
    <3>4. CASE Examine(t) \/ ReleaseVictim(t)
      BY SMTT(30), <1>0, <2>b, <2>c, <3>4 DEF Examine, ReleaseVictim, ReleaseShard
    <3>5. CASE UnlockVictim(t)
      BY <1>0, <2>b, <2>c, <3>5 DEF UnlockVictim, unlock
    <3>6. QED BY <2>4, <3>1, <3>2, <3>3, <3>4, <3>5 DEF RoomStep
  <2>5. CASE EvictStep(t)
    <3> USE DEF ControlAt, GetLabel, RoomLabel, SharedLabel, DeleteLabel, HasVictim,
       OwnsVictim, Evicting, Making, NoBlock, Goto, mutexVars, policyVars, poolVars, callVars
    <3>1. CASE SaveBlock(t) \/ MarkClean(t)
      BY SMTT(30), <1>0, <2>b, <2>c, <3>1 DEF SaveBlock, AfterSave, Return, MarkClean
    <3>2. CASE Evict(t) \/ Deallocate(t)
      BY SMTT(30), <1>0, <2>b, <2>c, <3>2 DEF Evict, Evicted, Deallocate
    <3>3. QED BY <2>5, <3>1, <3>2 DEF EvictStep
  <2>6. CASE OtherStep(t)
    <3>1. CASE Created(t)
      <4>1. ControlAt(t)'
        BY <1>0, <2>c, <3>1 DEF Created, Return, ControlAt, GetLabel, RoomLabel, SharedLabel,
           DeleteLabel, HasVictim, OwnsVictim, Evicting, Making, NoBlock, Goto, mutexVars,
           policyVars, poolVars, callVars
      <4>2. ASSUME NEW u \in Thread \ {t} PROVE ControlAt(u)'
        <5>1. Same(u) /\ ControlAt(u) /\ live' = live \cup {target[t]}
          BY <2>a, <3>1 DEF ControlInv, Created
        <5>2. job[u] = "delete" \/ Making(u) => target[u] # target[t]
          BY <3>1 DEF Created, IdInv, Making
        <5>3. (Making(u)' <=> Making(u)) /\ (HasVictim(u)' <=> HasVictim(u))
          BY <5>1 DEF Same, Making, HasVictim, OwnsVictim, Evicting
        <5>4. QED BY <5>1, <5>2, <5>3 DEF Same, ControlAt
      <4>3. QED BY <4>1, <4>2 DEF ControlInv
    <3> USE DEF ControlAt, GetLabel, RoomLabel, SharedLabel, DeleteLabel, HasVictim,
       OwnsVictim, Evicting, Making, NoBlock, Goto, mutexVars, policyVars, poolVars, callVars
    <3>2. CASE InsertCreated(t) \/ CheckLoaded(t)
      BY SMTT(30), <1>0, <2>b, <2>c, <3>2 DEF InsertCreated, CheckLoaded
    <3>3. CASE PolicyEvicted(t) \/ Unlink(t)
      BY <1>0, <2>b, <2>c, <3>3 DEF PolicyEvicted, blockEvicted, Unlink
    <3>4. CASE PolicyDeleted(t)
      BY <1>0, <2>b, <2>c, <3>4 DEF PolicyDeleted, blockDeleted, Return
    <3>5. QED BY <2>6, <3>1, <3>2, <3>3, <3>4 DEF OtherStep
  <2>7. QED BY <1>2, <2>1, <2>2, <2>3, <2>4, <2>5, <2>6 DEF Step
<1>3. CASE UNCHANGED vars
  BY <1>3, SameControl DEF vars, Same, callVars, ControlInv
<1>4. QED BY <1>1, <1>2, <1>3 DEF Next

(***************************************************************************)
(* The method a thread is in, where the label does not tell.               *)
(***************************************************************************)
LEMMA Jobs ==
    ASSUME ControlInv, NEW t \in Thread
    PROVE  /\ pc[t] \in {"save", "markClean"} => job[t] \in {"create", "get", "save"}
           /\ pc[t] \in {"evict", "deallocate"} => job[t] \in {"create", "get", "delete"}
           /\ pc[t] = "checkLoaded" => job[t] = "delete"
<1>1. ControlAt(t)
  BY DEF ControlInv
<1>2. QED BY <1>1 DEF ControlAt, SharedLabel, DeleteLabel

(***************************************************************************)
(* When nothing new is in use, ids stay below the counter and apart.       *)
(***************************************************************************)
IdsKept ==
    /\ live' \subseteq live /\ blocks' \subseteq blocks
    /\ nonreferenced' \subseteq nonreferenced /\ blockIndex' = blockIndex

(***************************************************************************)
(* When no id is handed out, block ids stay below the counter.             *)
(***************************************************************************)
LEMMA SameIds ==
    ASSUME IdInv, IdsKept, \A u \in Thread : IdKeeps(u)
    PROVE  IdInv'
<1>1. \A b \in live' \cup blocks' \cup nonreferenced' : b <= blockIndex'
  BY DEF IdInv, IdsKept
<1>2. ASSUME NEW t \in Thread
      PROVE  /\ job'[t] = "delete" \/ Making(t)' => target'[t] <= blockIndex'
             /\ HasVictim(t)' => victim'[t] <= blockIndex'
             /\ Making(t)' => target'[t] \notin nonreferenced'
             /\ Making(t)' /\ pc'[t] = "insert" => target'[t] \notin blocks'
  BY DEF IdInv, IdsKept, IdKeeps
<1>3. ASSUME NEW t \in Thread, NEW u \in Thread
      PROVE  /\ Making(t)' /\ HasVictim(u)' => target'[t] # victim'[u]
             /\ Making(t)' /\ t # u /\ (job'[u] = "delete" \/ Making(u)')
                    => target'[t] # target'[u]
  BY DEF IdInv, IdKeeps
<1>4. QED BY <1>1, <1>2, <1>3 DEF IdInv

(***************************************************************************)
(* A block that comes into use has an id below the counter, which no new   *)
(* block has.                                                              *)
(***************************************************************************)
LEMMA IdAdded ==
    ASSUME IdInv, NEW b, b <= blockIndex, blockIndex' = blockIndex,
           live' \subseteq live \cup {b}, blocks' \subseteq blocks \cup {b},
           nonreferenced' \subseteq nonreferenced \cup {b},
           \A u \in Thread : IdKeeps(u),
           \A u \in Thread : Making(u)' /\ pc'[u] = "insert" => target'[u] # b,
           b \in nonreferenced' \ nonreferenced => \A u \in Thread : Making(u)' => target'[u] # b
    PROVE  IdInv'
<1>1. \A c \in live' \cup blocks' \cup nonreferenced' : c <= blockIndex'
  BY DEF IdInv
<1>2. ASSUME NEW t \in Thread
      PROVE  /\ job'[t] = "delete" \/ Making(t)' => target'[t] <= blockIndex'
             /\ HasVictim(t)' => victim'[t] <= blockIndex'
  BY DEF IdInv, IdKeeps
<1>3. ASSUME NEW t \in Thread
      PROVE  /\ Making(t)' => target'[t] \notin nonreferenced'
             /\ Making(t)' /\ pc'[t] = "insert" => target'[t] \notin blocks'
  BY DEF IdInv, IdKeeps
<1>4. ASSUME NEW t \in Thread, NEW u \in Thread
      PROVE  /\ Making(t)' /\ HasVictim(u)' => target'[t] # victim'[u]
             /\ Making(t)' /\ t # u /\ (job'[u] = "delete" \/ Making(u)')
                    => target'[t] # target'[u]
  BY SMTT(30) DEF IdInv, IdKeeps
<1>5. QED BY <1>1, <1>2, <1>3, <1>4 DEF IdInv

(***************************************************************************)
(* A step keeps what is known of ids.                                      *)
(***************************************************************************)
LEMMA IdStep ==
    ASSUME TypeOK, ControlInv, IdInv, LoadInv, [Next]_vars
    PROVE  IdInv'
<1>0. /\ pc \in [Thread -> Label] /\ live \in SUBSET Block /\ nonreferenced \in SUBSET Block
      /\ job \in [Thread -> {"none", "create", "get", "save", "delete"}]
      /\ target \in [Thread -> Block \cup {NoBlock}]
      /\ victim \in [Thread -> Block \cup {NoBlock}]
      /\ blocks \in SUBSET Block /\ blockIndex \in Int /\ Block \subseteq Int /\ NoBlock \in Int
  BY SMTT(30), StorageAssumption DEF TypeOK, PolicyType, NoBlock
<1>1. CASE Restart \/ Crash
  <2>1. \A u \in Thread : pc'[u] = "idle" /\ job'[u] = "none"
    BY <1>1, AfterEnd
  <2>2. \A u \in Thread : ~Making(u)' /\ ~HasVictim(u)'
    BY <2>1 DEF Making, HasVictim, OwnsVictim, Evicting, SharedLabel
  <2>3. \A b \in live' : b <= blockIndex'
    BY <1>1, AfterEnd DEF Saved, FileIds
  <2>4. blocks' = {} /\ nonreferenced' = {}
    BY <1>1, AfterEnd
  <2>5. QED BY <2>1, <2>2, <2>3, <2>4 DEF IdInv
<1>2. ASSUME NEW t \in Thread, Call(t) \/ Step(t) PROVE IdInv'
  <2>a. \A u \in Thread \ {t} : IdKeeps(u)
    BY <1>2, Others, SameKeeps
  <2>b. IdsKept /\ IdKeeps(t) => IdInv'
    BY <2>a, SameIds
  <2>c. /\ pc[t] \in {"save", "markClean"} => job[t] \in {"create", "get", "save"}
        /\ pc[t] \in {"evict", "deallocate"} => job[t] \in {"create", "get", "delete"}
        /\ pc[t] = "checkLoaded" => job[t] = "delete"
    BY Jobs
  <2>1. CASE Call(t)
    <3>1. ASSUME NEW b \in Block, CallDelete(t, b) PROVE IdInv'
      <4>1. /\ ~Making(t)' /\ ~HasVictim(t)' /\ target'[t] = b
            /\ live' \subseteq live /\ UNCHANGED <<blocks, nonreferenced, blockIndex>>
        BY <1>0, <3>1 DEF CallDelete, HasVictim, OwnsVictim, Evicting, Making, SharedLabel,
           Goto, mutexVars, policyVars, poolVars, callVars
      <4>2. b <= blockIndex /\ \A u \in Thread : Making(u) => target[u] # b
        BY <3>1 DEF CallDelete, IdInv, ControlInv, ControlAt
      <4>3. \A c \in live' \cup blocks' \cup nonreferenced' : c <= blockIndex'
        BY <4>1, <4>2 DEF IdInv
      <4>4. ASSUME NEW u \in Thread
            PROVE  /\ job'[u] = "delete" \/ Making(u)' => target'[u] <= blockIndex'
                   /\ HasVictim(u)' => victim'[u] <= blockIndex'
                   /\ Making(u)' => target'[u] \notin nonreferenced'
                   /\ Making(u)' /\ pc'[u] = "insert" => target'[u] \notin blocks'
        BY <2>a, <4>1, <4>2 DEF IdInv, IdKeeps
      <4>5. ASSUME NEW u \in Thread, NEW v \in Thread
            PROVE  /\ Making(u)' /\ HasVictim(v)' => target'[u] # victim'[v]
                   /\ Making(u)' /\ u # v /\ (job'[v] = "delete" \/ Making(v)')
                          => target'[u] # target'[v]
        BY SMTT(30), <2>a, <4>1, <4>2 DEF IdInv, IdKeeps
      <4>6. QED BY <4>3, <4>4, <4>5 DEF IdInv
    <3>2. ASSUME NEW b \in Block, ReleaseReference(t, b) PROVE IdInv'
      <4>1. b \in live
        BY <3>2 DEF ReleaseReference, LoadInv
      <4>2. b <= blockIndex /\ \A u \in Thread : Making(u) => target[u] # b
        BY <4>1 DEF IdInv, ControlInv, ControlAt
      <4>3. /\ IdKeeps(t) /\ UNCHANGED <<live, blocks, blockIndex>>
            /\ nonreferenced' \subseteq nonreferenced \cup {b}
        BY <1>0, <3>2 DEF ReleaseReference, blockUnreferenced, IdKeeps, HasVictim, OwnsVictim,
           Evicting, Making, SharedLabel, Goto, mutexVars, policyVars, poolVars, callVars
      <4>4. \A u \in Thread : IdKeeps(u) /\ (Making(u)' => target'[u] # b)
        BY <2>a, <4>2, <4>3 DEF IdKeeps
      <4>5. QED BY <4>2, <4>3, <4>4, IdAdded
    <3> USE DEF IdKeeps, IdsKept, HasVictim, OwnsVictim, Evicting, Making, SharedLabel, Goto,
       mutexVars, policyVars, poolVars, callVars
    <3>3. ASSUME NEW b \in Block, CallGet(t, b) PROVE IdInv'
      BY <1>0, <2>b, <2>c, <3>3 DEF CallGet
    <3>4. ASSUME NEW b \in Block, CallSave(t, b) PROVE IdInv'
      BY <1>0, <2>b, <2>c, <3>4 DEF CallSave
    <3>5. ASSUME NEW b \in Block, WriteBlock(t, b) PROVE IdInv'
      BY <1>0, <2>b, <2>c, <3>5 DEF WriteBlock
    <3>6. CASE CallCreate(t)
      BY <1>0, <2>b, <2>c, <3>6 DEF CallCreate
    <3>7. QED BY <2>1, <3>1, <3>2, <3>3, <3>4, <3>5, <3>6 DEF Call
  <2>2. CASE SharedStep(t)
    <3> USE DEF IdKeeps, IdsKept, HasVictim, OwnsVictim, Evicting, Making, SharedLabel, Goto,
       mutexVars, policyVars, poolVars, callVars
    <3>1. CASE CountShared(t) \/ LockShared(t)
      BY <1>0, <2>b, <2>c, <3>1 DEF CountShared, CountShard, LockShared, AddReader
    <3>2. CASE BackOff(t) \/ SpinShared(t)
      BY <1>0, <2>b, <2>c, <3>2 DEF BackOff, RemoveReader, SpinShared
    <3>3. CASE Lookup(t) \/ UnlockShared(t)
      BY <1>0, <2>b, <2>c, <3>3 DEF Lookup, Refer, blockReferenced, UnlockShared, RemoveReader
    <3>4. CASE ReleaseShared(t)
      BY <1>0, <2>b, <2>c, <3>4 DEF ReleaseShared, ReleaseShard, Return
    <3>5. QED BY <2>2, <3>1, <3>2, <3>3, <3>4 DEF SharedStep
  <2>3. CASE ExclusiveStep(t)
    <3>1. CASE InsertLoaded(t)
      <4>1. target[t] \in live
        BY <3>1 DEF InsertLoaded, ControlInv, ControlAt
      <4>2. target[t] <= blockIndex /\ \A u \in Thread : Making(u) => target[u] # target[t]
        BY <4>1 DEF IdInv, ControlInv, ControlAt
      <4>3. /\ IdKeeps(t) /\ UNCHANGED <<live, nonreferenced, blockIndex>>
            /\ blocks' = blocks \cup {target[t]}
        BY <1>0, <3>1 DEF InsertLoaded, IdKeeps, HasVictim, OwnsVictim, Evicting, Making,
           SharedLabel, Goto, mutexVars, policyVars, poolVars, callVars
      <4>4. \A u \in Thread : IdKeeps(u) /\ (Making(u)' => target'[u] # target[t])
        BY <2>a, <4>2, <4>3 DEF IdKeeps
      <4>5. QED BY <4>2, <4>3, <4>4, IdAdded
    <3> USE DEF IdKeeps, IdsKept, HasVictim, OwnsVictim, Evicting, Making, SharedLabel, Goto,
       mutexVars, policyVars, poolVars, callVars
    <3>2. CASE CountExclusive(t) \/ Lock(t)
      BY <1>0, <2>b, <2>c, <3>2 DEF CountExclusive, CountShard, Lock, SetWriteBit
    <3>3. CASE Drain(t) \/ LookAgain(t)
      BY <1>0, <2>b, <2>c, <3>3 DEF Drain, Drained, LookAgain, LoadFile, Refer, blockReferenced
    <3>4. CASE Reference(t) \/ Unlock(t)
      BY <1>0, <2>b, <2>c, <3>4 DEF Reference, Refer, blockReferenced, Unlock, unlock
    <3>5. CASE Release(t)
      BY <1>0, <2>b, <2>c, <3>5 DEF Release, ReleaseShard, Return
    <3>6. QED BY <2>3, <3>1, <3>2, <3>3, <3>4, <3>5 DEF ExclusiveStep
  <2>4. CASE RoomStep(t)
    <3>1. CASE MakeRoom(t)
      <4>1. CASE usage + 1 > MaxMemory /\ Evictable # {}
        <5>1. PICK b \in Evictable : /\ chooseBlockToEvict(b)
                                     /\ victim' = [victim EXCEPT ![t] = b]
                                     /\ Goto(t, "countVictim")
          BY <3>1, <4>1 DEF MakeRoom
        <5>2. b \in nonreferenced /\ b <= blockIndex
          BY DEF Evictable, IdInv
        <5>3. /\ victim'[t] = b /\ ~Making(t)' /\ job' = job /\ target' = target
              /\ UNCHANGED <<live, blocks, blockIndex>>
              /\ nonreferenced' \subseteq nonreferenced
          BY <1>0, <3>1, <5>1 DEF MakeRoom, chooseBlockToEvict, HasVictim, OwnsVictim,
             Evicting, Making, SharedLabel, Goto, mutexVars, policyVars, poolVars, callVars
        <5>4. \A c \in live' \cup blocks' \cup nonreferenced' : c <= blockIndex'
          BY <5>2, <5>3 DEF IdInv
        <5>5. ASSUME NEW u \in Thread
              PROVE  /\ job'[u] = "delete" \/ Making(u)' => target'[u] <= blockIndex'
                     /\ HasVictim(u)' => victim'[u] <= blockIndex'
                     /\ Making(u)' => target'[u] \notin nonreferenced'
                     /\ Making(u)' /\ pc'[u] = "insert" => target'[u] \notin blocks'
          BY <2>a, <5>2, <5>3 DEF IdInv, IdKeeps
        <5>6. ASSUME NEW u \in Thread, NEW v \in Thread
              PROVE  /\ Making(u)' /\ HasVictim(v)' => target'[u] # victim'[v]
                     /\ Making(u)' /\ u # v /\ (job'[v] = "delete" \/ Making(v)')
                            => target'[u] # target'[v]
          BY SMTT(30), <2>a, <5>2, <5>3 DEF IdInv, IdKeeps
        <5>7. QED BY <5>4, <5>5, <5>6 DEF IdInv
      <4>2. CASE ~(usage + 1 > MaxMemory /\ Evictable # {})
        BY <1>0, <2>b, <3>1, <4>2 DEF MakeRoom, IdsKept, IdKeeps, HasVictim, OwnsVictim,
           Evicting, Making, SharedLabel, Goto, mutexVars, policyVars, poolVars, callVars
      <4>3. QED BY <4>1, <4>2
    <3>2. CASE Allocate(t)
      <4>1. CASE job[t] = "create"
        <5>1. /\ Making(t)' /\ ~HasVictim(t)' /\ target'[t] = blockIndex + 1
                 /\ job'[t] # "delete"
              /\ blockIndex' = blockIndex + 1 /\ UNCHANGED <<live, blocks, nonreferenced>>
          BY <1>0, <3>2, <4>1 DEF Allocate, HasVictim, OwnsVictim, Evicting, Making,
             SharedLabel, Goto, mutexVars, policyVars, poolVars, callVars
        <5>2. \A x \in Int : x <= blockIndex => x <= blockIndex + 1 /\ x # blockIndex + 1
          BY SMTT(30), <1>0
        <5>3. \A x \in live \cup blocks \cup nonreferenced : x \in Int /\ x <= blockIndex
          BY <1>0 DEF IdInv
        <5>4. \A u \in Thread : victim[u] \in Int /\ target[u] \in Int
          BY <1>0
        <5>5. \A c \in live' \cup blocks' \cup nonreferenced' : c <= blockIndex'
          BY <1>0, <5>1, <5>2, <5>3, <5>4 DEF IdInv
        <5>6. ASSUME NEW u \in Thread
              PROVE  /\ job'[u] = "delete" \/ Making(u)' => target'[u] <= blockIndex'
                     /\ HasVictim(u)' => victim'[u] <= blockIndex'
                     /\ Making(u)' => target'[u] \notin nonreferenced'
                     /\ Making(u)' /\ pc'[u] = "insert" => target'[u] \notin blocks'
          BY SMTT(30), <2>a, <1>0, <5>1, <5>2, <5>3, <5>4 DEF IdInv, IdKeeps
        <5>7. ASSUME NEW u \in Thread, NEW v \in Thread
              PROVE  /\ Making(u)' /\ HasVictim(v)' => target'[u] # victim'[v]
                     /\ Making(u)' /\ u # v /\ (job'[v] = "delete" \/ Making(v)')
                            => target'[u] # target'[v]
          BY SMTT(30), <2>a, <1>0, <5>1, <5>2, <5>3, <5>4 DEF IdInv, IdKeeps
        <5>8. QED BY <5>5, <5>6, <5>7 DEF IdInv
      <4>2. CASE job[t] # "create"
        BY <1>0, <2>b, <3>2, <4>2 DEF Allocate, IdsKept, IdKeeps, HasVictim, OwnsVictim,
           Evicting, Making, SharedLabel, Goto, mutexVars, policyVars, poolVars, callVars
      <4>3. QED BY <4>1, <4>2
    <3> USE DEF IdKeeps, IdsKept, HasVictim, OwnsVictim, Evicting, Making, SharedLabel, Goto,
       mutexVars, policyVars, poolVars, callVars
    <3>3. CASE CountVictim(t) \/ LockVictim(t)
      BY <1>0, <2>b, <2>c, <3>3 DEF CountVictim, CountShard, LockVictim, SetWriteBit
    <3>4. CASE DrainVictim(t) \/ Examine(t)
      BY <1>0, <2>b, <2>c, <3>4 DEF DrainVictim, Drained, Examine
    <3>5. CASE ReleaseVictim(t) \/ UnlockVictim(t)
      BY <1>0, <2>b, <2>c, <3>5 DEF ReleaseVictim, ReleaseShard, UnlockVictim, unlock
    <3>6. QED BY <2>4, <3>1, <3>2, <3>3, <3>4, <3>5 DEF RoomStep
  <2>5. CASE EvictStep(t)
    <3> USE DEF IdKeeps, IdsKept, HasVictim, OwnsVictim, Evicting, Making, SharedLabel, Goto,
       mutexVars, policyVars, poolVars, callVars
    <3>1. CASE SaveBlock(t) \/ MarkClean(t)
      BY <1>0, <2>b, <2>c, <3>1 DEF SaveBlock, AfterSave, Return, MarkClean
    <3>2. CASE Evict(t) \/ Deallocate(t)
      BY <1>0, <2>b, <2>c, <3>2 DEF Evict, Evicted, Deallocate
    <3>3. QED BY <2>5, <3>1, <3>2 DEF EvictStep
  <2>6. CASE OtherStep(t)
    <3>1. CASE InsertCreated(t)
      <4>1. /\ Making(t) /\ IdKeeps(t) /\ pc'[t] # "insert"
            /\ UNCHANGED <<live, nonreferenced, blockIndex>>
            /\ blocks' = blocks \cup {target[t]}
        BY <1>0, <3>1 DEF InsertCreated, IdKeeps, HasVictim, OwnsVictim, Evicting, Making,
           SharedLabel, Goto, mutexVars, policyVars, poolVars, callVars
      <4>2. /\ target[t] <= blockIndex
            /\ \A u \in Thread \ {t} : Making(u) => target[u] # target[t]
        BY <4>1 DEF IdInv
      <4>3. \A u \in Thread : IdKeeps(u) /\ (Making(u)'
               /\ pc'[u] = "insert" => target'[u] # target[t])
        BY <2>a, <4>1, <4>2 DEF IdKeeps
      <4>4. QED BY <4>1, <4>2, <4>3, IdAdded
    <3>2. CASE Created(t)
      <4>1. /\ Making(t) /\ ~Making(t)' /\ ~HasVictim(t)' /\ job'[t] # "delete"
            /\ live' = live \cup {target[t]} /\ nonreferenced' = nonreferenced \cup {target[t]}
            /\ UNCHANGED <<blocks, blockIndex>>
        BY <1>0, <3>2 DEF Created, blockCreated, Return, HasVictim, OwnsVictim, Evicting,
           Making, SharedLabel, Goto, mutexVars, policyVars, poolVars, callVars
      <4>2. /\ target[t] <= blockIndex
            /\ \A u \in Thread \ {t} : Making(u) => target[u] # target[t]
        BY <4>1 DEF IdInv
      <4>3. \A u \in Thread : IdKeeps(u) /\ (Making(u)' => target'[u] # target[t])
        BY <2>a, <4>1, <4>2 DEF IdKeeps
      <4>4. QED BY <4>1, <4>2, <4>3, IdAdded
    <3> USE DEF IdKeeps, IdsKept, HasVictim, OwnsVictim, Evicting, Making, SharedLabel, Goto,
       mutexVars, policyVars, poolVars, callVars
    <3>3. CASE CheckLoaded(t) \/ PolicyEvicted(t)
      BY <1>0, <2>b, <2>c, <3>3 DEF CheckLoaded, PolicyEvicted, blockEvicted
    <3>4. CASE Unlink(t) \/ PolicyDeleted(t)
      BY <1>0, <2>b, <2>c, <3>4 DEF Unlink, PolicyDeleted, blockDeleted, Return
    <3>5. QED BY <2>6, <3>1, <3>2, <3>3, <3>4 DEF OtherStep
  <2>7. QED BY <1>2, <2>1, <2>2, <2>3, <2>4, <2>5, <2>6 DEF Step
<1>3. CASE UNCHANGED vars
  <2>1. IdsKept /\ \A u \in Thread : Same(u)
    BY <1>3 DEF vars, Same, IdsKept, mutexVars, policyVars, poolVars, callVars
  <2>2. QED BY <2>1, SameKeeps, SameIds
<1>4. QED BY <1>1, <1>2, <1>3 DEF Next

(***************************************************************************)
(* The steps that change files or the counter, or that bring a thread to   *)
(* the place where it inserts a block.                                     *)
(***************************************************************************)
LEMMA FileSteps ==
    ASSUME TypeOK, NEW t \in Thread, Call(t) \/ Step(t)
    PROVE  \/ file' = file /\ blockIndex' = blockIndex /\ pc'[t] # "insert"
           \/ Allocate(t) \/ SaveBlock(t) \/ Unlink(t)
           \/ \E b \in Block : WriteBlock(t, b)
<1>0. pc \in [Thread -> Label]
  BY DEF TypeOK
<1> USE DEF Goto, callVars, poolVars
<1>1. CASE Call(t)
  BY <1>0, <1>1 DEF Call, CallCreate, CallGet, CallSave, CallDelete, ReleaseReference
<1>2. CASE SharedStep(t)
  BY <1>0, <1>2 DEF SharedStep, CountShared, LockShared, BackOff, SpinShared, Lookup,
     UnlockShared, ReleaseShared, Return
<1>3. CASE ExclusiveStep(t)
  BY <1>0, <1>3 DEF ExclusiveStep, CountExclusive, Lock, Drain, LookAgain, LoadFile,
     InsertLoaded, Reference, Unlock, Release, Return
<1>4. CASE RoomStep(t)
  BY <1>0, <1>4 DEF RoomStep, MakeRoom, CountVictim, LockVictim, DrainVictim, Examine,
     ReleaseVictim, UnlockVictim
<1>5. CASE EvictStep(t)
  BY <1>0, <1>5 DEF EvictStep, AfterSave, Return, MarkClean, Evict, Deallocate
<1>6. CASE OtherStep(t)
  BY <1>0, <1>6 DEF OtherStep, InsertCreated, Created, Return, CheckLoaded, PolicyEvicted,
     PolicyDeleted
<1>7. QED BY <1>1, <1>2, <1>3, <1>4, <1>5, <1>6 DEF Step

(***************************************************************************)
(* A step gives files only to blocks that have an id.                      *)
(***************************************************************************)
LEMMA FileStep ==
    ASSUME TypeOK, ControlInv, IdInv, FileInv, [Next]_vars
    PROVE  FileInv'
<1>0. /\ pc \in [Thread -> Label] /\ live \in SUBSET Block
      /\ job \in [Thread -> {"none", "create", "get", "save", "delete"}]
      /\ target \in [Thread -> Block \cup {NoBlock}]
      /\ file \in [Block -> FileState]
      /\ blockIndex \in Int /\ Block \subseteq Int
  BY SMTT(30), StorageAssumption DEF TypeOK, NoBlock
<1>a. ASSUME file' = file, blockIndex' = blockIndex, \A u \in Thread : IdKeeps(u)
      PROVE  FileInv'
  BY <1>a DEF FileInv, IdKeeps
<1>1. CASE Restart \/ Crash
  BY <1>1, AfterEnd DEF FileInv
<1>2. ASSUME NEW t \in Thread, Call(t) \/ Step(t) PROVE FileInv'
  <2>a. \A u \in Thread \ {t} : Same(u) /\ IdKeeps(u)
    BY <1>2, Others, SameKeeps
  <2>1. CASE file' = file /\ blockIndex' = blockIndex /\ pc'[t] # "insert"
    <3>1. \A b \in FileIds(file') : b <= blockIndex'
      BY <2>1 DEF FileInv
    <3>2. ASSUME NEW u \in Thread, Making(u)', pc'[u] = "insert"
          PROVE  target'[u] \notin FileIds(file')
      BY <2>a, <2>1, <3>2 DEF FileInv, IdKeeps
    <3>3. QED BY <3>1, <3>2 DEF FileInv
  <2>2. CASE Allocate(t)
    <3>1. file' = file /\ (Making(t)' => target'[t] = blockIndex + 1)
      BY <1>0, <2>2 DEF Allocate, Making, Goto
    <3>2. blockIndex' \in {blockIndex, blockIndex + 1}
      BY <2>2 DEF Allocate
    <3>3. \A b \in FileIds(file') : b <= blockIndex'
      BY SMTT(30), <1>0, <3>1, <3>2 DEF FileInv, FileIds
    <3>4. blockIndex + 1 \notin FileIds(file)
      BY SMTT(30), <1>0 DEF FileInv
    <3>5. ASSUME NEW u \in Thread, Making(u)', pc'[u] = "insert"
          PROVE  target'[u] \notin FileIds(file')
      BY <2>a, <3>1, <3>4, <3>5 DEF FileInv, IdKeeps
    <3>6. QED BY <3>3, <3>5 DEF FileInv
  <2>3. CASE SaveBlock(t)
    <3>1. blockIndex' = blockIndex /\ pc'[t] # "insert" /\ pc[t] = "save"
      BY <1>0, <2>3 DEF SaveBlock, AfterSave, Return, Goto
    <3>2. FileIds(file') \subseteq FileIds(file) \cup {victim[t]}
      BY <1>0, <2>3 DEF SaveBlock, FailedWrite, FileIds
    <3>3. /\ victim[t] \in Block /\ victim[t] <= blockIndex
          /\ \A u \in Thread : Making(u) => target[u] # victim[t]
      <4>1. CASE job[t] = "save"
        BY <4>1, Arguments DEF IdInv
      <4>2. CASE job[t] # "save"
        <5>1. HasVictim(t)
          BY <3>1, <4>2, Jobs DEF HasVictim, OwnsVictim, Evicting, SharedLabel
        <5>2. QED BY <5>1, Arguments DEF IdInv
      <4>3. QED BY <4>1, <4>2
    <3>4. \A b \in FileIds(file') : b <= blockIndex'
      BY <3>1, <3>2, <3>3 DEF FileInv
    <3>5. ASSUME NEW u \in Thread, Making(u)', pc'[u] = "insert"
          PROVE  target'[u] \notin FileIds(file')
      BY <2>a, <3>1, <3>2, <3>3, <3>5 DEF FileInv, IdKeeps
    <3>6. QED BY <3>4, <3>5 DEF FileInv
  <2>4. CASE Unlink(t) \/ \E b \in Block : WriteBlock(t, b)
    <3>1. blockIndex' = blockIndex /\ pc'[t] # "insert"
      BY <1>0, <2>4 DEF Unlink, WriteBlock, Goto, Making
    <3>2. FileIds(file') \subseteq FileIds(file)
      BY <1>0, <2>4 DEF Unlink, WriteBlock, FileIds
    <3>3. ASSUME NEW u \in Thread, Making(u)', pc'[u] = "insert"
          PROVE  target'[u] \notin FileIds(file')
      BY <2>a, <3>1, <3>2, <3>3 DEF FileInv, IdKeeps
    <3>4. QED BY <3>1, <3>2, <3>3 DEF FileInv
  <2>5. QED BY <1>2, <2>1, <2>2, <2>3, <2>4, FileSteps
<1>3. CASE UNCHANGED vars
  <2>1. \A u \in Thread : IdKeeps(u)
    BY <1>3, SameKeeps DEF vars, Same, callVars
  <2>2. QED BY <1>a, <1>3, <2>1 DEF vars, poolVars
<1>4. QED BY <1>1, <1>2, <1>3 DEF Next

-----------------------------------------------------------------------------
(***************************************************************************)
(* When nobody takes a lock, locks stay with their owners.                 *)
(***************************************************************************)
LEMMA SameLocks ==
    ASSUME LockInv, writeBit' = writeBit, \A u \in Thread : LockKeeps(u)
    PROVE  LockInv'
<1>1. ASSUME NEW u \in Thread
      PROVE  /\ OwnsTarget(u)' => writeBit'[TargetShard(u)']
             /\ OwnsVictim(u)' => writeBit'[VictimShard(u)']
  BY DEF LockInv, LockKeeps, TargetShard, VictimShard
<1>2. ASSUME NEW u \in Thread, NEW v \in Thread
      PROVE  /\ u # v /\ OwnsTarget(u)' /\ OwnsTarget(v)' => TargetShard(u)' # TargetShard(v)'
             /\ u # v /\ OwnsVictim(u)' /\ OwnsVictim(v)' => VictimShard(u)' # VictimShard(v)'
             /\ OwnsTarget(u)' /\ OwnsVictim(v)' => TargetShard(u)' # VictimShard(v)'
  BY SMTT(30) DEF LockInv, LockKeeps, TargetShard, VictimShard
<1>3. ASSUME NEW u \in Thread, NEW v \in Thread
      PROVE  /\ pc'[u] = "lookup" /\ OwnsTarget(v)' /\ pc'[v] # "drain"
                    => TargetShard(u)' # TargetShard(v)'
             /\ pc'[u] = "lookup" /\ OwnsVictim(v)' /\ pc'[v] # "drainVictim"
                    => TargetShard(u)' # VictimShard(v)'
  BY SMTT(30) DEF LockInv, LockKeeps, TargetShard, VictimShard
<1>4. QED BY <1>1, <1>2, <1>3 DEF LockInv

(***************************************************************************)
(* A step keeps what is known of the locks of shards.                      *)
(***************************************************************************)
LEMMA LockStep ==
    ASSUME TypeOK, ControlInv, LockInv,
           \A s \in Shard : readers[s] = 0 =>
               \A u \in Thread : pc[u] = "lookup" => TargetShard(u) # s, [Next]_vars
    PROVE  LockInv'
<1>0. /\ pc \in [Thread -> Label] /\ writeBit \in [Shard -> BOOLEAN]
      /\ job \in [Thread -> {"none", "create", "get", "save", "delete"}]
      /\ target \in [Thread -> Block \cup {NoBlock}]
      /\ victim \in [Thread -> Block \cup {NoBlock}]
  BY DEF TypeOK, MutexType
<1>a. \A u \in Thread : /\ OwnsTarget(u) => TargetShard(u) \in Shard
                        /\ OwnsVictim(u) => VictimShard(u) \in Shard
  BY StorageAssumption, Arguments
     DEF OwnsTarget, Loading, GetLabel, HasVictim, TargetShard, VictimShard
<1>1. CASE Restart \/ Crash
  <2>1. \A u \in Thread : pc'[u] = "idle"
    BY <1>1, AfterEnd
  <2>2. QED BY <2>1 DEF LockInv, OwnsTarget, OwnsVictim, Loading, Evicting, RoomLabel,
     SharedLabel
<1>2. ASSUME NEW t \in Thread, Call(t) \/ Step(t) PROVE LockInv'
  <2>a. \A u \in Thread \ {t} : LockKeeps(u)
    BY <1>2, Others, SameKeeps
  <2>b. writeBit' = writeBit /\ LockKeeps(t) => LockInv'
    BY <2>a, SameLocks
  <2>c. /\ pc[t] \in {"save", "markClean"} => job[t] \in {"create", "get", "save"}
        /\ pc[t] \in {"evict", "deallocate"} => job[t] \in {"create", "get", "delete"}
        /\ pc[t] = "checkLoaded" => job[t] = "delete"
    BY Jobs
  <2>1. CASE Call(t)
    <3> USE DEF LockKeeps, AddReader, RemoveReader, OwnsTarget, OwnsVictim, Loading, Evicting,
       RoomLabel, SharedLabel, Goto, mutexVars, policyVars, poolVars, callVars
    <3>1. ASSUME NEW b \in Block, CallGet(t, b) PROVE LockInv'
      BY <1>0, <2>b, <2>c, <3>1 DEF CallGet
    <3>2. ASSUME NEW b \in Block, CallSave(t, b) PROVE LockInv'
      BY <1>0, <2>b, <2>c, <3>2 DEF CallSave
    <3>3. ASSUME NEW b \in Block, CallDelete(t, b) PROVE LockInv'
      BY <1>0, <2>b, <2>c, <3>3 DEF CallDelete
    <3>4. ASSUME NEW b \in Block, WriteBlock(t, b) PROVE LockInv'
      BY <1>0, <2>b, <2>c, <3>4 DEF WriteBlock
    <3>5. ASSUME NEW b \in Block, ReleaseReference(t, b) PROVE LockInv'
      BY <1>0, <2>b, <2>c, <3>5 DEF ReleaseReference, blockUnreferenced
    <3>6. CASE CallCreate(t)
      BY <1>0, <2>b, <2>c, <3>6 DEF CallCreate
    <3>7. QED BY <2>1, <3>1, <3>2, <3>3, <3>4, <3>5, <3>6 DEF Call
  <2>2. CASE SharedStep(t)
    <3>1. CASE LockShared(t)
      <4>1. CASE writeBit[ShardOf[target[t]]]
        BY <1>0, <2>b, <3>1, <4>1 DEF LockShared, AddReader, LockKeeps, OwnsTarget,
           OwnsVictim, Loading, Evicting, RoomLabel, SharedLabel, Goto, callVars
      <4>2. CASE ~writeBit[ShardOf[target[t]]]
        <5>1. /\ ~OwnsTarget(t)' /\ ~OwnsVictim(t)' /\ ~writeBit[TargetShard(t)]
              /\ target'[t] = target[t] /\ writeBit' = writeBit
          BY <1>0, <3>1, <4>2 DEF LockShared, AddReader, TargetShard, OwnsTarget, OwnsVictim,
             Loading, Evicting, RoomLabel, SharedLabel, Goto, callVars
        <5>2. ASSUME NEW u \in Thread
              PROVE  /\ OwnsTarget(u)' => writeBit'[TargetShard(u)']
                     /\ OwnsVictim(u)' => writeBit'[VictimShard(u)']
          BY <2>a, <5>1 DEF LockInv, LockKeeps, TargetShard, VictimShard
        <5>3. ASSUME NEW u \in Thread, NEW v \in Thread
              PROVE  /\ u # v /\ OwnsTarget(u)'
                       /\ OwnsTarget(v)' => TargetShard(u)' # TargetShard(v)'
                     /\ u # v /\ OwnsVictim(u)'
                              /\ OwnsVictim(v)' => VictimShard(u)' # VictimShard(v)'
                     /\ OwnsTarget(u)' /\ OwnsVictim(v)' => TargetShard(u)' # VictimShard(v)'
          BY SMTT(30), <2>a, <5>1 DEF LockInv, LockKeeps, TargetShard, VictimShard
        <5>4. ASSUME NEW u \in Thread, NEW v \in Thread
              PROVE  /\ pc'[u] = "lookup" /\ OwnsTarget(v)' /\ pc'[v] # "drain"
                            => TargetShard(u)' # TargetShard(v)'
                     /\ pc'[u] = "lookup" /\ OwnsVictim(v)' /\ pc'[v] # "drainVictim"
                            => TargetShard(u)' # VictimShard(v)'
          BY SMTT(30), <2>a, <5>1 DEF LockInv, LockKeeps, TargetShard, VictimShard
        <5>5. QED BY <5>2, <5>3, <5>4 DEF LockInv
      <4>3. QED BY <4>1, <4>2
    <3> USE DEF LockKeeps, AddReader, RemoveReader, OwnsTarget, OwnsVictim, Loading, Evicting,
       RoomLabel, SharedLabel, Goto, mutexVars, policyVars, poolVars, callVars
    <3>2. CASE CountShared(t) \/ BackOff(t)
      BY <1>0, <2>b, <2>c, <3>2 DEF CountShared, CountShard, BackOff, RemoveReader
    <3>3. CASE SpinShared(t) \/ Lookup(t)
      BY <1>0, <2>b, <2>c, <3>3 DEF SpinShared, Lookup, Refer, blockReferenced
    <3>4. CASE UnlockShared(t) \/ ReleaseShared(t)
      BY <1>0, <2>b, <2>c, <3>4 DEF UnlockShared, RemoveReader, ReleaseShared, ReleaseShard,
         Return
    <3>5. QED BY <2>2, <3>1, <3>2, <3>3, <3>4 DEF SharedStep
  <2>3. CASE ExclusiveStep(t)
    <3>1. CASE Lock(t)
      <4>1. TargetShard(t) \in Shard
        BY <3>1, StorageAssumption, Arguments DEF Lock, GetLabel, HasVictim, TargetShard
      <4>2. /\ OwnsTarget(t)' /\ target'[t] = target[t] /\ pc'[t] = "drain"
            /\ ~OwnsVictim(t)'
        BY <1>0, <3>1 DEF Lock, OwnsTarget, OwnsVictim, Loading, Evicting, RoomLabel,
           SharedLabel, Goto, callVars
      <4>3. /\ ~writeBit[TargetShard(t)]
            /\ writeBit' = [writeBit EXCEPT ![TargetShard(t)] = TRUE]
        BY <3>1 DEF Lock, SetWriteBit, TargetShard
      <4>4. writeBit'[TargetShard(t)] /\ \A s \in Shard : writeBit[s] => writeBit'[s]
        BY <1>0, <4>1, <4>3
      <4>5. ASSUME NEW u \in Thread
            PROVE  /\ OwnsTarget(u)' => writeBit'[TargetShard(u)']
                   /\ OwnsVictim(u)' => writeBit'[VictimShard(u)']
        BY <1>a, <2>a, <4>2, <4>3, <4>4 DEF LockInv, LockKeeps, TargetShard, VictimShard
      <4>6. ASSUME NEW u \in Thread, NEW v \in Thread
            PROVE  /\ u # v /\ OwnsTarget(u)'
                     /\ OwnsTarget(v)' => TargetShard(u)' # TargetShard(v)'
                   /\ u # v /\ OwnsVictim(u)'
                            /\ OwnsVictim(v)' => VictimShard(u)' # VictimShard(v)'
                   /\ OwnsTarget(u)' /\ OwnsVictim(v)' => TargetShard(u)' # VictimShard(v)'
        BY SMTT(30), <1>a, <2>a, <4>2, <4>3, <4>4 DEF LockInv, LockKeeps, TargetShard, VictimShard
      <4>7. ASSUME NEW u \in Thread, NEW v \in Thread
            PROVE  /\ pc'[u] = "lookup" /\ OwnsTarget(v)' /\ pc'[v] # "drain"
                          => TargetShard(u)' # TargetShard(v)'
                   /\ pc'[u] = "lookup" /\ OwnsVictim(v)' /\ pc'[v] # "drainVictim"
                          => TargetShard(u)' # VictimShard(v)'
        BY SMTT(30), <1>a, <2>a, <4>2, <4>3, <4>4 DEF LockInv, LockKeeps, TargetShard, VictimShard
      <4>8. QED BY <4>5, <4>6, <4>7 DEF LockInv
    <3>2. CASE Drain(t)
      <4>1. OwnsTarget(t) /\ TargetShard(t) \in Shard
        BY <1>a, <3>2 DEF Drain, OwnsTarget
      <4>2. /\ OwnsTarget(t)' /\ target'[t] = target[t]
            /\ pc'[t] \notin {"drain", "drainVictim", "lookup"}
            /\ ~OwnsVictim(t)'
        BY <1>0, <3>2 DEF Drain, OwnsTarget, OwnsVictim, Loading, Evicting, RoomLabel,
           SharedLabel, Goto, callVars
      <4>3. writeBit' = writeBit /\ readers[TargetShard(t)] = 0
        BY <3>2 DEF Drain, Drained, mutexVars, TargetShard
      <4>4. \A u \in Thread : pc[u] = "lookup" => TargetShard(u) # TargetShard(t)
        BY <4>1, <4>3
      <4>5. ASSUME NEW u \in Thread
            PROVE  /\ OwnsTarget(u)' => writeBit'[TargetShard(u)']
                   /\ OwnsVictim(u)' => writeBit'[VictimShard(u)']
        BY SMTT(30), <2>a, <4>1, <4>2, <4>3, <4>4 DEF LockInv, LockKeeps, TargetShard, VictimShard
      <4>6. ASSUME NEW u \in Thread, NEW v \in Thread
            PROVE  /\ u # v /\ OwnsTarget(u)'
                     /\ OwnsTarget(v)' => TargetShard(u)' # TargetShard(v)'
                   /\ u # v /\ OwnsVictim(u)'
                            /\ OwnsVictim(v)' => VictimShard(u)' # VictimShard(v)'
                   /\ OwnsTarget(u)' /\ OwnsVictim(v)' => TargetShard(u)' # VictimShard(v)'
        BY SMTT(30), <2>a, <4>1, <4>2, <4>3, <4>4 DEF LockInv, LockKeeps, TargetShard, VictimShard
      <4>7. ASSUME NEW u \in Thread, NEW v \in Thread
            PROVE  /\ pc'[u] = "lookup" /\ OwnsTarget(v)' /\ pc'[v] # "drain"
                          => TargetShard(u)' # TargetShard(v)'
                   /\ pc'[u] = "lookup" /\ OwnsVictim(v)' /\ pc'[v] # "drainVictim"
                          => TargetShard(u)' # VictimShard(v)'
        BY SMTT(30), <2>a, <4>1, <4>2, <4>3, <4>4 DEF LockInv, LockKeeps, TargetShard, VictimShard
      <4>8. QED BY <4>5, <4>6, <4>7 DEF LockInv
    <3>3. CASE Unlock(t)
      <4>1. OwnsTarget(t) /\ TargetShard(t) \in Shard
        BY <1>a, <3>3 DEF Unlock, OwnsTarget
      <4>2. /\ ~OwnsTarget(t)' /\ pc'[t] # "lookup"
            /\ ~OwnsVictim(t)'
        BY <1>0, <3>3 DEF Unlock, OwnsTarget, OwnsVictim, Loading, Evicting, RoomLabel,
           SharedLabel, Goto, callVars
      <4>3. writeBit' = [writeBit EXCEPT ![TargetShard(t)] = FALSE]
        BY <3>3 DEF Unlock, unlock, TargetShard
      <4>4. \A s \in Shard : writeBit[s] /\ s # TargetShard(t) => writeBit'[s]
        BY <1>0, <4>3
      <4>5. ASSUME NEW u \in Thread
            PROVE  /\ OwnsTarget(u)' => writeBit'[TargetShard(u)']
                   /\ OwnsVictim(u)' => writeBit'[VictimShard(u)']
        BY SMTT(30), <1>a, <2>a, <4>1, <4>2, <4>4 DEF LockInv, LockKeeps, TargetShard, VictimShard
      <4>6. ASSUME NEW u \in Thread, NEW v \in Thread
            PROVE  /\ u # v /\ OwnsTarget(u)'
                     /\ OwnsTarget(v)' => TargetShard(u)' # TargetShard(v)'
                   /\ u # v /\ OwnsVictim(u)'
                            /\ OwnsVictim(v)' => VictimShard(u)' # VictimShard(v)'
                   /\ OwnsTarget(u)' /\ OwnsVictim(v)' => TargetShard(u)' # VictimShard(v)'
        BY SMTT(30), <1>a, <2>a, <4>1, <4>2, <4>4 DEF LockInv, LockKeeps, TargetShard, VictimShard
      <4>7. ASSUME NEW u \in Thread, NEW v \in Thread
            PROVE  /\ pc'[u] = "lookup" /\ OwnsTarget(v)' /\ pc'[v] # "drain"
                          => TargetShard(u)' # TargetShard(v)'
                   /\ pc'[u] = "lookup" /\ OwnsVictim(v)' /\ pc'[v] # "drainVictim"
                          => TargetShard(u)' # VictimShard(v)'
        BY SMTT(30), <1>a, <2>a, <4>1, <4>2, <4>4 DEF LockInv, LockKeeps, TargetShard, VictimShard
      <4>8. QED BY <4>5, <4>6, <4>7 DEF LockInv
    <3> USE DEF LockKeeps, AddReader, RemoveReader, OwnsTarget, OwnsVictim, Loading, Evicting,
       RoomLabel, SharedLabel, Goto, mutexVars, policyVars, poolVars, callVars
    <3>4. CASE CountExclusive(t) \/ LookAgain(t)
      BY <1>0, <2>b, <2>c, <3>4 DEF CountExclusive, CountShard, LookAgain, LoadFile, Refer,
         blockReferenced
    <3>5. CASE InsertLoaded(t) \/ Reference(t)
      BY <1>0, <2>b, <2>c, <3>5 DEF InsertLoaded, Reference, Refer, blockReferenced
    <3>6. CASE Release(t)
      BY <1>0, <2>b, <2>c, <3>6 DEF Release, ReleaseShard, Return
    <3>7. QED BY <2>3, <3>1, <3>2, <3>3, <3>4, <3>5, <3>6 DEF ExclusiveStep
  <2>4. CASE RoomStep(t)
    <3>1. CASE LockVictim(t)
      <4>1. VictimShard(t) \in Shard
        BY <3>1, StorageAssumption, Arguments DEF LockVictim, GetLabel, HasVictim, VictimShard
      <4>2. /\ OwnsVictim(t)' /\ victim'[t] = victim[t] /\ pc'[t] = "drainVictim"
            /\ OwnsTarget(t)' => OwnsTarget(t) /\ pc[t] # "drain" /\ target'[t] = target[t]
        BY <1>0, <3>1 DEF LockVictim, OwnsTarget, OwnsVictim, Loading, Evicting, RoomLabel,
           SharedLabel, Goto, callVars
      <4>3. /\ ~writeBit[VictimShard(t)]
            /\ writeBit' = [writeBit EXCEPT ![VictimShard(t)] = TRUE]
        BY <3>1 DEF LockVictim, SetWriteBit, VictimShard
      <4>4. writeBit'[VictimShard(t)] /\ \A s \in Shard : writeBit[s] => writeBit'[s]
        BY <1>0, <4>1, <4>3
      <4>5. ASSUME NEW u \in Thread
            PROVE  /\ OwnsTarget(u)' => writeBit'[TargetShard(u)']
                   /\ OwnsVictim(u)' => writeBit'[VictimShard(u)']
        BY SMTT(30), <1>a, <2>a, <4>2, <4>3, <4>4 DEF LockInv, LockKeeps, TargetShard, VictimShard
      <4>6. ASSUME NEW u \in Thread, NEW v \in Thread
            PROVE  /\ u # v /\ OwnsTarget(u)'
                     /\ OwnsTarget(v)' => TargetShard(u)' # TargetShard(v)'
                   /\ u # v /\ OwnsVictim(u)'
                            /\ OwnsVictim(v)' => VictimShard(u)' # VictimShard(v)'
                   /\ OwnsTarget(u)' /\ OwnsVictim(v)' => TargetShard(u)' # VictimShard(v)'
        BY SMTT(30), <1>a, <2>a, <4>2, <4>3, <4>4 DEF LockInv, LockKeeps, TargetShard, VictimShard
      <4>7. ASSUME NEW u \in Thread, NEW v \in Thread
            PROVE  /\ pc'[u] = "lookup" /\ OwnsTarget(v)' /\ pc'[v] # "drain"
                          => TargetShard(u)' # TargetShard(v)'
                   /\ pc'[u] = "lookup" /\ OwnsVictim(v)' /\ pc'[v] # "drainVictim"
                          => TargetShard(u)' # VictimShard(v)'
        BY SMTT(30), <1>a, <2>a, <4>2, <4>3, <4>4 DEF LockInv, LockKeeps, TargetShard, VictimShard
      <4>8. QED BY <4>5, <4>6, <4>7 DEF LockInv
    <3>2. CASE DrainVictim(t)
      <4>1. OwnsVictim(t) /\ VictimShard(t) \in Shard
        BY <1>a, <3>2 DEF DrainVictim, OwnsVictim
      <4>2. /\ OwnsVictim(t)' /\ victim'[t] = victim[t]
            /\ pc'[t] \notin {"drain", "drainVictim", "lookup"}
            /\ OwnsTarget(t)' => OwnsTarget(t) /\ pc[t] # "drain" /\ target'[t] = target[t]
        BY <1>0, <3>2 DEF DrainVictim, OwnsTarget, OwnsVictim, Loading, Evicting, RoomLabel,
           SharedLabel, Goto, callVars
      <4>3. writeBit' = writeBit /\ readers[VictimShard(t)] = 0
        BY <3>2 DEF DrainVictim, Drained, mutexVars, VictimShard
      <4>4. \A u \in Thread : pc[u] = "lookup" => TargetShard(u) # VictimShard(t)
        BY <4>1, <4>3
      <4>5. ASSUME NEW u \in Thread
            PROVE  /\ OwnsTarget(u)' => writeBit'[TargetShard(u)']
                   /\ OwnsVictim(u)' => writeBit'[VictimShard(u)']
        BY SMTT(30), <2>a, <4>1, <4>2, <4>3, <4>4 DEF LockInv, LockKeeps, TargetShard, VictimShard
      <4>6. ASSUME NEW u \in Thread, NEW v \in Thread
            PROVE  /\ u # v /\ OwnsTarget(u)'
                     /\ OwnsTarget(v)' => TargetShard(u)' # TargetShard(v)'
                   /\ u # v /\ OwnsVictim(u)'
                            /\ OwnsVictim(v)' => VictimShard(u)' # VictimShard(v)'
                   /\ OwnsTarget(u)' /\ OwnsVictim(v)' => TargetShard(u)' # VictimShard(v)'
        BY SMTT(30), <2>a, <4>1, <4>2, <4>3, <4>4 DEF LockInv, LockKeeps, TargetShard, VictimShard
      <4>7. ASSUME NEW u \in Thread, NEW v \in Thread
            PROVE  /\ pc'[u] = "lookup" /\ OwnsTarget(v)' /\ pc'[v] # "drain"
                          => TargetShard(u)' # TargetShard(v)'
                   /\ pc'[u] = "lookup" /\ OwnsVictim(v)' /\ pc'[v] # "drainVictim"
                          => TargetShard(u)' # VictimShard(v)'
        BY SMTT(30), <2>a, <4>1, <4>2, <4>3, <4>4 DEF LockInv, LockKeeps, TargetShard, VictimShard
      <4>8. QED BY <4>5, <4>6, <4>7 DEF LockInv
    <3>3. CASE UnlockVictim(t)
      <4>1. OwnsVictim(t) /\ VictimShard(t) \in Shard
        BY <1>a, <3>3 DEF UnlockVictim, OwnsVictim
      <4>2. /\ ~OwnsVictim(t)' /\ pc'[t] # "lookup"
            /\ OwnsTarget(t)' => OwnsTarget(t) /\ pc[t] # "drain" /\ target'[t] = target[t]
        BY <1>0, <3>3 DEF UnlockVictim, OwnsTarget, OwnsVictim, Loading, Evicting, RoomLabel,
           SharedLabel, Goto, callVars
      <4>3. writeBit' = [writeBit EXCEPT ![VictimShard(t)] = FALSE]
        BY <3>3 DEF UnlockVictim, unlock, VictimShard
      <4>4. \A s \in Shard : writeBit[s] /\ s # VictimShard(t) => writeBit'[s]
        BY <1>0, <4>3
      <4>5. ASSUME NEW u \in Thread
            PROVE  /\ OwnsTarget(u)' => writeBit'[TargetShard(u)']
                   /\ OwnsVictim(u)' => writeBit'[VictimShard(u)']
        BY SMTT(30), <1>a, <2>a, <4>1, <4>2, <4>4 DEF LockInv, LockKeeps, TargetShard, VictimShard
      <4>6. ASSUME NEW u \in Thread, NEW v \in Thread
            PROVE  /\ u # v /\ OwnsTarget(u)'
                     /\ OwnsTarget(v)' => TargetShard(u)' # TargetShard(v)'
                   /\ u # v /\ OwnsVictim(u)'
                            /\ OwnsVictim(v)' => VictimShard(u)' # VictimShard(v)'
                   /\ OwnsTarget(u)' /\ OwnsVictim(v)' => TargetShard(u)' # VictimShard(v)'
        BY SMTT(30), <1>a, <2>a, <4>1, <4>2, <4>4 DEF LockInv, LockKeeps, TargetShard, VictimShard
      <4>7. ASSUME NEW u \in Thread, NEW v \in Thread
            PROVE  /\ pc'[u] = "lookup" /\ OwnsTarget(v)' /\ pc'[v] # "drain"
                          => TargetShard(u)' # TargetShard(v)'
                   /\ pc'[u] = "lookup" /\ OwnsVictim(v)' /\ pc'[v] # "drainVictim"
                          => TargetShard(u)' # VictimShard(v)'
        BY SMTT(30), <1>a, <2>a, <4>1, <4>2, <4>4 DEF LockInv, LockKeeps, TargetShard, VictimShard
      <4>8. QED BY <4>5, <4>6, <4>7 DEF LockInv
    <3> USE DEF LockKeeps, AddReader, RemoveReader, OwnsTarget, OwnsVictim, Loading, Evicting,
       RoomLabel, SharedLabel, Goto, mutexVars, policyVars, poolVars, callVars
    <3>4. CASE MakeRoom(t) \/ CountVictim(t)
      BY <1>0, <2>b, <2>c, <3>4 DEF MakeRoom, chooseBlockToEvict, Evictable, CountVictim,
         CountShard
    <3>5. CASE Examine(t) \/ ReleaseVictim(t)
      BY <1>0, <2>b, <2>c, <3>5 DEF Examine, ReleaseVictim, ReleaseShard
    <3>6. CASE Allocate(t)
      BY <1>0, <2>b, <2>c, <3>6 DEF Allocate
    <3>7. QED BY <2>4, <3>1, <3>2, <3>3, <3>4, <3>5, <3>6 DEF RoomStep
  <2>5. CASE EvictStep(t)
    <3> USE DEF LockKeeps, AddReader, RemoveReader, OwnsTarget, OwnsVictim, Loading, Evicting,
       RoomLabel, SharedLabel, Goto, mutexVars, policyVars, poolVars, callVars
    <3>1. CASE SaveBlock(t) \/ MarkClean(t)
      BY <1>0, <2>b, <2>c, <3>1 DEF SaveBlock, AfterSave, Return, MarkClean
    <3>2. CASE Evict(t) \/ Deallocate(t)
      BY <1>0, <2>b, <2>c, <3>2 DEF Evict, Evicted, Deallocate
    <3>3. QED BY <2>5, <3>1, <3>2 DEF EvictStep
  <2>6. CASE OtherStep(t)
    <3> USE DEF LockKeeps, AddReader, RemoveReader, OwnsTarget, OwnsVictim, Loading, Evicting,
       RoomLabel, SharedLabel, Goto, mutexVars, policyVars, poolVars, callVars
    <3>1. CASE InsertCreated(t) \/ Created(t)
      BY <1>0, <2>b, <2>c, <3>1 DEF InsertCreated, Created, blockCreated, Return
    <3>2. CASE CheckLoaded(t) \/ PolicyEvicted(t)
      BY <1>0, <2>b, <2>c, <3>2 DEF CheckLoaded, PolicyEvicted, blockEvicted
    <3>3. CASE Unlink(t) \/ PolicyDeleted(t)
      BY <1>0, <2>b, <2>c, <3>3 DEF Unlink, PolicyDeleted, blockDeleted, Return
    <3>4. QED BY <2>6, <3>1, <3>2, <3>3 DEF OtherStep
  <2>7. QED BY <1>2, <2>1, <2>2, <2>3, <2>4, <2>5, <2>6 DEF Step
<1>3. CASE UNCHANGED vars
  <2>1. writeBit' = writeBit /\ \A u \in Thread : Same(u)
    BY <1>3 DEF vars, Same, mutexVars, policyVars, poolVars, callVars
  <2>2. QED BY <2>1, SameKeeps, SameLocks
<1>4. QED BY <1>1, <1>2, <1>3 DEF Next

-----------------------------------------------------------------------------
(***************************************************************************)
(* When nobody starts to get a block or takes a reference, blocks that are *)
(* being got are still not referenced.                                     *)
(***************************************************************************)
LEMMA SameAsked ==
    ASSUME AskInv, \A u \in Thread : AskKeeps(u)
    PROVE  AskInv'
  BY DEF AskInv, AskKeeps

(***************************************************************************)
(* A step keeps blocks that are being got apart from those referenced.     *)
(***************************************************************************)
LEMMA AskStep ==
    ASSUME TypeOK, ControlInv, AskInv, [Next]_vars
    PROVE  AskInv'
<1>0. /\ pc \in [Thread -> Label]
      /\ job \in [Thread -> {"none", "create", "get", "save", "delete"}]
      /\ target \in [Thread -> Block \cup {NoBlock}]
      /\ held \in [Thread -> SUBSET Block]
  BY DEF TypeOK
<1>1. CASE Restart \/ Crash
  <2>1. \A u \in Thread : pc'[u] = "idle" /\ held'[u] = {}
    BY <1>1, AfterEnd
  <2>2. QED BY <2>1 DEF AskInv
<1>2. ASSUME NEW t \in Thread, Call(t) \/ Step(t) PROVE AskInv'
  <2>a. \A u \in Thread \ {t} : AskKeeps(u)
    BY <1>2, Others, SameKeeps
  <2>b. AskKeeps(t) => AskInv'
    BY <2>a, SameAsked
  <2>c. /\ pc[t] \in {"save", "markClean"} => job[t] \in {"create", "get", "save"}
        /\ pc[t] \in {"evict", "deallocate"} => job[t] \in {"create", "get", "delete"}
        /\ pc[t] = "checkLoaded" => job[t] = "delete"
    BY Jobs
  <2>1. CASE Call(t)
    <3>1. ASSUME NEW b \in Block, CallGet(t, b) PROVE AskInv'
      <4>1. target'[t] \notin held'[t]
        BY <1>0, <3>1 DEF CallGet
      <4>2. QED BY <2>a, <4>1 DEF AskInv, AskKeeps
    <3> USE DEF AskKeeps, Asks, Loading, RoomLabel, SharedLabel, Goto, mutexVars, policyVars,
       poolVars, callVars
    <3>2. ASSUME NEW b \in Block, CallSave(t, b) PROVE AskInv'
      BY <1>0, <2>b, <2>c, <3>2 DEF CallSave
    <3>3. ASSUME NEW b \in Block, CallDelete(t, b) PROVE AskInv'
      BY <1>0, <2>b, <2>c, <3>3 DEF CallDelete
    <3>4. ASSUME NEW b \in Block, WriteBlock(t, b) PROVE AskInv'
      BY <1>0, <2>b, <2>c, <3>4 DEF WriteBlock
    <3>5. ASSUME NEW b \in Block, ReleaseReference(t, b) PROVE AskInv'
      BY <1>0, <2>b, <2>c, <3>5 DEF ReleaseReference, blockUnreferenced
    <3>6. CASE CallCreate(t)
      BY <1>0, <2>b, <2>c, <3>6 DEF CallCreate
    <3>7. QED BY <2>1, <3>1, <3>2, <3>3, <3>4, <3>5, <3>6 DEF Call
  <2>2. CASE SharedStep(t)
    <3>1. CASE ReleaseShared(t)
      <4>1. Asks(t)' => target'[t] \notin held'[t]
        BY <1>0, <3>1 DEF ReleaseShared, Return, Asks, Loading, RoomLabel, SharedLabel, Goto,
           callVars
      <4>2. QED BY <2>a, <4>1 DEF AskInv, AskKeeps
    <3> USE DEF AskKeeps, Asks, Loading, RoomLabel, SharedLabel, Goto, mutexVars, policyVars,
       poolVars, callVars
    <3>2. CASE CountShared(t) \/ LockShared(t)
      BY <1>0, <2>b, <2>c, <3>2 DEF CountShared, CountShard, LockShared, AddReader
    <3>3. CASE BackOff(t) \/ SpinShared(t)
      BY <1>0, <2>b, <2>c, <3>3 DEF BackOff, RemoveReader, SpinShared
    <3>4. CASE Lookup(t) \/ UnlockShared(t)
      BY <1>0, <2>b, <2>c, <3>4 DEF Lookup, Refer, blockReferenced, UnlockShared, RemoveReader
    <3>5. QED BY <2>2, <3>1, <3>2, <3>3, <3>4 DEF SharedStep
  <2>3. CASE ExclusiveStep(t)
    <3> USE DEF AskKeeps, Asks, Loading, RoomLabel, SharedLabel, Goto, mutexVars, policyVars,
       poolVars, callVars
    <3>1. CASE CountExclusive(t) \/ Lock(t)
      BY <1>0, <2>b, <2>c, <3>1 DEF CountExclusive, CountShard, Lock, SetWriteBit
    <3>2. CASE Drain(t) \/ LookAgain(t)
      BY <1>0, <2>b, <2>c, <3>2 DEF Drain, Drained, LookAgain, LoadFile, Refer, blockReferenced
    <3>3. CASE InsertLoaded(t) \/ Reference(t)
      BY <1>0, <2>b, <2>c, <3>3 DEF InsertLoaded, Reference, Refer, blockReferenced
    <3>4. CASE Unlock(t) \/ Release(t)
      BY <1>0, <2>b, <2>c, <3>4 DEF Unlock, unlock, Release, ReleaseShard, Return
    <3>5. QED BY <2>3, <3>1, <3>2, <3>3, <3>4 DEF ExclusiveStep
  <2>4. CASE RoomStep(t)
    <3> USE DEF AskKeeps, Asks, Loading, RoomLabel, SharedLabel, Goto, mutexVars, policyVars,
       poolVars, callVars
    <3>1. CASE MakeRoom(t) \/ CountVictim(t)
      BY <1>0, <2>b, <2>c, <3>1 DEF MakeRoom, chooseBlockToEvict, Evictable, CountVictim,
         CountShard
    <3>2. CASE LockVictim(t) \/ DrainVictim(t)
      BY <1>0, <2>b, <2>c, <3>2 DEF LockVictim, SetWriteBit, DrainVictim, Drained
    <3>3. CASE Examine(t) \/ ReleaseVictim(t)
      BY <1>0, <2>b, <2>c, <3>3 DEF Examine, ReleaseVictim, ReleaseShard
    <3>4. CASE UnlockVictim(t) \/ Allocate(t)
      BY <1>0, <2>b, <2>c, <3>4 DEF UnlockVictim, unlock, Allocate
    <3>5. QED BY <2>4, <3>1, <3>2, <3>3, <3>4 DEF RoomStep
  <2>5. CASE EvictStep(t)
    <3> USE DEF AskKeeps, Asks, Loading, RoomLabel, SharedLabel, Goto, mutexVars, policyVars,
       poolVars, callVars
    <3>1. CASE SaveBlock(t) \/ MarkClean(t)
      BY <1>0, <2>b, <2>c, <3>1 DEF SaveBlock, AfterSave, Return, MarkClean
    <3>2. CASE Evict(t) \/ Deallocate(t)
      BY <1>0, <2>b, <2>c, <3>2 DEF Evict, Evicted, Deallocate
    <3>3. QED BY <2>5, <3>1, <3>2 DEF EvictStep
  <2>6. CASE OtherStep(t)
    <3> USE DEF AskKeeps, Asks, Loading, RoomLabel, SharedLabel, Goto, mutexVars, policyVars,
       poolVars, callVars
    <3>1. CASE InsertCreated(t) \/ Created(t)
      BY <1>0, <2>b, <2>c, <3>1 DEF InsertCreated, Created, blockCreated, Return
    <3>2. CASE CheckLoaded(t) \/ PolicyEvicted(t)
      BY <1>0, <2>b, <2>c, <3>2 DEF CheckLoaded, PolicyEvicted, blockEvicted
    <3>3. CASE Unlink(t) \/ PolicyDeleted(t)
      BY <1>0, <2>b, <2>c, <3>3 DEF Unlink, PolicyDeleted, blockDeleted, Return
    <3>4. QED BY <2>6, <3>1, <3>2, <3>3 DEF OtherStep
  <2>7. QED BY <1>2, <2>1, <2>2, <2>3, <2>4, <2>5, <2>6 DEF Step
<1>3. CASE UNCHANGED vars
  <2>1. \A u \in Thread : Same(u)
    BY <1>3 DEF vars, Same, mutexVars, policyVars, poolVars, callVars
  <2>2. QED BY <2>1, SameKeeps, SameAsked
<1>4. QED BY <1>1, <1>2, <1>3 DEF Next

(***************************************************************************)
(* When nobody takes a reference or chooses a victim, references stay to   *)
(* blocks in the map as long as none of those leaves it.                   *)
(***************************************************************************)
LEMMA MovedLoads ==
    ASSUME LoadInv,
           \A u \in Thread :
               /\ LoadKeeps(u)
               /\ held[u] \cap blocks \cap live \subseteq blocks' \cap live'
               /\ Loading(u) => target[u] \notin blocks' \ blocks
               /\ pc[u] = "reference" => target[u] \notin blocks \ blocks'
    PROVE  LoadInv'
<1>1. ASSUME NEW u \in Thread
      PROVE  /\ held'[u] \subseteq blocks' \cap live'
             /\ Loading(u)' => target'[u] \notin blocks'
             /\ pc'[u] = "reference" => target'[u] \in blocks'
  BY DEF LoadInv, LoadKeeps
<1>2. ASSUME NEW u \in Thread, NEW v \in Thread, Leaving(u)'
      PROVE  victim'[u] \notin held'[v]
  BY <1>2 DEF LoadInv, LoadKeeps
<1>3. QED BY <1>1, <1>2 DEF LoadInv

(***************************************************************************)
(* When no block is loaded or removed, references stay valid.              *)
(***************************************************************************)
LEMMA SameLoads ==
    ASSUME LoadInv, blocks' = blocks /\ live \subseteq live', \A u \in Thread : LoadKeeps(u)
    PROVE  LoadInv'
  BY MovedLoads

(***************************************************************************)
(* A step keeps references to blocks in the map.                           *)
(***************************************************************************)
LEMMA LoadStep ==
    ASSUME TypeOK, ControlInv, LockInv, LoadInv,
           \A b \in Block : refCount[b] = 0 => \A u \in Thread : b \notin held[u], [Next]_vars
    PROVE  LoadInv'
<1>0. /\ pc \in [Thread -> Label]
      /\ job \in [Thread -> {"none", "create", "get", "save", "delete"}]
      /\ target \in [Thread -> Block \cup {NoBlock}]
      /\ victim \in [Thread -> Block \cup {NoBlock}]
      /\ held \in [Thread -> SUBSET Block]
  BY DEF TypeOK
<1>1. CASE Restart \/ Crash
  <2>1. \A u \in Thread : pc'[u] = "idle" /\ held'[u] = {}
    BY <1>1, AfterEnd
  <2>2. QED BY <2>1 DEF LoadInv, Loading, Leaving, RoomLabel, SharedLabel
<1>2. ASSUME NEW t \in Thread, Call(t) \/ Step(t) PROVE LoadInv'
  <2>a. \A u \in Thread \ {t} : LoadKeeps(u)
    BY <1>2, Others, SameKeeps
  <2>b. blocks' = blocks /\ live \subseteq live' /\ LoadKeeps(t) => LoadInv'
    BY <2>a, SameLoads
  <2>c. /\ pc[t] \in {"save", "markClean"} => job[t] \in {"create", "get", "save"}
        /\ pc[t] \in {"evict", "deallocate"} => job[t] \in {"create", "get", "delete"}
        /\ pc[t] = "checkLoaded" => job[t] = "delete"
    BY Jobs
  <2>1. CASE Call(t)
    <3>1. ASSUME NEW b \in Block, CallDelete(t, b) PROVE LoadInv'
      <4>1. LoadKeeps(t) /\ blocks' = blocks /\ live' = live \ {b}
        BY <1>0, <3>1 DEF CallDelete, poolVars, LoadKeeps, Loading, Leaving, Evicting,
           RoomLabel, SharedLabel, Goto, callVars
      <4>2. \A u \in Thread : b \notin held[u]
        BY <3>1 DEF CallDelete, Unused
      <4>3. QED BY <2>a, <4>1, <4>2, MovedLoads
    <3> USE DEF LoadKeeps, Loading, Leaving, Evicting, RoomLabel, SharedLabel, Goto,
       mutexVars, policyVars, poolVars, callVars
    <3>2. ASSUME NEW b \in Block, CallGet(t, b) PROVE LoadInv'
      BY <1>0, <2>b, <2>c, <3>2 DEF CallGet
    <3>3. ASSUME NEW b \in Block, CallSave(t, b) PROVE LoadInv'
      BY <1>0, <2>b, <2>c, <3>3 DEF CallSave
    <3>4. ASSUME NEW b \in Block, WriteBlock(t, b) PROVE LoadInv'
      BY <1>0, <2>b, <2>c, <3>4 DEF WriteBlock
    <3>5. ASSUME NEW b \in Block, ReleaseReference(t, b) PROVE LoadInv'
      BY <1>0, <2>b, <2>c, <3>5 DEF ReleaseReference, blockUnreferenced
    <3>6. CASE CallCreate(t)
      BY <1>0, <2>b, <2>c, <3>6 DEF CallCreate
    <3>7. QED BY <2>1, <3>1, <3>2, <3>3, <3>4, <3>5, <3>6 DEF Call
  <2>2. CASE SharedStep(t)
    <3>1. CASE Lookup(t)
      <4>1. CASE target[t] \in blocks
        <5>1. \A u \in Thread : Leaving(u) => victim[u] # target[t]
          BY <3>1 DEF Lookup, LockInv, OwnsTarget, OwnsVictim, TargetShard, VictimShard, Leaving
        <5>2. target[t] \in live
          BY <3>1, Arguments DEF Lookup, GetLabel
        <5>3. /\ held'[t] = held[t] \cup {target[t]} /\ ~Loading(t)' /\ ~Leaving(t)'
              /\ pc'[t] # "reference" /\ blocks' = blocks /\ live' = live
          BY <1>0, <3>1, <4>1 DEF Lookup, Refer, poolVars, Loading, Leaving, Evicting,
             RoomLabel, SharedLabel, Goto, callVars
        <5>4. ASSUME NEW u \in Thread
              PROVE  /\ held'[u] \subseteq blocks' \cap live'
                     /\ Loading(u)' => target'[u] \notin blocks'
                     /\ pc'[u] = "reference" => target'[u] \in blocks'
          BY <2>a, <5>1, <5>2, <5>3, <4>1 DEF LoadInv, LoadKeeps
        <5>5. ASSUME NEW u \in Thread, NEW v \in Thread, Leaving(u)'
              PROVE  victim'[u] \notin held'[v]
          BY SMTT(30), <2>a, <5>1, <5>2, <5>3, <4>1, <5>5 DEF LoadInv, LoadKeeps
        <5>6. QED BY <5>4, <5>5 DEF LoadInv
      <4>2. CASE target[t] \notin blocks
        BY <1>0, <2>b, <3>1, <4>2 DEF Lookup, poolVars, LoadKeeps, Loading, Leaving, Evicting,
           RoomLabel, SharedLabel, Goto, callVars
      <4>3. QED BY <4>1, <4>2
    <3> USE DEF LoadKeeps, Loading, Leaving, Evicting, RoomLabel, SharedLabel, Goto,
       mutexVars, policyVars, poolVars, callVars
    <3>2. CASE CountShared(t) \/ LockShared(t)
      BY <1>0, <2>b, <2>c, <3>2 DEF CountShared, CountShard, LockShared, AddReader
    <3>3. CASE BackOff(t) \/ SpinShared(t)
      BY <1>0, <2>b, <2>c, <3>3 DEF BackOff, RemoveReader, SpinShared
    <3>4. CASE UnlockShared(t) \/ ReleaseShared(t)
      BY SMTT(30), <1>0, <2>b, <2>c, <3>4 DEF UnlockShared, RemoveReader, ReleaseShared, ReleaseShard,
         Return
    <3>5. QED BY <2>2, <3>1, <3>2, <3>3, <3>4 DEF SharedStep
  <2>3. CASE ExclusiveStep(t)
    <3>1. CASE LookAgain(t)
      <4>1. CASE target[t] \in blocks
        <5>1. \A u \in Thread : Leaving(u) => victim[u] # target[t]
          BY <3>1 DEF LookAgain, LoadFile, LockInv, OwnsTarget, OwnsVictim, TargetShard, VictimShard,
             Leaving
        <5>2. target[t] \in live
          BY <3>1, Arguments DEF LookAgain, LoadFile, GetLabel
        <5>3. /\ held'[t] = held[t] \cup {target[t]} /\ ~Loading(t)' /\ ~Leaving(t)'
              /\ pc'[t] # "reference" /\ blocks' = blocks /\ live' = live
          BY <1>0, <3>1, <4>1 DEF LookAgain, LoadFile, Refer, poolVars, Loading, Leaving, Evicting,
             RoomLabel, SharedLabel, Goto, callVars
        <5>4. ASSUME NEW u \in Thread
              PROVE  /\ held'[u] \subseteq blocks' \cap live'
                     /\ Loading(u)' => target'[u] \notin blocks'
                     /\ pc'[u] = "reference" => target'[u] \in blocks'
          BY <2>a, <5>1, <5>2, <5>3, <4>1 DEF LoadInv, LoadKeeps
        <5>5. ASSUME NEW u \in Thread, NEW v \in Thread, Leaving(u)'
              PROVE  victim'[u] \notin held'[v]
          BY <2>a, <5>1, <5>2, <5>3, <4>1, <5>5 DEF LoadInv, LoadKeeps
        <5>6. QED BY <5>4, <5>5 DEF LoadInv
      <4>2. CASE target[t] \notin blocks
        <5>1. /\ held'[t] = held[t] /\ target'[t] = target[t] /\ ~Leaving(t)'
              /\ pc'[t] # "reference" /\ blocks' = blocks /\ live' = live
          BY <1>0, <3>1, <4>2 DEF LookAgain, LoadFile, poolVars, Loading, Leaving, Evicting, RoomLabel,
             SharedLabel, Goto, callVars
        <5>2. ASSUME NEW u \in Thread
              PROVE  /\ held'[u] \subseteq blocks' \cap live'
                     /\ Loading(u)' => target'[u] \notin blocks'
                     /\ pc'[u] = "reference" => target'[u] \in blocks'
          BY <2>a, <4>2, <5>1 DEF LoadInv, LoadKeeps
        <5>3. ASSUME NEW u \in Thread, NEW v \in Thread, Leaving(u)'
              PROVE  victim'[u] \notin held'[v]
          BY <2>a, <4>2, <5>1, <5>3 DEF LoadInv, LoadKeeps
        <5>4. QED BY <5>2, <5>3 DEF LoadInv
      <4>3. QED BY <4>1, <4>2
    <3>2. CASE InsertLoaded(t)
      <4>1. Loading(t) /\ OwnsTarget(t)
        BY <3>2 DEF InsertLoaded, OwnsTarget, Loading, RoomLabel
      <4>2. \A u \in Thread \ {t} : Loading(u) => target[u] # target[t]
        BY <4>1 DEF LockInv, OwnsTarget, TargetShard
      <4>3. /\ held'[t] = held[t] /\ ~Loading(t)' /\ ~Leaving(t)' /\ target'[t] = target[t]
            /\ blocks' = blocks \cup {target[t]} /\ live' = live
        BY <1>0, <3>2 DEF InsertLoaded, Loading, Leaving, Evicting, RoomLabel, SharedLabel,
           Goto, callVars
      <4>4. ASSUME NEW u \in Thread
            PROVE  /\ held'[u] \subseteq blocks' \cap live'
                   /\ Loading(u)' => target'[u] \notin blocks'
                   /\ pc'[u] = "reference" => target'[u] \in blocks'
        BY <2>a, <4>2, <4>3 DEF LoadInv, LoadKeeps
      <4>5. ASSUME NEW u \in Thread, NEW v \in Thread, Leaving(u)'
            PROVE  victim'[u] \notin held'[v]
        BY <2>a, <4>2, <4>3, <4>5 DEF LoadInv, LoadKeeps
      <4>6. QED BY <4>4, <4>5 DEF LoadInv
    <3>3. CASE Reference(t)
      <4>1. \A u \in Thread : Leaving(u) => victim[u] # target[t]
        BY <3>3 DEF Reference, LockInv, OwnsTarget, OwnsVictim, TargetShard, VictimShard,
           Leaving
      <4>2. target[t] \in live
        BY <3>3, Arguments DEF Reference, GetLabel
      <4>3. /\ held'[t] = held[t] \cup {target[t]} /\ ~Loading(t)' /\ ~Leaving(t)'
            /\ pc'[t] # "reference" /\ blocks' = blocks /\ live' = live
        BY <1>0, <3>3 DEF Reference, Refer, poolVars, Loading, Leaving, Evicting, RoomLabel,
           SharedLabel, Goto, callVars
      <4>4. ASSUME NEW u \in Thread
            PROVE  /\ held'[u] \subseteq blocks' \cap live'
                   /\ Loading(u)' => target'[u] \notin blocks'
                   /\ pc'[u] = "reference" => target'[u] \in blocks'
        BY SMTT(30), <2>a, <4>1, <4>2, <4>3, <3>3 DEF Reference, LoadInv, LoadKeeps
      <4>5. ASSUME NEW u \in Thread, NEW v \in Thread, Leaving(u)'
            PROVE  victim'[u] \notin held'[v]
        BY SMTT(30), <2>a, <4>1, <4>2, <4>3, <3>3, <4>5 DEF Reference, LoadInv, LoadKeeps
      <4>6. QED BY <4>4, <4>5 DEF LoadInv
    <3> USE DEF LoadKeeps, Loading, Leaving, Evicting, RoomLabel, SharedLabel, Goto,
       mutexVars, policyVars, poolVars, callVars
    <3>4. CASE CountExclusive(t) \/ Lock(t)
      BY <1>0, <2>b, <2>c, <3>4 DEF CountExclusive, CountShard, Lock, SetWriteBit
    <3>5. CASE Drain(t) \/ Unlock(t)
      BY <1>0, <2>b, <2>c, <3>5 DEF Drain, Drained, Unlock, unlock
    <3>6. CASE Release(t)
      BY <1>0, <2>b, <2>c, <3>6 DEF Release, ReleaseShard, Return
    <3>7. QED BY <2>3, <3>1, <3>2, <3>3, <3>4, <3>5, <3>6 DEF ExclusiveStep
  <2>4. CASE RoomStep(t)
    <3>1. CASE Examine(t)
      <4>1. victim[t] \in Block
        BY <3>1, Arguments DEF Examine, HasVictim, OwnsVictim
      <4>2. Leaving(t)' => \A u \in Thread : victim[t] \notin held[u]
        BY <1>0, <3>1, <4>1 DEF Examine, Loading, Leaving, Evicting, RoomLabel, SharedLabel,
           Goto, callVars
      <4>3. /\ held'[t] = held[t] /\ victim'[t] = victim[t] /\ target'[t] = target[t]
            /\ Loading(t)' => Loading(t)
            /\ pc'[t] # "reference" /\ blocks' = blocks /\ live' = live
        BY <1>0, <3>1 DEF Examine, poolVars, Loading, Leaving, Evicting, RoomLabel,
           SharedLabel, Goto, callVars
      <4>4. ASSUME NEW u \in Thread
            PROVE  /\ held'[u] \subseteq blocks' \cap live'
                   /\ Loading(u)' => target'[u] \notin blocks'
                   /\ pc'[u] = "reference" => target'[u] \in blocks'
        BY <2>a, <4>2, <4>3 DEF LoadInv, LoadKeeps
      <4>5. ASSUME NEW u \in Thread, NEW v \in Thread, Leaving(u)'
            PROVE  victim'[u] \notin held'[v]
        BY <2>a, <4>2, <4>3, <4>5 DEF LoadInv, LoadKeeps
      <4>6. QED BY <4>4, <4>5 DEF LoadInv
    <3> USE DEF LoadKeeps, Loading, Leaving, Evicting, RoomLabel, SharedLabel, Goto,
       mutexVars, policyVars, poolVars, callVars
    <3>2. CASE MakeRoom(t) \/ CountVictim(t)
      BY <1>0, <2>b, <2>c, <3>2 DEF MakeRoom, chooseBlockToEvict, Evictable, CountVictim,
         CountShard
    <3>3. CASE LockVictim(t) \/ DrainVictim(t)
      BY <1>0, <2>b, <2>c, <3>3 DEF LockVictim, SetWriteBit, DrainVictim, Drained
    <3>4. CASE ReleaseVictim(t) \/ UnlockVictim(t)
      BY <1>0, <2>b, <2>c, <3>4 DEF ReleaseVictim, ReleaseShard, UnlockVictim, unlock
    <3>5. CASE Allocate(t)
      BY <1>0, <2>b, <2>c, <3>5 DEF Allocate
    <3>6. QED BY <2>4, <3>1, <3>2, <3>3, <3>4, <3>5 DEF RoomStep
  <2>5. CASE EvictStep(t)
    <3>1. CASE Evict(t)
      <4>1. CASE job[t] = "delete"
        <5>1. target[t] \notin live /\ Evicted(t) = target[t]
          BY <4>1, Arguments DEF Evicted
        <5>2. \A u \in Thread : pc[u] = "reference" => target[u] \in live
          BY Arguments DEF GetLabel
        <5>3. /\ LoadKeeps(t) /\ live' = live
              /\ blocks' \subseteq blocks /\ blocks \ blocks' \subseteq {target[t]}
          BY <1>0, <3>1, <5>1 DEF Evict, LoadKeeps, Loading, Leaving, Evicting, RoomLabel,
             SharedLabel, Goto, callVars
        <5>4. QED BY <2>a, <5>1, <5>2, <5>3, MovedLoads
      <4>2. CASE job[t] # "delete"
        <5>1. Leaving(t) /\ OwnsVictim(t) /\ Evicted(t) = victim[t]
          BY <2>c, <3>1, <4>2 DEF Evict, Evicted, Leaving, OwnsVictim, Evicting, SharedLabel
        <5>2. \A u \in Thread : pc[u] = "reference" => target[u] # victim[t]
          BY <5>1 DEF LockInv, OwnsTarget, TargetShard, VictimShard
        <5>3. /\ LoadKeeps(t) /\ live' = live
              /\ blocks' \subseteq blocks /\ blocks \ blocks' \subseteq {victim[t]}
          BY <1>0, <3>1, <5>1 DEF Evict, LoadKeeps, Loading, Leaving, Evicting, RoomLabel,
             SharedLabel, Goto, callVars
        <5>4. \A u \in Thread : victim[t] \notin held[u]
          BY <5>1 DEF LoadInv
        <5>5. QED BY <2>a, <5>2, <5>3, <5>4, MovedLoads
      <4>3. QED BY <4>1, <4>2
    <3> USE DEF LoadKeeps, Loading, Leaving, Evicting, RoomLabel, SharedLabel, Goto,
       mutexVars, policyVars, poolVars, callVars
    <3>2. CASE SaveBlock(t) \/ MarkClean(t)
      BY <1>0, <2>b, <2>c, <3>2 DEF SaveBlock, AfterSave, Return, MarkClean
    <3>3. CASE Deallocate(t)
      BY <1>0, <2>b, <2>c, <3>3 DEF Deallocate
    <3>4. QED BY <2>5, <3>1, <3>2, <3>3 DEF EvictStep
  <2>6. CASE OtherStep(t)
    <3>1. CASE InsertCreated(t)
      <4>1. target[t] \notin live
        BY <3>1, Arguments DEF InsertCreated, Making
      <4>2. \A u \in Thread : Loading(u) => target[u] \in live
        BY DEF Loading, ControlInv, ControlAt
      <4>3. LoadKeeps(t) /\ blocks' = blocks \cup {target[t]} /\ live' = live
        BY <1>0, <3>1 DEF InsertCreated, LoadKeeps, Loading, Leaving, Evicting, RoomLabel,
           SharedLabel, Goto, callVars
      <4>4. QED BY <2>a, <4>1, <4>2, <4>3, MovedLoads
    <3> USE DEF LoadKeeps, Loading, Leaving, Evicting, RoomLabel, SharedLabel, Goto,
       mutexVars, policyVars, poolVars, callVars
    <3>2. CASE Created(t) \/ CheckLoaded(t)
      BY <1>0, <2>b, <2>c, <3>2 DEF Created, blockCreated, Return, CheckLoaded
    <3>3. CASE PolicyEvicted(t) \/ Unlink(t)
      BY <1>0, <2>b, <2>c, <3>3 DEF PolicyEvicted, blockEvicted, Unlink
    <3>4. CASE PolicyDeleted(t)
      BY <1>0, <2>b, <2>c, <3>4 DEF PolicyDeleted, blockDeleted, Return
    <3>5. QED BY <2>6, <3>1, <3>2, <3>3, <3>4 DEF OtherStep
  <2>7. QED BY <1>2, <2>1, <2>2, <2>3, <2>4, <2>5, <2>6 DEF Step
<1>3. CASE UNCHANGED vars
  <2>1. blocks' = blocks /\ live \subseteq live' /\ \A u \in Thread : Same(u)
    BY <1>3 DEF vars, Same, mutexVars, policyVars, poolVars, callVars
  <2>2. QED BY <2>1, SameKeeps, SameLoads
<1>4. QED BY <1>1, <1>2, <1>3 DEF Next

=============================================================================
