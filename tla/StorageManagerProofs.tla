------------------------ MODULE StorageManagerProofs ------------------------
(***************************************************************************)
(* Theorems about StorageManager, for any threads, blocks, shards, hash    *)
(* function, memory limit and files that cannot be written. A step keeps   *)
(* what was written in memory or saved, and counts readers, references and *)
(* memory exactly.                                                         *)
(***************************************************************************)
EXTENDS StorageLockProofs, FiniteSetTheorems, TLAPS

USE ZenonT(60)

(***************************************************************************)
(* When no block moves, the memory in use is what it was.                  *)
(***************************************************************************)
LEMMA SameMoving ==
    ASSUME usage' = usage /\ blocks' = blocks, \A u \in Thread : MoveKeeps(u)
    PROVE  UsageMoves
  BY DEF UsageMoves, Moving, MoveKeeps

(***************************************************************************)
(* A step moves at most one block into the map or out of it.               *)
(***************************************************************************)
LEMMA MoveStep ==
    ASSUME TypeOK, ControlInv, IdInv, LoadInv, [Next]_vars
    PROVE  UsageMoves
<1>0. pc \in [Thread -> Label] /\ target \in [Thread -> Block \cup {NoBlock}]
  BY DEF TypeOK
<1>1. CASE Restart \/ Crash
  <2>1. blocks' = {} /\ Moving' = {} /\ usage' = 0
    BY <1>1, AfterEnd DEF Moving
  <2>2. QED BY <2>1 DEF UsageMoves
<1>2. ASSUME NEW t \in Thread, Call(t) \/ Step(t) PROVE UsageMoves
  <2>a. \A u \in Thread \ {t} : MoveKeeps(u)
    BY <1>2, Others, SameKeeps
  <2>b. usage' = usage /\ blocks' = blocks /\ MoveKeeps(t) => UsageMoves
    BY <2>a, SameMoving
  <2>1. CASE Call(t)
    <3> USE DEF MoveKeeps, Goto, mutexVars, policyVars, poolVars, callVars
    <3>1. ASSUME NEW b \in Block, CallGet(t, b) PROVE UsageMoves
      BY <1>0, <2>b, <3>1 DEF CallGet
    <3>2. ASSUME NEW b \in Block, CallSave(t, b) PROVE UsageMoves
      BY <1>0, <2>b, <3>2 DEF CallSave
    <3>3. ASSUME NEW b \in Block, CallDelete(t, b) PROVE UsageMoves
      BY <1>0, <2>b, <3>3 DEF CallDelete
    <3>4. ASSUME NEW b \in Block, WriteBlock(t, b) PROVE UsageMoves
      BY <1>0, <2>b, <3>4 DEF WriteBlock
    <3>5. ASSUME NEW b \in Block, ReleaseReference(t, b) PROVE UsageMoves
      BY <1>0, <2>b, <3>5 DEF ReleaseReference, blockUnreferenced
    <3>6. CASE CallCreate(t)
      BY <1>0, <2>b, <3>6 DEF CallCreate
    <3>7. QED BY <2>1, <3>1, <3>2, <3>3, <3>4, <3>5, <3>6 DEF Call
  <2>2. CASE SharedStep(t)
    <3> USE DEF MoveKeeps, Goto, mutexVars, policyVars, poolVars, callVars
    <3>1. CASE CountShared(t) \/ LockShared(t) \/ BackOff(t) \/ SpinShared(t)
      BY <1>0, <2>b, <3>1 DEF CountShared, CountShard, LockShared, AddReader, BackOff,
         RemoveReader, SpinShared
    <3>2. CASE Lookup(t) \/ UnlockShared(t) \/ ReleaseShared(t)
      BY <1>0, <2>b, <3>2 DEF Lookup, Refer, blockReferenced, UnlockShared, RemoveReader,
         ReleaseShared, ReleaseShard, Return
    <3>3. QED BY <2>2, <3>1, <3>2 DEF SharedStep
  <2>3. CASE ExclusiveStep(t)
    <3>1. CASE InsertLoaded(t)
      <4>1. Moving' = Moving \ {t} /\ t \in Moving
        BY <1>0, <3>1 DEF InsertLoaded, Goto, Moving
      <4>2. target[t] \in Block
        BY <3>1, Arguments DEF InsertLoaded, Making
      <4>3. target[t] \notin blocks
        BY <3>1 DEF InsertLoaded, LoadInv, Loading, RoomLabel
      <4>4. blocks' = blocks \cup {target[t]} /\ usage' = usage
        BY <3>1 DEF InsertLoaded
      <4>5. QED BY <4>1, <4>2, <4>3, <4>4 DEF UsageMoves
    <3> USE DEF MoveKeeps, Goto, mutexVars, policyVars, poolVars, callVars
    <3>2. CASE CountExclusive(t) \/ Lock(t) \/ Drain(t) \/ LookAgain(t)
      BY <1>0, <2>b, <3>2 DEF CountExclusive, CountShard, Lock, SetWriteBit, Drain, Drained,
         LookAgain, LoadFile, Refer, blockReferenced
    <3>3. CASE Reference(t) \/ Unlock(t) \/ Release(t)
      BY <1>0, <2>b, <3>3 DEF Reference, Refer, blockReferenced, Unlock, unlock, Release,
         ReleaseShard, Return
    <3>4. QED BY <2>3, <3>1, <3>2, <3>3 DEF ExclusiveStep
  <2>4. CASE RoomStep(t)
    <3>1. CASE Allocate(t)
      <4>1. Moving' = Moving \cup {t} /\ t \notin Moving
        BY <1>0, <3>1 DEF Allocate, Goto, Moving
      <4>2. blocks' = blocks /\ usage' = usage + 1
        BY <3>1 DEF Allocate
      <4>3. QED BY <4>1, <4>2 DEF UsageMoves
    <3> USE DEF MoveKeeps, Goto, mutexVars, policyVars, poolVars, callVars
    <3>2. CASE MakeRoom(t) \/ CountVictim(t) \/ LockVictim(t) \/ DrainVictim(t)
      BY <1>0, <2>b, <3>2 DEF MakeRoom, chooseBlockToEvict, Evictable, CountVictim,
         CountShard, LockVictim, SetWriteBit, DrainVictim, Drained
    <3>3. CASE Examine(t) \/ ReleaseVictim(t) \/ UnlockVictim(t)
      BY <1>0, <2>b, <3>3 DEF Examine, ReleaseVictim, ReleaseShard, UnlockVictim, unlock
    <3>4. QED BY <2>4, <3>1, <3>2, <3>3 DEF RoomStep
  <2>5. CASE EvictStep(t)
    <3>1. CASE Evict(t)
      <4>1. CASE Evicted(t) \in blocks
        <5>1. Moving' = Moving \cup {t} /\ t \notin Moving
          BY <1>0, <3>1, <4>1 DEF Evict, Goto, Moving
        <5>2. blocks' = blocks \ {Evicted(t)} /\ usage' = usage
          BY <3>1, <4>1 DEF Evict
        <5>3. QED BY <4>1, <5>1, <5>2 DEF UsageMoves
      <4>2. CASE Evicted(t) \notin blocks
        BY <1>0, <2>b, <3>1, <4>2 DEF Evict, Goto, MoveKeeps
      <4>3. QED BY <4>1, <4>2
    <3>2. CASE Deallocate(t)
      <4>1. Moving' = Moving \ {t} /\ t \in Moving
        BY <1>0, <3>2 DEF Deallocate, Goto, Moving
      <4>2. blocks' = blocks /\ usage' = usage - 1
        BY <3>2 DEF Deallocate
      <4>3. QED BY <4>1, <4>2 DEF UsageMoves
    <3> USE DEF MoveKeeps, Goto, mutexVars, policyVars, poolVars, callVars
    <3>3. CASE SaveBlock(t) \/ MarkClean(t)
      BY <1>0, <2>b, <3>3 DEF SaveBlock, AfterSave, Return, MarkClean
    <3>4. QED BY <2>5, <3>1, <3>2, <3>3 DEF EvictStep
  <2>6. CASE OtherStep(t)
    <3>1. CASE InsertCreated(t)
      <4>1. Moving' = Moving \ {t} /\ t \in Moving
        BY <1>0, <3>1 DEF InsertCreated, Goto, Moving
      <4>2. target[t] \in Block
        BY <3>1, Arguments DEF InsertCreated, Making
      <4>3. target[t] \notin blocks
        BY <3>1 DEF InsertCreated, IdInv, Making
      <4>4. blocks' = blocks \cup {target[t]} /\ usage' = usage
        BY <3>1 DEF InsertCreated
      <4>5. QED BY <4>1, <4>2, <4>3, <4>4 DEF UsageMoves
    <3> USE DEF MoveKeeps, Goto, mutexVars, policyVars, poolVars, callVars
    <3>2. CASE Created(t) \/ CheckLoaded(t) \/ PolicyEvicted(t) \/ Unlink(t)
      BY <1>0, <2>b, <3>2 DEF Created, blockCreated, Return, CheckLoaded, PolicyEvicted,
         blockEvicted, Unlink
    <3>3. CASE PolicyDeleted(t)
      BY <1>0, <2>b, <3>3 DEF PolicyDeleted, blockDeleted, Return
    <3>4. QED BY <2>6, <3>1, <3>2, <3>3 DEF OtherStep
  <2>7. QED BY <1>2, <2>1, <2>2, <2>3, <2>4, <2>5, <2>6 DEF Step
<1>3. CASE UNCHANGED vars
  <2>1. usage' = usage /\ blocks' = blocks /\ \A u \in Thread : Same(u)
    BY <1>3 DEF vars, Same, mutexVars, policyVars, poolVars, callVars
  <2>2. QED BY <2>1, SameKeeps, SameMoving
<1>4. QED BY <1>1, <1>2, <1>3 DEF Next

(***************************************************************************)
(* When nothing is written, created or deleted, what was written stays where *)
(* it is.                                                                  *)
(***************************************************************************)
LEMMA SameSaved ==
    ASSUME SaveInv, UNCHANGED <<blocks, dirty, file>> /\ live' \subseteq live,
           \A u \in Thread : SaveKeeps(u)
    PROVE  SaveInv'
<1>1. /\ dirty' \subseteq blocks'
      /\ \A c \in live' : (c \in blocks' /\ c \in dirty') \/ c \in Saved(file')
  BY DEF SaveInv
<1>2. ASSUME NEW u \in Thread
      PROVE  /\ pc'[u] = "created" => target'[u] \in blocks' /\ target'[u] \in dirty'
             /\ pc'[u] = "markClean" /\ victim'[u] \in live' => victim'[u] \in Saved(file')
             /\ Evicting(u)' /\ pc'[u] = "evict" => victim'[u] \notin dirty'
  BY DEF SaveInv, SaveKeeps
<1>3. QED BY <1>1, <1>2 DEF SaveInv

(***************************************************************************)
(* A step keeps what was written in memory, marked dirty, or in the file.  *)
(***************************************************************************)
LEMMA SaveStep ==
    ASSUME ForceSaveDirtyBlocks, TypeOK, ControlInv, IdInv, LoadInv, SaveInv, [Next]_vars
    PROVE  SaveInv'
<1>0. /\ pc \in [Thread -> Label]
      /\ job \in [Thread -> {"none", "create", "get", "save", "delete"}]
      /\ target \in [Thread -> Block \cup {NoBlock}]
      /\ victim \in [Thread -> Block \cup {NoBlock}]
      /\ held \in [Thread -> SUBSET Block]
      /\ file \in [Block -> FileState]
      /\ live \in SUBSET Block /\ blocks \in SUBSET Block
  BY DEF TypeOK
<1>1. CASE Restart \/ Crash
  <2>1. \A u \in Thread : pc'[u] = "idle"
    BY <1>1, AfterEnd
  <2>2. blocks' = {} /\ dirty' = {} /\ live' \subseteq Saved(file')
    BY <1>1, AfterEnd
  <2>3. QED BY <2>1, <2>2 DEF SaveInv
<1>2. ASSUME NEW t \in Thread, Call(t) \/ Step(t) PROVE SaveInv'
  <2>a. \A u \in Thread \ {t} : SaveKeeps(u)
    BY <1>2, Others, SameKeeps
  <2>b. UNCHANGED <<blocks, dirty, file>> /\ live' \subseteq live /\ SaveKeeps(t) => SaveInv'
    BY <2>a, SameSaved
  <2>c. /\ pc[t] \in {"save", "markClean"} => job[t] \in {"create", "get", "save"}
        /\ pc[t] \in {"evict", "deallocate"} => job[t] \in {"create", "get", "delete"}
        /\ pc[t] = "checkLoaded" => job[t] = "delete"
    BY Jobs
  <2>1. CASE Call(t)
    <3>1. ASSUME NEW b \in Block, WriteBlock(t, b) PROVE SaveInv'
      <4>1. b \in blocks /\ b \in Block
        BY <3>1 DEF WriteBlock, LoadInv
      <4>2. ASSUME NEW u \in Thread, pc[u] = "markClean" \/ (Evicting(u) /\ pc[u] = "evict")
            PROVE  victim[u] # b
        <5>1. job[u] = "save" \/ Leaving(u)
          BY <4>2, Jobs DEF Leaving, Evicting, SharedLabel
        <5>2. QED BY <3>1, <5>1 DEF WriteBlock, LoadInv
      <4>3. /\ SaveKeeps(t) /\ UNCHANGED <<blocks, live>> /\ dirty' = dirty \cup {b}
            /\ \A c \in Block \ {b} : c \in Saved(file) => c \in Saved(file')
        BY <1>0, <3>1 DEF WriteBlock, Saved, SaveKeeps, Evicting, SharedLabel, Goto, callVars,
           poolVars
      <4>4. /\ dirty' \subseteq blocks'
            /\ \A c \in live' : (c \in blocks' /\ c \in dirty') \/ c \in Saved(file')
        BY <1>0, <2>a, <4>1, <4>2, <4>3 DEF SaveInv
      <4>5. ASSUME NEW u \in Thread
            PROVE  /\ pc'[u] = "created" => target'[u] \in blocks' /\ target'[u] \in dirty'
                   /\ pc'[u] = "markClean"
                            /\ victim'[u] \in live' => victim'[u] \in Saved(file')
                   /\ Evicting(u)' /\ pc'[u] = "evict" => victim'[u] \notin dirty'
        BY SMTT(30), <1>0, <2>a, <4>1, <4>2, <4>3 DEF SaveInv, SaveKeeps
      <4>6. QED BY <4>4, <4>5 DEF SaveInv
    <3> USE DEF SaveKeeps, Evicting, SharedLabel, Goto, mutexVars, policyVars, poolVars,
       callVars
    <3>2. ASSUME NEW b \in Block, CallGet(t, b) PROVE SaveInv'
      BY <1>0, <2>b, <2>c, <3>2 DEF CallGet
    <3>3. ASSUME NEW b \in Block, CallSave(t, b) PROVE SaveInv'
      BY <1>0, <2>b, <2>c, <3>3 DEF CallSave
    <3>4. ASSUME NEW b \in Block, CallDelete(t, b) PROVE SaveInv'
      BY <1>0, <2>b, <2>c, <3>4 DEF CallDelete
    <3>5. ASSUME NEW b \in Block, ReleaseReference(t, b) PROVE SaveInv'
      BY <1>0, <2>b, <2>c, <3>5 DEF ReleaseReference, blockUnreferenced
    <3>6. CASE CallCreate(t)
      BY <1>0, <2>b, <2>c, <3>6 DEF CallCreate
    <3>7. QED BY <2>1, <3>1, <3>2, <3>3, <3>4, <3>5, <3>6 DEF Call
  <2>2. CASE SharedStep(t)
    <3> USE DEF SaveKeeps, Evicting, SharedLabel, Goto, mutexVars, policyVars, poolVars,
       callVars
    <3>1. CASE CountShared(t) \/ LockShared(t)
      BY <1>0, <2>b, <2>c, <3>1 DEF CountShared, CountShard, LockShared, AddReader
    <3>2. CASE BackOff(t) \/ SpinShared(t)
      BY <1>0, <2>b, <2>c, <3>2 DEF BackOff, RemoveReader, SpinShared
    <3>3. CASE Lookup(t) \/ UnlockShared(t)
      BY <1>0, <2>b, <2>c, <3>3 DEF Lookup, Refer, blockReferenced, UnlockShared, RemoveReader
    <3>4. CASE ReleaseShared(t)
      BY <1>0, <2>b, <2>c, <3>4 DEF ReleaseShared, ReleaseShard, Return
    <3>5. QED BY <2>2, <3>1, <3>2, <3>3, <3>4 DEF SharedStep
  <2>3. CASE ExclusiveStep(t)
    <3>1. CASE InsertLoaded(t)
      <4>1. target[t] \notin blocks
        BY <3>1 DEF InsertLoaded, LoadInv, Loading, RoomLabel
      <4>2. /\ SaveKeeps(t) /\ UNCHANGED <<dirty, file, live>>
            /\ blocks' = blocks \cup {target[t]}
        BY <1>0, <3>1, <4>1 DEF InsertLoaded, SaveInv, SaveKeeps, Evicting, SharedLabel, Goto,
           callVars, poolVars
      <4>3. /\ dirty' \subseteq blocks'
            /\ \A c \in live' : (c \in blocks' /\ c \in dirty') \/ c \in Saved(file')
        BY <2>a, <4>2 DEF SaveInv
      <4>4. ASSUME NEW u \in Thread
            PROVE  /\ pc'[u] = "created" => target'[u] \in blocks' /\ target'[u] \in dirty'
                   /\ pc'[u] = "markClean"
                            /\ victim'[u] \in live' => victim'[u] \in Saved(file')
                   /\ Evicting(u)' /\ pc'[u] = "evict" => victim'[u] \notin dirty'
        BY <2>a, <4>2 DEF SaveInv, SaveKeeps
      <4>5. QED BY <4>3, <4>4 DEF SaveInv
    <3> USE DEF SaveKeeps, Evicting, SharedLabel, Goto, mutexVars, policyVars, poolVars,
       callVars
    <3>2. CASE CountExclusive(t) \/ Lock(t)
      BY <1>0, <2>b, <2>c, <3>2 DEF CountExclusive, CountShard, Lock, SetWriteBit
    <3>3. CASE Drain(t) \/ LookAgain(t)
      BY <1>0, <2>b, <2>c, <3>3 DEF Drain, Drained, LookAgain, LoadFile, Refer, blockReferenced
    <3>4. CASE Reference(t) \/ Unlock(t)
      BY <1>0, <2>b, <2>c, <3>4 DEF Reference, Refer, blockReferenced, Unlock, unlock
    <3>5. CASE Release(t)
      BY <1>0, <2>b, <2>c, <3>5 DEF Release, ReleaseShard, Return
    <3>6. QED BY <2>3, <3>1, <3>2, <3>3, <3>4, <3>5 DEF ExclusiveStep
  <2>4. CASE RoomStep(t)
    <3> USE DEF SaveKeeps, Evicting, SharedLabel, Goto, mutexVars, policyVars, poolVars,
       callVars
    <3>1. CASE MakeRoom(t) \/ CountVictim(t)
      BY <1>0, <2>b, <2>c, <3>1 DEF MakeRoom, chooseBlockToEvict, Evictable, CountVictim,
         CountShard
    <3>2. CASE LockVictim(t) \/ DrainVictim(t)
      BY <1>0, <2>b, <2>c, <3>2 DEF LockVictim, SetWriteBit, DrainVictim, Drained
    <3>3. CASE Examine(t) \/ ReleaseVictim(t)
      BY <1>0, <2>b, <2>c, <3>3 DEF Examine, ReleaseVictim, ReleaseShard
    <3>4. CASE UnlockVictim(t) \/ Allocate(t)
      BY <1>0, <2>b, <2>c, <3>4 DEF UnlockVictim, unlock, Allocate
    <3>5. QED BY <2>4, <3>1, <3>2, <3>3, <3>4 DEF RoomStep
  <2>5. CASE EvictStep(t)
    <3>1. CASE SaveBlock(t)
      <4>1. CASE pc'[t] = "markClean"
        <5>1. /\ UNCHANGED <<blocks, dirty, live>>
              /\ file' = [file EXCEPT ![victim[t]] = "current"]
              /\ victim[t] \in Block /\ victim'[t] = victim[t]
          BY <1>0, <3>1, <4>1 DEF SaveBlock, NeedsWrite, AfterSave, Return, Goto, callVars
        <5>2. victim[t] \in Saved(file') /\ Saved(file) \subseteq Saved(file')
          BY <1>0, <5>1 DEF Saved
        <5>3. /\ dirty' \subseteq blocks'
              /\ \A c \in live' : (c \in blocks' /\ c \in dirty') \/ c \in Saved(file')
          BY <5>1, <5>2 DEF SaveInv
        <5>4. ASSUME NEW u \in Thread
              PROVE  /\ pc'[u] = "created" => target'[u] \in blocks' /\ target'[u] \in dirty'
                     /\ pc'[u] = "markClean"
                              /\ victim'[u] \in live' => victim'[u] \in Saved(file')
                     /\ Evicting(u)' /\ pc'[u] = "evict" => victim'[u] \notin dirty'
          <6>1. CASE u = t
            BY <4>1, <5>1, <5>2, <6>1
          <6>2. CASE u # t
            BY <2>a, <5>1, <5>2, <6>2 DEF SaveInv, SaveKeeps
          <6>3. QED BY <6>1, <6>2
        <5>5. QED BY <5>3, <5>4 DEF SaveInv
      <4>2. CASE pc'[t] # "markClean"
        <5>1. /\ UNCHANGED <<blocks, dirty, live>> /\ pc'[t] # "created"
              /\ pc'[t] = "evict" => victim'[t] = victim[t] /\ victim[t] \notin dirty
          BY ForceSaveDirtyBlocks, <1>0, <3>1, <4>2 DEF SaveBlock, NeedsWrite, AfterSave,
             Return, SaveInv, Goto, callVars
        <5>2. Saved(file) \subseteq Saved(file')
          BY <1>0, <3>1, <4>2 DEF SaveBlock, FailedWrite, Saved, Goto
        <5>3. /\ dirty' \subseteq blocks'
              /\ \A c \in live' : (c \in blocks' /\ c \in dirty') \/ c \in Saved(file')
          BY <5>1, <5>2 DEF SaveInv
        <5>4. ASSUME NEW u \in Thread
              PROVE  /\ pc'[u] = "created" => target'[u] \in blocks' /\ target'[u] \in dirty'
                     /\ pc'[u] = "markClean"
                              /\ victim'[u] \in live' => victim'[u] \in Saved(file')
                     /\ Evicting(u)' /\ pc'[u] = "evict" => victim'[u] \notin dirty'
          BY <2>a, <4>2, <5>1, <5>2 DEF SaveInv, SaveKeeps
        <5>5. QED BY <5>3, <5>4 DEF SaveInv
      <4>3. QED BY <4>1, <4>2
    <3>2. CASE MarkClean(t)
      <4>1. \A u \in Thread : pc[u] = "created" => target[u] # victim[t]
        <5>1. CASE job[t] = "save"
          BY <5>1, Arguments DEF Making
        <5>2. CASE job[t] # "save"
          BY <2>c, <3>2, <5>2 DEF MarkClean, IdInv, Making, HasVictim, OwnsVictim, Evicting,
             SharedLabel
        <5>3. QED BY <5>1, <5>2
      <4>2. /\ dirty' = dirty \ {victim[t]} /\ UNCHANGED <<blocks, file, live>>
            /\ pc'[t] \notin {"created", "markClean"}
            /\ Evicting(t)' => victim'[t] = victim[t]
        BY <1>0, <3>2 DEF MarkClean, AfterSave, Return, SaveKeeps, Evicting, SharedLabel,
           Goto, callVars, poolVars
      <4>3. victim[t] \in live => victim[t] \in Saved(file)
        BY <3>2 DEF MarkClean, SaveInv
      <4>4. /\ dirty' \subseteq blocks'
            /\ \A c \in live' : (c \in blocks' /\ c \in dirty') \/ c \in Saved(file')
        BY <2>a, <4>1, <4>2, <4>3 DEF SaveInv
      <4>5. ASSUME NEW u \in Thread
            PROVE  /\ pc'[u] = "created" => target'[u] \in blocks' /\ target'[u] \in dirty'
                   /\ pc'[u] = "markClean"
                            /\ victim'[u] \in live' => victim'[u] \in Saved(file')
                   /\ Evicting(u)' /\ pc'[u] = "evict" => victim'[u] \notin dirty'
        BY <2>a, <4>1, <4>2, <4>3 DEF SaveInv, SaveKeeps
      <4>6. QED BY <4>4, <4>5 DEF SaveInv
    <3>3. CASE Evict(t)
      <4>1. \A u \in Thread : pc[u] = "created" => target[u] # Evicted(t)
        <5>1. CASE job[t] = "delete"
          BY <3>3, <5>1 DEF Evict, Evicted, IdInv, Making
        <5>2. CASE job[t] # "delete"
          BY <2>c, <3>3, <5>2 DEF Evict, Evicted, IdInv, Making, HasVictim, OwnsVictim,
             Evicting, SharedLabel
        <5>3. QED BY <5>1, <5>2
      <4>2. Evicted(t) \in live => Evicted(t) \notin dirty
        <5>1. CASE job[t] = "delete"
          BY <5>1, Arguments DEF Evicted
        <5>2. CASE job[t] # "delete"
          BY <2>c, <3>3, <5>2 DEF Evict, Evicted, SaveInv, Evicting, SharedLabel
        <5>3. QED BY <5>1, <5>2
      <4>3. /\ SaveKeeps(t) /\ UNCHANGED <<file, live>>
            /\ \/ blocks' = blocks \ {Evicted(t)} /\ dirty' = dirty \ {Evicted(t)}
               \/ UNCHANGED <<blocks, dirty>>
        BY <1>0, <3>3 DEF Evict, SaveKeeps, Evicting, SharedLabel, Goto, callVars, poolVars
      <4>4. /\ dirty' \subseteq blocks'
            /\ \A c \in live' : (c \in blocks' /\ c \in dirty') \/ c \in Saved(file')
        BY <2>a, <4>1, <4>2, <4>3 DEF SaveInv
      <4>5. ASSUME NEW u \in Thread
            PROVE  /\ pc'[u] = "created" => target'[u] \in blocks' /\ target'[u] \in dirty'
                   /\ pc'[u] = "markClean"
                            /\ victim'[u] \in live' => victim'[u] \in Saved(file')
                   /\ Evicting(u)' /\ pc'[u] = "evict" => victim'[u] \notin dirty'
        BY SMTT(30), <2>a, <4>1, <4>2, <4>3 DEF SaveInv, SaveKeeps
      <4>6. QED BY <4>4, <4>5 DEF SaveInv
    <3> USE DEF SaveKeeps, Evicting, SharedLabel, Goto, mutexVars, policyVars, poolVars,
       callVars
    <3>4. CASE Deallocate(t)
      BY <1>0, <2>b, <2>c, <3>4 DEF Deallocate
    <3>5. QED BY <2>5, <3>1, <3>2, <3>3, <3>4 DEF EvictStep
  <2>6. CASE OtherStep(t)
    <3>1. CASE InsertCreated(t)
      <4>1. \A u \in Thread : Evicting(u) => victim[u] # target[t]
        BY <3>1 DEF InsertCreated, IdInv, Making, HasVictim, OwnsVictim
      <4>2. /\ blocks' = blocks \cup {target[t]} /\ dirty' = dirty \cup {target[t]}
            /\ UNCHANGED <<file, live>> /\ pc'[t] = "created" /\ target'[t] = target[t]
        BY <1>0, <3>1 DEF InsertCreated, SaveKeeps, Evicting, SharedLabel, Goto, callVars,
           poolVars
      <4>3. /\ dirty' \subseteq blocks'
            /\ \A c \in live' : (c \in blocks' /\ c \in dirty') \/ c \in Saved(file')
        BY <2>a, <4>1, <4>2 DEF SaveInv
      <4>4. ASSUME NEW u \in Thread
            PROVE  /\ pc'[u] = "created" => target'[u] \in blocks' /\ target'[u] \in dirty'
                   /\ pc'[u] = "markClean"
                            /\ victim'[u] \in live' => victim'[u] \in Saved(file')
                   /\ Evicting(u)' /\ pc'[u] = "evict" => victim'[u] \notin dirty'
        BY <2>a, <4>1, <4>2 DEF SaveInv, SaveKeeps
      <4>5. QED BY <4>3, <4>4 DEF SaveInv
    <3>2. CASE Created(t)
      <4>1. ASSUME NEW u \in Thread, pc[u] = "markClean" PROVE victim[u] # target[t]
        <5>1. CASE job[u] = "save"
          BY <3>2, <5>1, Arguments DEF Created, Making
        <5>2. CASE job[u] # "save"
          BY <3>2, <4>1, <5>2, Jobs DEF Created, IdInv, Making, HasVictim, OwnsVictim,
             Evicting, SharedLabel
        <5>3. QED BY <5>1, <5>2
      <4>2. /\ SaveKeeps(t) /\ UNCHANGED <<blocks, dirty, file>>
            /\ live' = live \cup {target[t]}
        BY <1>0, <3>2 DEF Created, Return, SaveKeeps, Evicting, SharedLabel, Goto, callVars,
           poolVars
      <4>3. target[t] \in blocks /\ target[t] \in dirty
        BY <3>2 DEF Created, SaveInv
      <4>4. /\ dirty' \subseteq blocks'
            /\ \A c \in live' : (c \in blocks' /\ c \in dirty') \/ c \in Saved(file')
        BY <2>a, <4>1, <4>2, <4>3 DEF SaveInv
      <4>5. ASSUME NEW u \in Thread
            PROVE  /\ pc'[u] = "created" => target'[u] \in blocks' /\ target'[u] \in dirty'
                   /\ pc'[u] = "markClean"
                            /\ victim'[u] \in live' => victim'[u] \in Saved(file')
                   /\ Evicting(u)' /\ pc'[u] = "evict" => victim'[u] \notin dirty'
        BY SMTT(30), <2>a, <4>1, <4>2, <4>3 DEF SaveInv, SaveKeeps
      <4>6. QED BY <4>4, <4>5 DEF SaveInv
    <3>3. CASE Unlink(t)
      <4>1. target[t] \in Block \ live
        BY <3>3, Arguments DEF Unlink, DeleteLabel
      <4>2. /\ SaveKeeps(t) /\ UNCHANGED <<blocks, dirty, live>>
            /\ \A c \in live : c \in Saved(file) => c \in Saved(file')
        BY <1>0, <3>3, <4>1 DEF Unlink, Saved, SaveKeeps, Evicting, SharedLabel, Goto, callVars,
           poolVars
      <4>3. /\ dirty' \subseteq blocks'
            /\ \A c \in live' : (c \in blocks' /\ c \in dirty') \/ c \in Saved(file')
        BY <2>a, <4>2 DEF SaveInv
      <4>4. ASSUME NEW u \in Thread
            PROVE  /\ pc'[u] = "created" => target'[u] \in blocks' /\ target'[u] \in dirty'
                   /\ pc'[u] = "markClean"
                            /\ victim'[u] \in live' => victim'[u] \in Saved(file')
                   /\ Evicting(u)' /\ pc'[u] = "evict" => victim'[u] \notin dirty'
        BY SMTT(30), <2>a, <4>2 DEF SaveInv, SaveKeeps
      <4>5. QED BY <4>3, <4>4 DEF SaveInv
    <3> USE DEF SaveKeeps, Evicting, SharedLabel, Goto, mutexVars, policyVars, poolVars,
       callVars
    <3>4. CASE CheckLoaded(t) \/ PolicyEvicted(t)
      BY <1>0, <2>b, <2>c, <3>4 DEF CheckLoaded, PolicyEvicted, blockEvicted
    <3>5. CASE PolicyDeleted(t)
      BY <1>0, <2>b, <2>c, <3>5 DEF PolicyDeleted, blockDeleted, Return
    <3>6. QED BY <2>6, <3>1, <3>2, <3>3, <3>4, <3>5 DEF OtherStep
  <2>7. QED BY <1>2, <2>1, <2>2, <2>3, <2>4, <2>5, <2>6 DEF Step
<1>3. CASE UNCHANGED vars
  <2>1. UNCHANGED <<blocks, dirty, file>> /\ live' \subseteq live /\ \A u \in Thread : Same(u)
    BY <1>3 DEF vars, Same, mutexVars, policyVars, poolVars, callVars
  <2>2. QED BY <2>1, SameKeeps, SameSaved
<1>4. QED BY <1>1, <1>2, <1>3 DEF Next

-----------------------------------------------------------------------------
(***************************************************************************)
(* A lock without readers: no thread is counted.                           *)
(***************************************************************************)
LEMMA NoReaders ==
    ASSUME ReaderInv, NEW s \in Shard, readers[s] = 0
    PROVE  \A t \in Thread : pc[t] = "lookup" => TargetShard(t) # s
<1>1. IsFiniteSet(ReadersOf(s))
  BY StorageAssumption, FS_Subset DEF ReadersOf
<1>2. ReadersOf(s) = {}
  BY <1>1, FS_EmptySet DEF ReaderInv
<1>3. QED BY <1>2 DEF ReadersOf, Reads
(***************************************************************************)
(* A block without references: no thread has one.                          *)
(***************************************************************************)
LEMMA NoHolders ==
    ASSUME CountInv, NEW b \in Block, refCount[b] = 0
    PROVE  \A t \in Thread : b \notin held[t]
<1>1. IsFiniteSet(HoldersOf(b))
  BY StorageAssumption, FS_Subset DEF HoldersOf
<1>2. HoldersOf(b) = {}
  BY <1>1, FS_EmptySet DEF CountInv
<1>3. QED BY <1>2 DEF HoldersOf

(***************************************************************************)
(* When no thread becomes or ceases to be a reader, the counts stay right. *)
(***************************************************************************)
LEMMA SameReaders ==
    ASSUME ReaderInv, readers' = readers, \A u \in Thread : ReadKeeps(u)
    PROVE  ReaderInv'
<1>1. \A s \in Shard : ReadersOf(s)' = ReadersOf(s)
  BY DEF ReadKeeps, ReadersOf, TargetShard
<1>2. QED BY <1>1 DEF ReaderInv

(***************************************************************************)
(* A thread that is counted as a reader, and one that is no longer.        *)
(***************************************************************************)
LEMMA ReaderAdded ==
    ASSUME TypeOK, ReaderInv, NEW t \in Thread, TargetShard(t) \in Shard, ~Reads(t), Reads(t)',
           AddReader(TargetShard(t)), target'[t] = target[t],
           \A u \in Thread \ {t} : ReadKeeps(u)
    PROVE  ReaderInv'
<1>1. readers \in [Shard -> Int]
  BY DEF TypeOK, MutexType
<1>2. ASSUME NEW s \in Shard PROVE readers'[s] = Cardinality(ReadersOf(s)')
  <2>1. IsFiniteSet(ReadersOf(s))
    BY StorageAssumption, FS_Subset DEF ReadersOf
  <2>2. CASE s = TargetShard(t)
    <3>1. ReadersOf(s)' = ReadersOf(s) \cup {t} /\ t \notin ReadersOf(s)
      BY <2>2 DEF ReadersOf, TargetShard, ReadKeeps
    <3>2. Cardinality(ReadersOf(s)') = Cardinality(ReadersOf(s)) + 1
      BY <2>1, <3>1, FS_AddElement
    <3>3. readers'[s] = readers[s] + 1
      BY <1>1, <2>2 DEF AddReader
    <3>4. QED BY <3>2, <3>3 DEF ReaderInv
  <2>3. CASE s # TargetShard(t)
    <3>1. ReadersOf(s)' = ReadersOf(s)
      BY <2>3 DEF ReadersOf, TargetShard, ReadKeeps
    <3>2. readers'[s] = readers[s]
      BY <1>1, <2>3 DEF AddReader
    <3>3. QED BY <3>1, <3>2 DEF ReaderInv
  <2>4. QED BY <2>2, <2>3
<1>3. QED BY <1>2 DEF ReaderInv

(***************************************************************************)
(* A thread that leaves a shard's lock is not counted as its reader.       *)
(***************************************************************************)
LEMMA ReaderRemoved ==
    ASSUME TypeOK, ReaderInv, NEW t \in Thread, TargetShard(t) \in Shard, Reads(t), ~Reads(t)',
           RemoveReader(TargetShard(t)), target'[t] = target[t],
           \A u \in Thread \ {t} : ReadKeeps(u)
    PROVE  ReaderInv'
<1>1. readers \in [Shard -> Int]
  BY DEF TypeOK, MutexType
<1>2. ASSUME NEW s \in Shard PROVE readers'[s] = Cardinality(ReadersOf(s)')
  <2>1. IsFiniteSet(ReadersOf(s))
    BY StorageAssumption, FS_Subset DEF ReadersOf
  <2>2. CASE s = TargetShard(t)
    <3>1. ReadersOf(s)' = ReadersOf(s) \ {t} /\ t \in ReadersOf(s)
      BY <2>2 DEF ReadersOf, TargetShard, ReadKeeps
    <3>2. Cardinality(ReadersOf(s)') = Cardinality(ReadersOf(s)) - 1
      BY <2>1, <3>1, FS_RemoveElement
    <3>3. readers'[s] = readers[s] - 1
      BY <1>1, <2>2 DEF RemoveReader
    <3>4. QED BY <3>2, <3>3 DEF ReaderInv
  <2>3. CASE s # TargetShard(t)
    <3>1. ReadersOf(s)' = ReadersOf(s)
      BY <2>3 DEF ReadersOf, TargetShard, ReadKeeps
    <3>2. readers'[s] = readers[s]
      BY <1>1, <2>3 DEF RemoveReader
    <3>3. QED BY <3>1, <3>2 DEF ReaderInv
  <2>4. QED BY <2>2, <2>3
<1>3. QED BY <1>2 DEF ReaderInv

(***************************************************************************)
(* A step keeps the counts of readers.                                     *)
(***************************************************************************)
LEMMA ReaderStep ==
    ASSUME TypeOK, ControlInv, ReaderInv, [Next]_vars
    PROVE  ReaderInv'
<1>0. /\ pc \in [Thread -> Label]
      /\ job \in [Thread -> {"none", "create", "get", "save", "delete"}]
      /\ target \in [Thread -> Block \cup {NoBlock}]
  BY DEF TypeOK
<1>1. CASE Restart
  <2>1. readers' = readers /\ \A u \in Thread : Same(u)
    BY <1>1 DEF Restart, Same, mutexVars, callVars
  <2>2. QED BY <2>1, SameKeeps, SameReaders
<1>c. CASE Crash
  <2>1. \A s \in Shard : ReadersOf(s)' = {} /\ readers'[s] = 0
    BY <1>c DEF Crash, ReadersOf, Reads
  <2>2. QED BY <2>1, FS_EmptySet DEF ReaderInv
<1>2. ASSUME NEW t \in Thread, Call(t) \/ Step(t) PROVE ReaderInv'
  <2>a. \A u \in Thread \ {t} : ReadKeeps(u)
    BY <1>2, Others, SameKeeps
  <2>b. readers' = readers /\ ReadKeeps(t) => ReaderInv'
    BY <2>a, SameReaders
  <2>1. CASE Call(t)
    <3> USE DEF ReadKeeps, Reads, Goto, mutexVars, policyVars, poolVars, callVars
    <3>1. ASSUME NEW b \in Block, CallGet(t, b) PROVE ReaderInv'
      BY <1>0, <2>b, <3>1 DEF CallGet
    <3>2. ASSUME NEW b \in Block, CallSave(t, b) PROVE ReaderInv'
      BY <1>0, <2>b, <3>2 DEF CallSave
    <3>3. ASSUME NEW b \in Block, CallDelete(t, b) PROVE ReaderInv'
      BY <1>0, <2>b, <3>3 DEF CallDelete
    <3>4. ASSUME NEW b \in Block, WriteBlock(t, b) PROVE ReaderInv'
      BY <1>0, <2>b, <3>4 DEF WriteBlock
    <3>5. ASSUME NEW b \in Block, ReleaseReference(t, b) PROVE ReaderInv'
      BY <1>0, <2>b, <3>5 DEF ReleaseReference, blockUnreferenced
    <3>6. CASE CallCreate(t)
      BY <1>0, <2>b, <3>6 DEF CallCreate
    <3>7. QED BY <2>1, <3>1, <3>2, <3>3, <3>4, <3>5, <3>6 DEF Call
  <2>2. CASE SharedStep(t)
    <3>1. CASE LockShared(t)
      <4>1. TargetShard(t) \in Shard
        BY <3>1, StorageAssumption, Arguments DEF LockShared, GetLabel, TargetShard
      <4>2. Reads(t)' /\ target'[t] = target[t]
        BY <1>0, <3>1 DEF LockShared, Goto, Reads, callVars
      <4>3. ~Reads(t) /\ AddReader(TargetShard(t))
        BY <3>1 DEF LockShared, AddReader, Reads, TargetShard
      <4>4. QED BY <2>a, <4>1, <4>2, <4>3, ReaderAdded
    <3>2. CASE BackOff(t)
      <4>1. TargetShard(t) \in Shard
        BY <3>2, StorageAssumption, Arguments DEF BackOff, GetLabel, TargetShard
      <4>2. ~Reads(t)' /\ target'[t] = target[t]
        BY <1>0, <3>2 DEF BackOff, Goto, Reads, callVars
      <4>3. Reads(t) /\ RemoveReader(TargetShard(t))
        BY <3>2 DEF BackOff, RemoveReader, Reads, TargetShard
      <4>4. QED BY <2>a, <4>1, <4>2, <4>3, ReaderRemoved
    <3>3. CASE UnlockShared(t)
      <4>1. TargetShard(t) \in Shard
        BY <3>3, StorageAssumption, Arguments DEF UnlockShared, GetLabel, TargetShard
      <4>2. ~Reads(t)' /\ target'[t] = target[t]
        BY <1>0, <3>3 DEF UnlockShared, Goto, Reads, callVars
      <4>3. Reads(t) /\ RemoveReader(TargetShard(t))
        BY <3>3 DEF UnlockShared, RemoveReader, Reads, TargetShard
      <4>4. QED BY <2>a, <4>1, <4>2, <4>3, ReaderRemoved
    <3> USE DEF ReadKeeps, Reads, Goto, mutexVars, policyVars, poolVars, callVars
    <3>4. CASE CountShared(t) \/ SpinShared(t) \/ Lookup(t) \/ ReleaseShared(t)
      BY <1>0, <2>b, <3>4 DEF CountShared, CountShard, SpinShared, Lookup, Refer,
         blockReferenced, ReleaseShared, ReleaseShard, Return
    <3>5. QED BY <2>2, <3>1, <3>2, <3>3, <3>4 DEF SharedStep
  <2>3. CASE ExclusiveStep(t)
    <3> USE DEF ReadKeeps, Reads, Goto, mutexVars, policyVars, poolVars, callVars
    <3>1. CASE CountExclusive(t) \/ Lock(t) \/ Drain(t) \/ LookAgain(t)
      BY <1>0, <2>b, <3>1 DEF CountExclusive, CountShard, Lock, SetWriteBit, Drain, Drained,
         LookAgain, LoadFile, Refer, blockReferenced
    <3>2. CASE InsertLoaded(t) \/ Reference(t) \/ Unlock(t) \/ Release(t)
      BY <1>0, <2>b, <3>2 DEF InsertLoaded, Reference, Refer, blockReferenced, Unlock, unlock,
         Release, ReleaseShard, Return
    <3>3. QED BY <2>3, <3>1, <3>2 DEF ExclusiveStep
  <2>4. CASE RoomStep(t)
    <3> USE DEF ReadKeeps, Reads, Goto, mutexVars, policyVars, poolVars, callVars
    <3>1. CASE MakeRoom(t) \/ CountVictim(t) \/ LockVictim(t) \/ DrainVictim(t)
      BY <1>0, <2>b, <3>1 DEF MakeRoom, chooseBlockToEvict, Evictable, CountVictim,
         CountShard, LockVictim, SetWriteBit, DrainVictim, Drained
    <3>2. CASE Examine(t) \/ ReleaseVictim(t) \/ UnlockVictim(t) \/ Allocate(t)
      BY <1>0, <2>b, <3>2 DEF Examine, ReleaseVictim, ReleaseShard, UnlockVictim, unlock,
         Allocate
    <3>3. QED BY <2>4, <3>1, <3>2 DEF RoomStep
  <2>5. CASE EvictStep(t)
    <3> USE DEF ReadKeeps, Reads, Goto, mutexVars, policyVars, poolVars, callVars
    <3>1. CASE SaveBlock(t) \/ MarkClean(t) \/ Evict(t) \/ Deallocate(t)
      BY <1>0, <2>b, <3>1 DEF SaveBlock, AfterSave, Return, MarkClean, Evict, Evicted,
         Deallocate
    <3>2. QED BY <2>5, <3>1 DEF EvictStep
  <2>6. CASE OtherStep(t)
    <3> USE DEF ReadKeeps, Reads, Goto, mutexVars, policyVars, poolVars, callVars
    <3>1. CASE InsertCreated(t) \/ Created(t) \/ CheckLoaded(t) \/ PolicyEvicted(t)
      BY <1>0, <2>b, <3>1 DEF InsertCreated, Created, blockCreated, Return, CheckLoaded,
         PolicyEvicted, blockEvicted
    <3>2. CASE Unlink(t) \/ PolicyDeleted(t)
      BY <1>0, <2>b, <3>2 DEF Unlink, PolicyDeleted, blockDeleted, Return
    <3>3. QED BY <2>6, <3>1, <3>2 DEF OtherStep
  <2>7. QED BY <1>2, <2>1, <2>2, <2>3, <2>4, <2>5, <2>6 DEF Step
<1>3. CASE UNCHANGED vars
  <2>1. readers' = readers /\ \A u \in Thread : Same(u)
    BY <1>3 DEF vars, Same, mutexVars, policyVars, poolVars, callVars
  <2>2. QED BY <2>1, SameKeeps, SameReaders
<1>4. QED BY <1>1, <1>c, <1>2, <1>3 DEF Next

(***************************************************************************)
(* When no thread gets or drops a reference, the counts stay right.        *)
(***************************************************************************)
LEMMA SameHolders ==
    ASSUME CountInv, held' = held, refCount' = refCount
    PROVE  CountInv'
  BY DEF CountInv, HoldersOf

(***************************************************************************)
(* A reference that is taken, and one that is dropped.                     *)
(***************************************************************************)
LEMMA ReferenceAdded ==
    ASSUME TypeOK, CountInv, NEW t \in Thread, NEW b \in Block, b \notin held[t],
           held' = [held EXCEPT ![t] = @ \cup {b}], blockReferenced(b)
    PROVE  CountInv'
<1>1. held \in [Thread -> SUBSET Block] /\ refCount \in [Block -> Int]
  BY DEF TypeOK, PolicyType
<1>2. ASSUME NEW c \in Block PROVE refCount'[c] = Cardinality(HoldersOf(c)')
  <2>1. IsFiniteSet(HoldersOf(c))
    BY StorageAssumption, FS_Subset DEF HoldersOf
  <2>2. CASE c = b
    <3>1. HoldersOf(c)' = HoldersOf(c) \cup {t} /\ t \notin HoldersOf(c)
      BY <1>1, <2>2 DEF HoldersOf
    <3>2. Cardinality(HoldersOf(c)') = Cardinality(HoldersOf(c)) + 1
      BY <2>1, <3>1, FS_AddElement
    <3>3. refCount'[c] = refCount[c] + 1
      BY <1>1, <2>2 DEF blockReferenced
    <3>4. QED BY <3>2, <3>3 DEF CountInv
  <2>3. CASE c # b
    <3>1. HoldersOf(c)' = HoldersOf(c)
      BY <1>1, <2>3 DEF HoldersOf
    <3>2. refCount'[c] = refCount[c]
      BY <1>1, <2>3 DEF blockReferenced
    <3>3. QED BY <3>1, <3>2 DEF CountInv
  <2>4. QED BY <2>2, <2>3
<1>3. QED BY <1>2 DEF CountInv

(***************************************************************************)
(* Dropping a reference takes one from the block's count.                  *)
(***************************************************************************)
LEMMA ReferenceDropped ==
    ASSUME TypeOK, CountInv, NEW t \in Thread, NEW b \in Block, b \in held[t],
           held' = [held EXCEPT ![t] = @ \ {b}], blockUnreferenced(b)
    PROVE  CountInv'
<1>1. held \in [Thread -> SUBSET Block] /\ refCount \in [Block -> Int]
  BY DEF TypeOK, PolicyType
<1>2. ASSUME NEW c \in Block PROVE refCount'[c] = Cardinality(HoldersOf(c)')
  <2>1. IsFiniteSet(HoldersOf(c))
    BY StorageAssumption, FS_Subset DEF HoldersOf
  <2>2. CASE c = b
    <3>1. HoldersOf(c)' = HoldersOf(c) \ {t} /\ t \in HoldersOf(c)
      BY <1>1, <2>2 DEF HoldersOf
    <3>2. Cardinality(HoldersOf(c)') = Cardinality(HoldersOf(c)) - 1
      BY <2>1, <3>1, FS_RemoveElement
    <3>3. refCount'[c] = refCount[c] - 1
      BY <1>1, <2>2 DEF blockUnreferenced
    <3>4. QED BY <3>2, <3>3 DEF CountInv
  <2>3. CASE c # b
    <3>1. HoldersOf(c)' = HoldersOf(c)
      BY <1>1, <2>3 DEF HoldersOf
    <3>2. refCount'[c] = refCount[c]
      BY <1>1, <2>3 DEF blockUnreferenced
    <3>3. QED BY <3>1, <3>2 DEF CountInv
  <2>4. QED BY <2>2, <2>3
<1>3. QED BY <1>2 DEF CountInv

(***************************************************************************)
(* A step keeps the counts of references.                                  *)
(***************************************************************************)
LEMMA CountStep ==
    ASSUME TypeOK, ControlInv, AskInv, CountInv, LoadInv, [Next]_vars
    PROVE  CountInv'
<1>1. CASE Restart \/ Crash
  <2>1. \A b \in Block : HoldersOf(b)' = {} /\ refCount'[b] = 0
    BY <1>1, AfterEnd DEF Restart, Crash, EmptyPool, HoldersOf
  <2>2. QED BY <2>1, FS_EmptySet DEF CountInv
<1>2. ASSUME NEW t \in Thread, Call(t) \/ Step(t) PROVE CountInv'
  <2>1. CASE Call(t)
    <3>1. ASSUME NEW b \in Block, ReleaseReference(t, b) PROVE CountInv'
        BY <3>1, ReferenceDropped DEF ReleaseReference
    <3> USE DEF policyVars
    <3>2. ASSUME NEW b \in Block, CallGet(t, b) PROVE CountInv'
      BY SameHolders, <3>2 DEF CallGet
    <3>3. ASSUME NEW b \in Block, CallSave(t, b) PROVE CountInv'
      BY SameHolders, <3>3 DEF CallSave
    <3>4. ASSUME NEW b \in Block, CallDelete(t, b) PROVE CountInv'
      BY SameHolders, <3>4 DEF CallDelete
    <3>5. ASSUME NEW b \in Block, WriteBlock(t, b) PROVE CountInv'
      BY SameHolders, <3>5 DEF WriteBlock
    <3>6. CASE CallCreate(t)
      BY SameHolders, <3>6 DEF CallCreate
    <3>7. QED BY <2>1, <3>1, <3>2, <3>3, <3>4, <3>5, <3>6 DEF Call
  <2>2. CASE SharedStep(t)
    <3>1. CASE Lookup(t)
      <4>1. target[t] \in Block /\ target[t] \notin held[t]
        BY <3>1, Arguments DEF Lookup, GetLabel, AskInv, Asks
      <4>2. CASE target[t] \in blocks
        BY <3>1, <4>1, <4>2, ReferenceAdded DEF Lookup, Refer
      <4>3. CASE target[t] \notin blocks
        BY <3>1, <4>3, SameHolders DEF Lookup, policyVars
      <4>4. QED BY <4>2, <4>3
    <3> USE DEF policyVars
    <3>2. CASE CountShared(t) \/ LockShared(t) \/ BackOff(t) \/ SpinShared(t)
      BY SameHolders, <3>2 DEF CountShared, CountShard, LockShared, AddReader, BackOff,
         RemoveReader, SpinShared
    <3>3. CASE UnlockShared(t) \/ ReleaseShared(t)
      BY SameHolders, <3>3 DEF UnlockShared, RemoveReader, ReleaseShared, ReleaseShard, Return
    <3>4. QED BY <2>2, <3>1, <3>2, <3>3 DEF SharedStep
  <2>3. CASE ExclusiveStep(t)
    <3>1. CASE LookAgain(t)
      <4>1. target[t] \in Block /\ target[t] \notin held[t]
        BY <3>1, Arguments DEF LookAgain, LoadFile, GetLabel, AskInv, Asks
      <4>2. CASE target[t] \in blocks
        BY <3>1, <4>1, <4>2, ReferenceAdded DEF LookAgain, LoadFile, Refer
      <4>3. CASE target[t] \notin blocks
        BY <3>1, <4>3, SameHolders DEF LookAgain, LoadFile, policyVars
      <4>4. QED BY <4>2, <4>3
    <3>2. CASE Reference(t)
      <4>1. target[t] \in Block /\ target[t] \notin held[t]
        BY <3>2, Arguments DEF Reference, GetLabel, AskInv, Asks
      <4>2. QED BY <3>2, <4>1, ReferenceAdded DEF Reference, Refer
    <3> USE DEF policyVars
    <3>3. CASE CountExclusive(t) \/ Lock(t) \/ Drain(t) \/ InsertLoaded(t)
      BY SameHolders, <3>3 DEF CountExclusive, CountShard, Lock, SetWriteBit, Drain, Drained,
         InsertLoaded
    <3>4. CASE Unlock(t) \/ Release(t)
      BY SameHolders, <3>4 DEF Unlock, unlock, Release, ReleaseShard, Return
    <3>5. QED BY <2>3, <3>1, <3>2, <3>3, <3>4 DEF ExclusiveStep
  <2>4. CASE RoomStep(t)
    <3> USE DEF policyVars
    <3>1. CASE MakeRoom(t) \/ CountVictim(t) \/ LockVictim(t) \/ DrainVictim(t)
      BY SameHolders, <3>1 DEF MakeRoom, chooseBlockToEvict, Evictable, CountVictim,
         CountShard, LockVictim, SetWriteBit, DrainVictim, Drained
    <3>2. CASE Examine(t) \/ ReleaseVictim(t) \/ UnlockVictim(t) \/ Allocate(t)
      BY SameHolders, <3>2 DEF Examine, ReleaseVictim, ReleaseShard, UnlockVictim, unlock,
         Allocate
    <3>3. QED BY <2>4, <3>1, <3>2 DEF RoomStep
  <2>5. CASE EvictStep(t)
    <3> USE DEF policyVars
    <3>1. CASE SaveBlock(t) \/ MarkClean(t) \/ Evict(t) \/ Deallocate(t)
      BY SameHolders, <3>1 DEF SaveBlock, AfterSave, Return, MarkClean, Evict, Evicted,
         Deallocate
    <3>2. QED BY <2>5, <3>1 DEF EvictStep
  <2>6. CASE OtherStep(t)
    <3>1. CASE PolicyDeleted(t)
      <4>1. target[t] \in Block \ live
        BY <3>1, Arguments DEF PolicyDeleted, DeleteLabel
      <4>2. \A u \in Thread : target[t] \notin held[u]
        BY <4>1 DEF LoadInv
      <4>3. HoldersOf(target[t]) = {}
        BY <4>2 DEF HoldersOf
      <4>4. refCount \in [Block -> Int] /\ refCount[target[t]] = 0
        <5>1. refCount[target[t]] = 0
          BY <4>1, <4>3, FS_EmptySet DEF CountInv
        <5>2. QED BY <5>1 DEF TypeOK, PolicyType
      <4>5. refCount' = refCount
        BY <3>1, <4>4 DEF PolicyDeleted, blockDeleted
      <4>6. QED BY <3>1, <4>5, SameHolders DEF PolicyDeleted
    <3> USE DEF policyVars
    <3>2. CASE InsertCreated(t) \/ Created(t) \/ CheckLoaded(t) \/ PolicyEvicted(t)
      BY SameHolders, <3>2 DEF InsertCreated, Created, blockCreated, Return, CheckLoaded,
         PolicyEvicted, blockEvicted
    <3>3. CASE Unlink(t)
      BY SameHolders, <3>3 DEF Unlink
    <3>4. QED BY <2>6, <3>1, <3>2, <3>3 DEF OtherStep
  <2>7. QED BY <1>2, <2>1, <2>2, <2>3, <2>4, <2>5, <2>6 DEF Step
<1>3. CASE UNCHANGED vars
  BY <1>3, SameHolders DEF vars, policyVars
<1>4. QED BY <1>1, <1>2, <1>3 DEF Next

(***************************************************************************)
(* The counts of the memory in use are of finite sets.                     *)
(***************************************************************************)
LEMMA MovingFinite ==
    ASSUME TypeOK
    PROVE  /\ IsFiniteSet(Moving) /\ Cardinality(Moving) \in Nat
           /\ IsFiniteSet(blocks) /\ Cardinality(blocks) \in Nat
<1>1. IsFiniteSet(Moving)
  BY StorageAssumption, FS_Subset DEF Moving
<1>2. IsFiniteSet(Block) /\ blocks \subseteq Block
  BY SMTT(30), StorageAssumption, FS_Interval DEF TypeOK
<1>3. IsFiniteSet(blocks)
  BY <1>2, FS_Subset
<1>4. QED BY <1>1, <1>3, FS_CardinalityType

(***************************************************************************)
(* A step keeps the memory in use exact.                                   *)
(***************************************************************************)
LEMMA UsageStep ==
    ASSUME TypeOK, UsageExact, UsageMoves
    PROVE  UsageExact'
<1>0. usage \in Int
  BY DEF TypeOK
<1>a. usage = Cardinality(blocks) + Cardinality(Moving)
  BY DEF UsageExact, Moving
<1>b. usage' = Cardinality(blocks') + Cardinality(Moving') => UsageExact'
  BY DEF UsageExact, Moving
<1>1. CASE usage' = usage /\ blocks' = blocks /\ Moving' = Moving
  BY <1>a, <1>b, <1>1
<1>2. ASSUME NEW t \in Thread \ Moving,
             usage' = usage + 1, blocks' = blocks, Moving' = Moving \cup {t}
      PROVE  UsageExact'
  <2>1. Cardinality(Moving') = Cardinality(Moving) + 1
    BY <1>2, MovingFinite, FS_AddElement
  <2>2. QED BY SMTT(30), <1>0, <1>a, <1>b, <1>2, <2>1, MovingFinite
<1>3. ASSUME NEW t \in Moving,
             usage' = usage - 1, blocks' = blocks, Moving' = Moving \ {t}
      PROVE  UsageExact'
  <2>1. Cardinality(Moving') = Cardinality(Moving) - 1
    BY <1>3, MovingFinite, FS_RemoveElement
  <2>2. QED BY SMTT(30), <1>0, <1>a, <1>b, <1>3, <2>1, MovingFinite
<1>4. ASSUME NEW t \in Moving, NEW b \in Block \ blocks,
             usage' = usage, blocks' = blocks \cup {b}, Moving' = Moving \ {t}
      PROVE  UsageExact'
  <2>1. Cardinality(Moving') = Cardinality(Moving) - 1
    BY <1>4, MovingFinite, FS_RemoveElement
  <2>2. Cardinality(blocks') = Cardinality(blocks) + 1
    BY <1>4, MovingFinite, FS_AddElement
  <2>3. QED BY SMTT(30), <1>0, <1>a, <1>b, <1>4, <2>1, <2>2, MovingFinite
<1>5. ASSUME NEW t \in Thread \ Moving, NEW b \in blocks,
             usage' = usage, blocks' = blocks \ {b}, Moving' = Moving \cup {t}
      PROVE  UsageExact'
  <2>1. Cardinality(Moving') = Cardinality(Moving) + 1
    BY <1>5, MovingFinite, FS_AddElement
  <2>2. Cardinality(blocks') = Cardinality(blocks) - 1
    BY <1>5, MovingFinite, FS_RemoveElement
  <2>3. QED BY SMTT(30), <1>0, <1>a, <1>b, <1>5, <2>1, <2>2, MovingFinite
<1>6. CASE usage' = 0 /\ blocks' = {} /\ Moving' = {}
  <2>1. Cardinality(blocks') = 0 /\ Cardinality(Moving') = 0
    BY <1>6, FS_EmptySet
  <2>2. QED BY SMTT(30), <1>b, <1>6, <2>1
<1>7. QED BY <1>1, <1>2, <1>3, <1>4, <1>5, <1>6 DEF UsageMoves

(***************************************************************************)
(* The uses of a shard that threads announced are finite.                  *)
(***************************************************************************)
LEMMA UsesFinite ==
    ASSUME NEW s \in Shard
    PROVE  IsFiniteSet(UsesOf(s)) /\ Cardinality(UsesOf(s)) \in Nat
<1>1. IsFiniteSet(Role)
  <2>1. Role = {"target"} \cup {"victim"}
    BY DEF Role
  <2>2. QED BY <2>1, FS_Singleton, FS_AddElement
<1>2. IsFiniteSet(Thread \X Role)
  BY <1>1, StorageAssumption, FS_Product
<1>3. IsFiniteSet(UsesOf(s))
  BY <1>2, FS_Subset DEF UsesOf
<1>4. QED BY <1>3, FS_CardinalityType

(***************************************************************************)
(* When nobody announces or ends a use of a shard, the counts stay right.  *)
(***************************************************************************)
LEMMA SameUses ==
    ASSUME ShardInv, shardCount' = shardCount, \A u \in Thread, k \in Role : UseKeeps(u, k)
    PROVE  ShardInv'
<1>1. \A s \in Shard : UsesOf(s)' = UsesOf(s)
  BY DEF UsesOf, UseKeeps
<1>2. QED BY <1>1 DEF ShardInv

(***************************************************************************)
(* A use of a shard that is announced, and one that ends.                  *)
(***************************************************************************)
LEMMA UseAdded ==
    ASSUME TypeOK, ShardInv, NEW t \in Thread, NEW k \in Role, UsedShard(t, k)' \in Shard,
           ~Uses(t, k), Uses(t, k)', CountShard(UsedShard(t, k)'),
           \A u \in Thread, j \in Role : u # t \/ j # k => UseKeeps(u, j)
    PROVE  ShardInv'
<1>1. shardCount \in [Shard -> Int]
  BY DEF TypeOK
<1>2. ASSUME NEW s \in Shard PROVE shardCount'[s] = Cardinality(UsesOf(s)')
  <2>0. \A x \in Thread \X Role : x = <<x[1], x[2]>> /\ x[1] \in Thread /\ x[2] \in Role
    BY SMTT(30)
  <2>2. CASE s = UsedShard(t, k)'
    <3>1. UsesOf(s)' = UsesOf(s) \cup {<<t, k>>} /\ <<t, k>> \notin UsesOf(s)
      BY SMTT(30), <2>0, <2>2 DEF UsesOf, UseKeeps
    <3>2. Cardinality(UsesOf(s)') = Cardinality(UsesOf(s)) + 1
      BY <3>1, UsesFinite, FS_AddElement
    <3>3. shardCount'[s] = shardCount[s] + 1
      BY <1>1, <2>2 DEF CountShard
    <3>4. QED BY <3>2, <3>3 DEF ShardInv
  <2>3. CASE s # UsedShard(t, k)'
    <3>1. UsesOf(s)' = UsesOf(s)
      BY <2>0, <2>3 DEF UsesOf, UseKeeps
    <3>2. shardCount'[s] = shardCount[s]
      BY <1>1, <2>3 DEF CountShard
    <3>3. QED BY <3>1, <3>2 DEF ShardInv
  <2>4. QED BY <2>2, <2>3
<1>3. QED BY <1>2 DEF ShardInv

(***************************************************************************)
(* A thread that is done with a shard is no longer counted as its user.    *)
(***************************************************************************)
LEMMA UseEnded ==
    ASSUME TypeOK, ShardInv, NEW t \in Thread, NEW k \in Role, UsedShard(t, k) \in Shard,
           Uses(t, k), ~Uses(t, k)', ReleaseShard(UsedShard(t, k)),
           \A u \in Thread, j \in Role : u # t \/ j # k => UseKeeps(u, j)
    PROVE  ShardInv'
<1>1. shardCount \in [Shard -> Int]
  BY DEF TypeOK
<1>2. ASSUME NEW s \in Shard PROVE shardCount'[s] = Cardinality(UsesOf(s)')
  <2>0. \A x \in Thread \X Role : x = <<x[1], x[2]>> /\ x[1] \in Thread /\ x[2] \in Role
    BY SMTT(30)
  <2>2. CASE s = UsedShard(t, k)
    <3>1. UsesOf(s)' = UsesOf(s) \ {<<t, k>>} /\ <<t, k>> \in UsesOf(s)
      BY SMTT(30), <2>0, <2>2 DEF UsesOf, UseKeeps
    <3>2. Cardinality(UsesOf(s)') = Cardinality(UsesOf(s)) - 1
      BY <3>1, UsesFinite, FS_RemoveElement
    <3>3. shardCount'[s] = shardCount[s] - 1
      BY <1>1, <2>2 DEF ReleaseShard
    <3>4. QED BY <3>2, <3>3 DEF ShardInv
  <2>3. CASE s # UsedShard(t, k)
    <3>1. UsesOf(s)' = UsesOf(s)
      BY <2>0, <2>3 DEF UsesOf, UseKeeps
    <3>2. shardCount'[s] = shardCount[s]
      BY <1>1, <2>3 DEF ReleaseShard
    <3>3. QED BY <3>1, <3>2 DEF ShardInv
  <2>4. QED BY <2>2, <2>3
<1>3. QED BY <1>2 DEF ShardInv

(***************************************************************************)
(* A step keeps the counts of uses of shards.                              *)
(***************************************************************************)
LEMMA ShardStep ==
    ASSUME TypeOK, ControlInv, ShardInv, [Next]_vars
    PROVE  ShardInv'
<1>0. /\ pc \in [Thread -> Label]
      /\ job \in [Thread -> {"none", "create", "get", "save", "delete"}]
      /\ target \in [Thread -> Block \cup {NoBlock}]
      /\ victim \in [Thread -> Block \cup {NoBlock}]
  BY DEF TypeOK
<1>a. ASSUME NEW u \in Thread, Same(u) PROVE \A k \in Role : UseKeeps(u, k)
  BY <1>a, SameKeeps DEF UseKeeps, Uses, UsedShard, CountsTarget, CountsVictim, Same,
     LockKeeps, TargetShard, VictimShard, OwnsTarget, OwnsVictim, Loading, Evicting
<1>b. ASSUME shardCount' = shardCount, \A u \in Thread : Same(u) PROVE ShardInv'
  BY <1>a, <1>b, SameUses
<1>1. CASE Restart
  BY <1>b, <1>1 DEF Restart, Same, callVars
<1>c. CASE Crash
  <2>1. \A s \in Shard : UsesOf(s)' = {} /\ shardCount'[s] = 0
    BY <1>c DEF Crash, UsesOf, Uses, Role, CountsTarget, CountsVictim, OwnsTarget, OwnsVictim,
       Loading, Evicting, RoomLabel, SharedLabel
  <2>2. QED BY <2>1, FS_EmptySet DEF ShardInv
<1>2. ASSUME NEW t \in Thread, Call(t) \/ Step(t) PROVE ShardInv'
  <2> DEFINE Keeps(k) == UseKeeps(t, k)
  <2>a. \A u \in Thread \ {t}, k \in Role : UseKeeps(u, k)
    BY <1>a, <1>2, Others
  <2>b. ASSUME shardCount' = shardCount, Keeps("target"), Keeps("victim") PROVE ShardInv'
    BY <2>a, <2>b, SameUses DEF Role
  <2>c. ControlAt(t)
    BY DEF ControlInv
  <2>1. CASE Call(t)
    <3> USE DEF UseKeeps, Uses, UsedShard, CountsTarget, CountsVictim, OwnsTarget, OwnsVictim,
                Loading, Evicting, RoomLabel, SharedLabel, Goto
    <3>1. ASSUME NEW b \in Block, CallGet(t, b) PROVE ShardInv'
      BY <1>0, <2>b, <3>1 DEF CallGet
    <3>2. ASSUME NEW b \in Block, CallSave(t, b) PROVE ShardInv'
      BY <1>0, <2>b, <3>2 DEF CallSave
    <3>3. ASSUME NEW b \in Block, CallDelete(t, b) PROVE ShardInv'
      BY <1>0, <2>b, <3>3 DEF CallDelete
    <3>4. ASSUME NEW b \in Block, WriteBlock(t, b) PROVE ShardInv'
      BY <1>0, <2>b, <3>4 DEF WriteBlock
    <3>5. ASSUME NEW b \in Block, ReleaseReference(t, b) PROVE ShardInv'
      BY <1>0, <2>b, <3>5 DEF ReleaseReference
    <3>6. CASE CallCreate(t)
      BY <1>0, <2>b, <3>6 DEF CallCreate
    <3>7. QED BY <2>1, <3>1, <3>2, <3>3, <3>4, <3>5, <3>6 DEF Call
  <2>2. CASE SharedStep(t)
    <3>1. CASE CountShared(t)
      <4>1. UsedShard(t, "target")' = TargetShard(t) /\ TargetShard(t) \in Shard
        BY <1>0, <3>1, StorageAssumption, Arguments
           DEF CountShared, GetLabel, TargetShard, UsedShard, callVars
      <4>2. /\ ~Uses(t, "target") /\ Uses(t, "target")' /\ Keeps("victim")
            /\ CountShard(TargetShard(t))
        BY <1>0, <2>c, <3>1 DEF CountShared, TargetShard, UseKeeps, Uses, CountsTarget,
           CountsVictim, OwnsTarget, OwnsVictim, Loading, Evicting, RoomLabel, SharedLabel,
           Goto, callVars
      <4>3. QED BY <2>a, <4>1, <4>2, UseAdded DEF Role
    <3>2. CASE ReleaseShared(t)
      <4>1. UsedShard(t, "target") = TargetShard(t) /\ TargetShard(t) \in Shard
        BY <3>2, StorageAssumption, Arguments DEF ReleaseShared, GetLabel, TargetShard, UsedShard
      <4>2. /\ Uses(t, "target") /\ ~Uses(t, "target")' /\ Keeps("victim")
            /\ ReleaseShard(TargetShard(t))
        BY <1>0, <2>c, <3>2 DEF ReleaseShared, TargetShard, UseKeeps, Uses, CountsTarget,
           CountsVictim, OwnsTarget, OwnsVictim, Loading, Evicting, RoomLabel, SharedLabel,
           Goto, Return, callVars
      <4>3. QED BY <2>a, <4>1, <4>2, UseEnded DEF Role
    <3> USE DEF UseKeeps, Uses, UsedShard, CountsTarget, CountsVictim, OwnsTarget, OwnsVictim,
                Loading, Evicting, RoomLabel, SharedLabel, Goto, callVars, TargetShard,
                VictimShard
    <3>3. CASE LockShared(t) \/ BackOff(t) \/ SpinShared(t) \/ Lookup(t) \/ UnlockShared(t)
      BY <1>0, <2>b, <3>3 DEF LockShared, BackOff, SpinShared, Lookup, UnlockShared
    <3>4. QED BY <2>2, <3>1, <3>2, <3>3 DEF SharedStep
  <2>3. CASE ExclusiveStep(t)
    <3>1. CASE CountExclusive(t)
      <4>1. UsedShard(t, "target")' = TargetShard(t) /\ TargetShard(t) \in Shard
        BY <1>0, <3>1, StorageAssumption, Arguments
           DEF CountExclusive, GetLabel, TargetShard, UsedShard, callVars
      <4>2. /\ ~Uses(t, "target") /\ Uses(t, "target")' /\ Keeps("victim")
            /\ CountShard(TargetShard(t))
        BY <1>0, <2>c, <3>1 DEF CountExclusive, TargetShard, UseKeeps, Uses, CountsTarget,
           CountsVictim, OwnsTarget, OwnsVictim, Loading, Evicting, RoomLabel, SharedLabel,
           Goto, callVars
      <4>3. QED BY <2>a, <4>1, <4>2, UseAdded DEF Role
    <3>2. CASE Release(t)
      <4>1. UsedShard(t, "target") = TargetShard(t) /\ TargetShard(t) \in Shard
        BY <3>2, StorageAssumption, Arguments DEF Release, GetLabel, TargetShard, UsedShard
      <4>2. /\ Uses(t, "target") /\ ~Uses(t, "target")' /\ Keeps("victim")
            /\ ReleaseShard(TargetShard(t))
        BY <1>0, <2>c, <3>2 DEF Release, TargetShard, UseKeeps, Uses, CountsTarget,
           CountsVictim, OwnsTarget, OwnsVictim, Loading, Evicting, RoomLabel, SharedLabel,
           Goto, Return, callVars
      <4>3. QED BY <2>a, <4>1, <4>2, UseEnded DEF Role
    <3> USE DEF UseKeeps, Uses, UsedShard, CountsTarget, CountsVictim, OwnsTarget, OwnsVictim,
                Loading, Evicting, RoomLabel, SharedLabel, GetLabel, Goto, callVars,
                TargetShard, VictimShard
    <3>3. CASE Lock(t) \/ Drain(t) \/ LookAgain(t)
      BY <1>0, <2>b, <2>c, <3>3 DEF Lock, Drain, LookAgain, LoadFile, ControlAt
    <3>4. CASE InsertLoaded(t) \/ Reference(t) \/ Unlock(t)
      BY <1>0, <2>b, <2>c, <3>4 DEF InsertLoaded, Reference, Unlock, ControlAt
    <3>5. QED BY <2>3, <3>1, <3>2, <3>3, <3>4 DEF ExclusiveStep
  <2>4. CASE RoomStep(t)
    <3>1. CASE CountVictim(t) /\ shardCount[VictimShard(t)] <= 0
      <4>1. UsedShard(t, "victim")' = VictimShard(t) /\ VictimShard(t) \in Shard
        BY <1>0, <3>1, StorageAssumption, Arguments
           DEF CountVictim, HasVictim, VictimShard, UsedShard, callVars
      <4>2. shardCount[VictimShard(t)] \in Int
        BY <4>1 DEF TypeOK
      <4>3. /\ ~Uses(t, "victim") /\ Uses(t, "victim")' /\ Keeps("target")
            /\ CountShard(VictimShard(t))
        BY SMTT(30), <1>0, <2>c, <3>1, <4>2 DEF CountVictim, TargetShard, VictimShard, UseKeeps, Uses,
           UsedShard, CountsTarget, CountsVictim, OwnsTarget, OwnsVictim, Loading, Evicting,
           RoomLabel, SharedLabel, Goto, callVars
      <4>4. QED BY <2>a, <4>1, <4>3, UseAdded DEF Role
    <3>2. CASE ReleaseVictim(t)
      <4>1. UsedShard(t, "victim") = VictimShard(t) /\ VictimShard(t) \in Shard
        BY <3>2, StorageAssumption, Arguments
           DEF ReleaseVictim, HasVictim, OwnsVictim, VictimShard, UsedShard
      <4>2. /\ Uses(t, "victim") /\ ~Uses(t, "victim")' /\ Keeps("target")
            /\ ReleaseShard(VictimShard(t))
        BY <1>0, <2>c, <3>2 DEF ReleaseVictim, TargetShard, VictimShard, UseKeeps, Uses,
           UsedShard, CountsTarget, CountsVictim, OwnsTarget, OwnsVictim, Loading, Evicting,
           RoomLabel, SharedLabel, Goto, callVars
      <4>3. QED BY <2>a, <4>1, <4>2, UseEnded DEF Role
    <3> USE DEF UseKeeps, Uses, UsedShard, CountsTarget, CountsVictim, OwnsTarget, OwnsVictim,
                Loading, Evicting, RoomLabel, SharedLabel, Goto, callVars, TargetShard,
                VictimShard
    <3>3. CASE CountVictim(t) /\ shardCount[VictimShard(t)] > 0
      BY <1>0, <2>b, <3>3 DEF CountVictim
    <3>4. CASE MakeRoom(t)
      BY <1>0, <2>b, <3>4 DEF MakeRoom
    <3>5. CASE LockVictim(t) \/ DrainVictim(t)
      BY <1>0, <2>b, <3>5 DEF LockVictim, DrainVictim
    <3>6. CASE Examine(t) \/ UnlockVictim(t)
      BY <1>0, <2>b, <2>c, <3>6 DEF Examine, UnlockVictim, ControlAt
    <3>7. CASE Allocate(t)
      BY <1>0, <2>b, <2>c, <3>7 DEF Allocate, ControlAt
    <3>8. CountVictim(t) => shardCount[VictimShard(t)] \in Int
      BY StorageAssumption, Arguments DEF CountVictim, HasVictim, TypeOK
    <3>9. QED BY SMTT(30), <2>4, <3>1, <3>2, <3>3, <3>4, <3>5, <3>6, <3>7, <3>8 DEF RoomStep
  <2>5. CASE EvictStep(t)
    <3> USE DEF UseKeeps, Uses, UsedShard, CountsTarget, CountsVictim, OwnsTarget, OwnsVictim,
                Loading, Evicting, RoomLabel, SharedLabel, Goto, callVars, TargetShard,
                VictimShard
    <3>1. CASE SaveBlock(t)
      BY SMTT(30), <1>0, <2>b, <2>c, <3>1 DEF SaveBlock, AfterSave, Return, ControlAt
    <3>2. CASE MarkClean(t)
      BY SMTT(30), <1>0, <2>b, <2>c, <3>2 DEF MarkClean, AfterSave, Return, ControlAt
    <3>3. CASE Evict(t) \/ Deallocate(t)
      BY <1>0, <2>b, <2>c, <3>3 DEF Evict, Deallocate, ControlAt
    <3>4. QED BY <2>5, <3>1, <3>2, <3>3 DEF EvictStep
  <2>6. CASE OtherStep(t)
    <3> USE DEF UseKeeps, Uses, UsedShard, CountsTarget, CountsVictim, OwnsTarget, OwnsVictim,
                Loading, Evicting, RoomLabel, SharedLabel, DeleteLabel, Goto, callVars
    <3>1. CASE InsertCreated(t) \/ Created(t) \/ CheckLoaded(t)
      BY <1>0, <2>b, <2>c, <3>1 DEF InsertCreated, Created, Return, CheckLoaded, ControlAt
    <3>2. CASE PolicyEvicted(t) \/ Unlink(t) \/ PolicyDeleted(t)
      BY <1>0, <2>b, <2>c, <3>2 DEF PolicyEvicted, Unlink, PolicyDeleted, Return, ControlAt
    <3>3. QED BY <2>6, <3>1, <3>2 DEF OtherStep
  <2>7. QED BY <1>2, <2>1, <2>2, <2>3, <2>4, <2>5, <2>6 DEF Step
<1>3. CASE UNCHANGED vars
  BY <1>b, <1>3 DEF vars, Same, callVars
<1>4. QED BY <1>1, <1>c, <1>2, <1>3 DEF Next

(***************************************************************************)
(* Only get() with has_collision brings a thread to the lock of a victim's *)
(* shard, when it found the shard unused.                                  *)
(***************************************************************************)
LEMMA ToLockVictim ==
    ASSUME TypeOK, NEW t \in Thread, Call(t) \/ Step(t), pc'[t] = "lockVictim"
    PROVE  CountVictim(t)
<1>0. pc \in [Thread -> Label]
  BY DEF TypeOK
<1> USE DEF Goto, callVars
<1>1. CASE Call(t)
  BY <1>0, <1>1 DEF Call, CallCreate, CallGet, CallSave, CallDelete, WriteBlock,
     ReleaseReference
<1>2. CASE SharedStep(t)
  BY <1>0, <1>2 DEF SharedStep, CountShared, LockShared, BackOff, SpinShared, Lookup,
     UnlockShared, ReleaseShared, Return
<1>3. CASE ExclusiveStep(t)
  BY <1>0, <1>3 DEF ExclusiveStep, CountExclusive, Lock, Drain, LookAgain, LoadFile,
     InsertLoaded, Reference, Unlock, Release, Return
<1>4. CASE RoomStep(t)
  BY <1>0, <1>4 DEF RoomStep, MakeRoom, LockVictim, DrainVictim, Examine,
     ReleaseVictim, UnlockVictim, Allocate
<1>5. CASE EvictStep(t)
  BY <1>0, <1>5 DEF EvictStep, SaveBlock, AfterSave, Return, MarkClean, Evict, Deallocate
<1>6. CASE OtherStep(t)
  BY <1>0, <1>6 DEF OtherStep, InsertCreated, Created, Return, CheckLoaded, PolicyEvicted,
     Unlink, PolicyDeleted
<1>7. QED BY <1>1, <1>2, <1>3, <1>4, <1>5, <1>6 DEF Step

(***************************************************************************)
(* A shard whose count is zero is the shard of no block being loaded.      *)
(***************************************************************************)
LEMMA UnusedShard ==
    ASSUME ShardInv, NEW s \in Shard, shardCount[s] <= 0
    PROVE  \A u \in Thread : Loading(u) => TargetShard(u) # s
<1>1. UsesOf(s) = {}
  BY SMTT(30), UsesFinite, FS_EmptySet DEF ShardInv
<1>2. ASSUME NEW u \in Thread, Loading(u), TargetShard(u) = s PROVE FALSE
  <2>1. <<u, "target">> \in UsesOf(s)
    BY <1>2 DEF UsesOf, Uses, UsedShard, Role, CountsTarget, OwnsTarget
  <2>2. QED BY <1>1, <2>1
<1>3. QED BY <1>2

(***************************************************************************)
(* A step keeps the order of the threads that lock shards of victims: the  *)
(* thread that comes last waits for none of those that came before it.     *)
(***************************************************************************)
LEMMA OrderStep ==
    ASSUME TypeOK, ControlInv, ShardInv, OrderInv, [Next]_vars
    PROVE  OrderInv'
<1>0. pc \in [Thread -> Label] /\ shardCount \in [Shard -> Int]
  BY DEF TypeOK
<1>a. ASSUME NEW S \in SUBSET {t \in Thread : pc'[t] = "lockVictim"}, S # {},
             \A u \in S : Same(u)
      PROVE  \E t \in S : \A u \in S : Loading(u)' => TargetShard(u)' # VictimShard(t)'
  <2>1. S \in SUBSET {t \in Thread : pc[t] = "lockVictim"}
    BY <1>a DEF Same
  <2>2. PICK t \in S : \A u \in S : Loading(u) => TargetShard(u) # VictimShard(t)
    BY <1>a, <2>1 DEF OrderInv
  <2>3. QED BY SMTT(30), <1>a, <2>2 DEF Same, Loading, TargetShard, VictimShard
<1>1. CASE UNCHANGED vars
  <2>1. \A u \in Thread : Same(u)
    BY <1>1 DEF vars, Same, callVars
  <2>2. QED BY <1>a, <2>1 DEF OrderInv
<1>c. CASE Restart \/ Crash
  <2>1. \A u \in Thread : pc'[u] # "lockVictim"
    BY <1>c, AfterEnd
  <2>2. QED BY <2>1 DEF OrderInv
<1>2. ASSUME NEW t \in Thread, Call(t) \/ Step(t) PROVE OrderInv'
  <2>a. \A u \in Thread \ {t} : Same(u)
    BY <1>2, Others
  <2> SUFFICES ASSUME NEW S \in SUBSET {u \in Thread : pc'[u] = "lockVictim"}, S # {}
               PROVE  \E v \in S : \A u \in S : Loading(u)' => TargetShard(u)' # VictimShard(v)'
    BY DEF OrderInv
  <2>1. CASE t \notin S
    BY <1>a, <2>a, <2>1
  <2>2. CASE t \in S
    <3>1. CountVictim(t)
      BY <1>2, <2>2, ToLockVictim
    <3>2. VictimShard(t) \in Shard /\ shardCount[VictimShard(t)] <= 0
      <4>1. VictimShard(t) \in Shard
        BY <3>1, StorageAssumption, Arguments DEF CountVictim, HasVictim, VictimShard
      <4>2. QED BY SMTT(30), <1>0, <2>2, <3>1, <4>1 DEF CountVictim, Goto, VictimShard
    <3>3. \A u \in Thread : Loading(u) => TargetShard(u) # VictimShard(t)
      BY <3>2, UnusedShard
    <3>4. /\ \A u \in Thread : TargetShard(u)' = TargetShard(u)
          /\ VictimShard(t)' = VictimShard(t)
      BY <3>1 DEF CountVictim, callVars, TargetShard, VictimShard
    <3>5. \A u \in Thread : Loading(u)' => Loading(u)
      BY <1>0, <3>1 DEF CountVictim, Goto, callVars, Loading, RoomLabel, SharedLabel
    <3>6. \A u \in S : Loading(u)' => TargetShard(u)' # VictimShard(t)'
      BY <3>3, <3>4, <3>5
    <3>7. QED BY <2>2, <3>6
  <2>3. QED BY <2>1, <2>2
<1>3. QED BY <1>1, <1>c, <1>2 DEF Next

(***************************************************************************)
(* No circle of waiting threads: a thread that drains readers waits for    *)
(* none that waits; else one that locks the shard of a victim does not, by *)
(* the order; else no thread of the set has a lock.                        *)
(***************************************************************************)
LEMMA WaitOrdered ==
    ASSUME TypeOK, ControlInv, LockInv, OrderInv
    PROVE  NoCircularWait
<1> SUFFICES ASSUME NEW S \in SUBSET Thread, S # {}
             PROVE  \E t \in S : \A u \in S : ~WaitsFor(t, u)
  BY DEF NoCircularWait
<1> DEFINE Waits(t) == pc[t] \in {"spinShared", "lock", "drain", "lockVictim", "drainVictim"}
<1>a. \A t \in Thread : ControlAt(t)
  BY DEF ControlInv
<1>b. ASSUME NEW u \in Thread, Waits(u)
      PROVE  /\ LockedForGet(u) \subseteq {TargetShard(u)}
             /\ LockedForEviction(u) \subseteq {VictimShard(u)}
             /\ LockedForGet(u) # {} => OwnsTarget(u) /\ (pc[u] = "drain" \/ Loading(u))
             /\ LockedForEviction(u) # {} => OwnsVictim(u) /\ pc[u] = "drainVictim"
  BY <1>b DEF LockedForGet, LockedForEviction, OwnsTarget, OwnsVictim, Loading, RoomLabel,
     TargetShard, VictimShard
<1>1. ASSUME NEW t \in S, ~Waits(t) PROVE \A u \in S : ~WaitsFor(t, u)
  BY <1>1 DEF WaitsFor, WantedShard
<1>2. ASSUME NEW t \in S, \A u \in S : Waits(u), pc[t] = "drain"
      PROVE  \A u \in S : ~WaitsFor(t, u)
  <2> SUFFICES ASSUME NEW u \in S, WaitsFor(t, u) PROVE FALSE
    OBVIOUS
  <2>1. OwnsTarget(t) /\ WantedShard(t) = {TargetShard(t)}
    BY <1>2 DEF OwnsTarget, WantedShard, TargetShard
  <2>2. t # u
    BY <1>2 DEF WaitsFor
  <2>3. QED BY <1>2, <1>b, <2>1, <2>2 DEF WaitsFor, LockInv
<1>3. ASSUME NEW t \in S, \A u \in S : Waits(u), pc[t] = "drainVictim"
      PROVE  \A u \in S : ~WaitsFor(t, u)
  <2> SUFFICES ASSUME NEW u \in S, WaitsFor(t, u) PROVE FALSE
    OBVIOUS
  <2>1. OwnsVictim(t) /\ WantedShard(t) = {VictimShard(t)}
    BY <1>3 DEF OwnsVictim, WantedShard, VictimShard
  <2>2. CASE t # u
    BY <1>3, <1>b, <2>1, <2>2 DEF WaitsFor, LockInv
  <2>3. CASE t = u
    BY <1>3, <1>b, <2>1, <2>3 DEF WaitsFor, LockInv
  <2>4. QED BY <2>2, <2>3
<1>4. ASSUME NEW w \in S, pc[w] = "lockVictim",
             \A u \in S : Waits(u) /\ pc[u] \notin {"drain", "drainVictim"}
      PROVE  \E t \in S : \A u \in S : ~WaitsFor(t, u)
  <2> DEFINE L == {u \in S : pc[u] = "lockVictim"}
  <2>1. L \in SUBSET {u \in Thread : pc[u] = "lockVictim"} /\ L # {}
    BY <1>4
  <2>2. PICK t \in L : \A u \in L : Loading(u) => TargetShard(u) # VictimShard(t)
    BY <2>1 DEF OrderInv
  <2>3. WantedShard(t) = {VictimShard(t)}
    BY <2>2 DEF WantedShard, VictimShard
  <2>4. \A u \in S : ~WaitsFor(t, u)
    <3> SUFFICES ASSUME NEW u \in S, WaitsFor(t, u) PROVE FALSE
      OBVIOUS
    <3>1. Loading(u) /\ TargetShard(u) = VictimShard(t)
      BY <1>4, <1>b, <2>3 DEF WaitsFor
    <3>2. u \in L
      BY <1>4, <3>1, <1>a DEF Loading, RoomLabel, SharedLabel
    <3>3. QED BY <2>2, <3>1, <3>2
  <2>5. QED BY <2>4
<1>5. ASSUME \A u \in S : pc[u] \in {"spinShared", "lock"}
      PROVE  \E t \in S : \A u \in S : ~WaitsFor(t, u)
  <2>1. \A u \in S : LockedForGet(u) \cup LockedForEviction(u) = {}
    BY <1>5 DEF LockedForGet, LockedForEviction
  <2>2. QED BY SMTT(30), <2>1 DEF WaitsFor
<1>6. QED BY <1>1, <1>2, <1>3, <1>4, <1>5

(***************************************************************************)
(* The invariant holds in an empty pool.                                   *)
(***************************************************************************)
LEMMA InitPool == Init => PoolInv /\ SaveInv
<1> SUFFICES ASSUME Init PROVE PoolInv /\ SaveInv
  OBVIOUS
<1>1. TypeOK
  BY SMTT(30), StorageAssumption DEF Init, MutexInit, PolicyInit, TypeOK, MutexType, PolicyType,
     FileState, NoBlock, Label
<1>2. \A t \in Thread : pc[t] = "idle" /\ job[t] = "none" /\ held[t] = {}
  BY DEF Init
<1>3. ControlInv /\ AskInv
  BY <1>2 DEF ControlInv, ControlAt, AskInv, Asks, Loading, GetLabel, RoomLabel, SharedLabel,
     DeleteLabel,
     HasVictim, OwnsVictim, Evicting, Making
<1>4. IdInv /\ FileInv /\ LockInv
  BY <1>2 DEF Init, PolicyInit, IdInv, FileInv, FileIds, LockInv, Making, HasVictim, OwnsVictim, OwnsTarget,
     Evicting,
     Loading
<1>5. \A s \in Shard : ReadersOf(s) = {}
  BY <1>2 DEF ReadersOf, Reads
<1>6. ReaderInv
  BY <1>5, FS_EmptySet DEF Init, MutexInit, ReaderInv
<1>7. \A b \in Block : HoldersOf(b) = {}
  BY <1>2 DEF HoldersOf
<1>8. CountInv
  BY <1>7, FS_EmptySet DEF Init, PolicyInit, CountInv
<1>9. LoadInv /\ SaveInv
  BY <1>2 DEF Init, LoadInv, SaveInv, Loading, Leaving, Evicting
<1>10. Moving = {} /\ blocks = {} /\ usage = 0
  BY <1>2 DEF Init, Moving
<1>11. UsageExact
  BY SMTT(30), <1>10, FS_EmptySet DEF UsageExact, Moving
<1>12. \A s \in Shard : UsesOf(s) = {}
  BY <1>2 DEF UsesOf, Uses, Role, CountsTarget, CountsVictim, OwnsTarget, OwnsVictim, Loading,
     Evicting
<1>13. ShardInv
  BY <1>12, FS_EmptySet DEF Init, ShardInv
<1>14. OrderInv
  BY <1>2 DEF OrderInv
<1>15. QED BY <1>1, <1>3, <1>4, <1>6, <1>8, <1>9, <1>11, <1>13, <1>14 DEF PoolInv

(***************************************************************************)
(* A step keeps the invariant.                                             *)
(***************************************************************************)
LEMMA PoolStep ==
    ASSUME PoolInv, [Next]_vars
    PROVE  PoolInv'
<1>1. /\ TypeOK /\ ControlInv /\ IdInv /\ FileInv /\ LockInv /\ ReaderInv /\ AskInv
      /\ CountInv /\ LoadInv /\ UsageExact /\ ShardInv /\ OrderInv
  BY DEF PoolInv
<1>2. TypeOK' /\ ControlInv' /\ IdInv' /\ FileInv'
  BY <1>1, TypeStep, ControlStep, IdStep, FileStep
<1>3. LockInv' /\ ReaderInv' /\ AskInv'
  BY <1>1, NoReaders, LockStep, ReaderStep, AskStep
<1>4. CountInv' /\ LoadInv' /\ UsageExact'
  BY <1>1, NoHolders, CountStep, LoadStep, MoveStep, UsageStep
<1>5. ShardInv' /\ OrderInv'
  BY <1>1, ShardStep, OrderStep
<1>6. QED BY <1>2, <1>3, <1>4, <1>5 DEF PoolInv

(***************************************************************************)
(* The invariant of the buffer pool holds while processes run, end, crash  *)
(* and start again, whether or not dirty blocks are saved on eviction.     *)
(***************************************************************************)
THEOREM PoolCorrect == Spec => []PoolInv
<1>1. PoolInv /\ [Next]_vars => PoolInv'
  BY PoolStep
<1>2. Init => PoolInv
  BY InitPool
<1>3. QED BY <1>1, <1>2, PTL DEF Spec

(***************************************************************************)
(* The variables of the buffer pool, its locks and its policy keep their   *)
(* types: in particular every shard and block that a step uses exists.     *)
(***************************************************************************)
THEOREM StorageTypeCorrect == Spec => []TypeOK
<1>1. PoolInv => TypeOK
  BY DEF PoolInv
<1>2. QED BY PoolCorrect, <1>1, PTL

(***************************************************************************)
(* A block that a thread has a counted reference to is never evicted by    *)
(* makeRoomForBlockOrBlob() nor deallocated by deleteBlockOrBlobFile().    *)
(***************************************************************************)
THEOREM ReferencedLoaded == Spec => []ReferencedStaysLoaded
<1>1. PoolInv => ReferencedStaysLoaded
  BY DEF PoolInv, LoadInv, ReferencedStaysLoaded
<1>2. QED BY PoolCorrect, <1>1, PTL

(***************************************************************************)
(* The eviction policy counts the references of all threads exactly.       *)
(***************************************************************************)
THEOREM CountsExact == Spec => []ReferencesCounted
<1>1. PoolInv => ReferencesCounted
  BY DEF PoolInv, CountInv, HoldersOf, ReferencesCounted
<1>2. QED BY PoolCorrect, <1>1, PTL

(***************************************************************************)
(* A block id that allocateNewBlockOrBlob() gives out is of no block in    *)
(* use, in memory or in a file, also after a crash or a restart recovered  *)
(* the counter from whatever files there are.                              *)
(***************************************************************************)
THEOREM IdsAreFresh == Spec => []IdsFresh
<1>1. PoolInv => IdsFresh
  <2> SUFFICES ASSUME PoolInv PROVE IdsFresh
    OBVIOUS
  <2>1. \A b \in Existing : b <= blockIndex
    BY DEF PoolInv, IdInv, FileInv, Existing
  <2>2. \A t \in Creating : pc[t] = "insert" => target[t] \notin Existing
    BY DEF PoolInv, ControlInv, ControlAt, IdInv, FileInv, Making, Creating, Existing
  <2>3. QED BY <2>1, <2>2 DEF IdsFresh
<1>2. QED BY PoolCorrect, <1>1, PTL

(***************************************************************************)
(* total_memory_usage_ is the memory of the blocks in the map and of those *)
(* being inserted or deallocated: no interleaving leaks or double frees.   *)
(***************************************************************************)
THEOREM UsageIsExact == Spec => []UsageExact
<1>1. PoolInv => UsageExact
  BY DEF PoolInv
<1>2. QED BY PoolCorrect, <1>1, PTL

(***************************************************************************)
(* Threads that get blocks and threads that evict them never wait for each *)
(* other in a circle, whatever the shards that their blocks hash to.       *)
(***************************************************************************)
THEOREM NeverCircularWait == Spec => []NoCircularWait
<1>1. PoolInv => NoCircularWait
  BY WaitOrdered DEF PoolInv
<1>2. QED BY PoolCorrect, <1>1, PTL

(***************************************************************************)
(* A step spoils only files whose writes may fail.                         *)
(***************************************************************************)
LEMMA SpoiledStep ==
    ASSUME TypeOK, SpoiledInv, [Next]_vars
    PROVE  SpoiledInv'
<1>0. file \in [Block -> FileState]
  BY DEF TypeOK
<1>1. CASE Restart
  BY <1>1 DEF Restart, SpoiledInv
<1>2. CASE Crash
  BY <1>2 DEF Crash, SpoiledInv
<1>3. ASSUME NEW t \in Thread, Call(t) \/ Step(t) PROVE SpoiledInv'
  <2>1. CASE file' = file
    BY <2>1 DEF SpoiledInv
  <2>2. CASE SaveBlock(t)
    BY <1>0, <2>2 DEF SaveBlock, FailedWrite, SpoiledInv
  <2>3. CASE Unlink(t)
    BY <1>0, <2>3 DEF Unlink, SpoiledInv
  <2>4. ASSUME NEW b \in Block, WriteBlock(t, b) PROVE SpoiledInv'
    BY <1>0, <2>4 DEF WriteBlock, SpoiledInv
  <2>5. CASE Allocate(t)
    BY <2>1, <2>5 DEF Allocate
  <2>6. QED BY <1>3, <2>1, <2>2, <2>3, <2>4, <2>5, FileSteps
<1>4. CASE UNCHANGED vars
  BY <1>4 DEF vars, poolVars, SpoiledInv
<1>5. QED BY <1>1, <1>2, <1>3, <1>4 DEF Next

(***************************************************************************)
(* With dirty blocks saved on eviction, a block leaves memory only with    *)
(* all that was written to it in its file, however its eviction overlaps   *)
(* with saves by other threads and whichever writes fail; only a failed    *)
(* write behind another thread's save can spoil the file.                  *)
(***************************************************************************)
THEOREM NothingIsLost ==
    ASSUME ForceSaveDirtyBlocks
    PROVE  Spec => []NothingLost
<1>1. PoolInv /\ SaveInv /\ [Next]_vars => SaveInv'
  BY ForceSaveDirtyBlocks, SaveStep DEF PoolInv
<1>2. PoolInv /\ SpoiledInv /\ [Next]_vars => SpoiledInv'
  BY SpoiledStep DEF PoolInv
<1>3. Init => SaveInv /\ SpoiledInv
  <2>1. Init => SpoiledInv
    BY DEF Init, SpoiledInv
  <2>2. QED BY <2>1, InitPool
<1>4. PoolInv /\ SaveInv /\ SpoiledInv => NothingLost
  BY DEF PoolInv, TypeOK, SaveInv, SpoiledInv, Saved, NothingLost
<1>5. QED BY PoolCorrect, <1>1, <1>2, <1>3, <1>4, PTL DEF Spec

=============================================================================
