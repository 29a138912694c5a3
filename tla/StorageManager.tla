--------------------------- MODULE StorageManager ---------------------------
(***************************************************************************)
(* The buffer pool, storage/StorageManager.cpp: threads create, get, save  *)
(* and delete blocks; a thread that needs memory evicts blocks that nobody *)
(* references. An action is one access to shared memory: a lock word, the  *)
(* counts of the lock manager, the map of blocks, the policy, a file.      *)
(* Every block takes one slot. The contents of a block are abstracted to   *)
(* whether its file holds all that was written to the block.               *)
(***************************************************************************)
EXTENDS SpinSharedMutex, EvictionPolicy, FiniteSets

CONSTANTS Thread,
          MaxBlock,             \* bound on block ids
          MaxMemory,            \* max_memory_usage_, in slots
          ShardOf,              \* hash of a block id: [Block -> Shard]
          ForceSaveDirtyBlocks, \* FLAGS_force_save_dirty_blocks
          FaultyFiles,          \* the blocks a write of whose file may fail
          MaxHeld               \* bound on the references of a thread

ASSUME StorageAssumption ==
    /\ MaxBlock \in Nat
    /\ Block = 1 .. MaxBlock
    /\ MaxMemory \in Nat
    /\ ShardOf \in [Block -> Shard]
    /\ ForceSaveDirtyBlocks \in BOOLEAN
    /\ FaultyFiles \subseteq Block
    /\ MaxHeld \in Nat
    /\ IsFiniteSet(Thread)

VARIABLES shardCount,   \* shard_count_ of the lock manager
          blocks,       \* blocks_: the blocks in memory
          dirty,        \* the blocks in memory marked dirty
          file,         \* what the file of a block holds
          usage,        \* total_memory_usage_
          blockIndex,   \* block_index_
          live,         \* ids that queries know: created and not deleted
          pc,           \* where a thread is
          job,          \* the method it called
          target,       \* the block it called the method for
          victim,       \* the block it evicts or saves
          held          \* the counted references it has

poolVars == <<blocks, dirty, file, usage, blockIndex>>
callVars == <<job, target, victim>>
vars == <<mutexVars, policyVars, shardCount, poolVars, live, pc, callVars, held>>

NoBlock == 0

\* "current": all that was written to the block; "stale": less than that, because
\* the block was written to later or a write of the file failed; "spoiled": a save
\* of all that was written succeeded, and then another one failed.
FileState == {"none", "stale", "spoiled", "current"}

\* The blocks all of whose contents were saved, as far as the code can tell.
Saved(f) == {b \in Block : f[b] \in {"current", "spoiled"}}

FileIds(f) == {b \in Block : f[b] # "none"}

Label == {"idle", "countShared", "lockShared", "backOff", "spinShared", "lookup",
          "unlockShared", "releaseShared", "countExclusive", "lock", "drain",
          "lookAgain", "room", "countVictim", "lockVictim", "drainVictim", "examine",
          "save", "markClean", "evict", "deallocate", "releaseVictim", "unlockVictim",
          "allocate", "insert", "reference", "unlock", "release", "created",
          "checkLoaded", "policyEvicted", "unlink", "policyDeleted",
          "notFoundInMemory", "noFile"}

Failed == {"notFoundInMemory", "noFile"}

(***************************************************************************)
(* Type correctness of the buffer pool, its locks and its policy.          *)
(***************************************************************************)
TypeOK ==
    /\ MutexType
    /\ PolicyType
    /\ shardCount \in [Shard -> Int]
    /\ blocks \in SUBSET Block
    /\ dirty \in SUBSET Block
    /\ file \in [Block -> FileState]
    /\ usage \in Int
    /\ blockIndex \in Block \cup {NoBlock}
    /\ live \in SUBSET Block
    /\ pc \in [Thread -> Label]
    /\ job \in [Thread -> {"none", "create", "get", "save", "delete"}]
    /\ target \in [Thread -> Block \cup {NoBlock}]
    /\ victim \in [Thread -> Block \cup {NoBlock}]
    /\ held \in [Thread -> SUBSET Block]

Init ==
    /\ MutexInit
    /\ PolicyInit
    /\ shardCount = [s \in Shard |-> 0]
    /\ blocks = {}
    /\ dirty = {}
    /\ file = [b \in Block |-> "none"]
    /\ usage = 0
    /\ blockIndex = 0
    /\ live = {}
    /\ pc = [t \in Thread |-> "idle"]
    /\ job = [t \in Thread |-> "none"]
    /\ target = [t \in Thread |-> NoBlock]
    /\ victim = [t \in Thread |-> NoBlock]
    /\ held = [t \in Thread |-> {}]

-----------------------------------------------------------------------------

Goto(t, l) == pc' = [pc EXCEPT ![t] = l]

Return(t) ==
    /\ Goto(t, "idle")
    /\ job' = [job EXCEPT ![t] = "none"]
    /\ target' = [target EXCEPT ![t] = NoBlock]
    /\ victim' = [victim EXCEPT ![t] = NoBlock]

\* lock_manager_.get(): announces the use of a shard before its lock is taken.
CountShard(s) == shardCount' = [shardCount EXCEPT ![s] = @ + 1]

\* lock_manager_.release()
ReleaseShard(s) == shardCount' = [shardCount EXCEPT ![s] = @ - 1]

\* A thread in saveBlockOrBlob() holds blocks_shared_mutex_ in shared mode over
\* the write of the file, which keeps others from changing the map.
MapUnlocked == \A t \in Thread : pc[t] # "markClean"

(***************************************************************************)
(* Calls. A query gets, saves and deletes blocks that it knows; it deletes *)
(* a block when nothing else uses it any more.                             *)
(***************************************************************************)
Creating == {t \in Thread : job[t] = "create"}

CallCreate(t) ==
    /\ pc[t] = "idle"
    /\ blockIndex + Cardinality({u \in Creating : target[u] = NoBlock}) < MaxBlock
    /\ job' = [job EXCEPT ![t] = "create"]
    /\ Goto(t, "room")
    /\ UNCHANGED <<mutexVars, policyVars, shardCount, poolVars, live, target, victim, held>>

CallGet(t, b) ==
    /\ pc[t] = "idle"
    /\ b \in live \ held[t]
    /\ Cardinality(held[t]) < MaxHeld
    /\ job' = [job EXCEPT ![t] = "get"]
    /\ target' = [target EXCEPT ![t] = b]
    /\ Goto(t, "countShared")
    /\ UNCHANGED <<mutexVars, policyVars, shardCount, poolVars, live, victim, held>>

\* SaveBlocksWorkOrder::execute(), which no plan creates with force.
CallSave(t, b) ==
    /\ pc[t] = "idle"
    /\ b \in live
    /\ job' = [job EXCEPT ![t] = "save"]
    /\ victim' = [victim EXCEPT ![t] = b]
    /\ Goto(t, "save")
    /\ UNCHANGED <<mutexVars, policyVars, shardCount, poolVars, live, target, held>>

Unused(b) ==
    \A t \in Thread :
        /\ b \notin held[t]
        /\ job[t] = "get" => target[t] # b
        /\ job[t] = "save" => victim[t] # b

CallDelete(t, b) ==
    /\ pc[t] = "idle"
    /\ b \in live
    /\ Unused(b)
    /\ live' = live \ {b}
    /\ job' = [job EXCEPT ![t] = "delete"]
    /\ target' = [target EXCEPT ![t] = b]
    /\ Goto(t, "checkLoaded")
    /\ UNCHANGED <<mutexVars, policyVars, shardCount, poolVars, victim, held>>

\* A thread inserts into a block it has a reference to. No thread saves the
\* block then: SaveBlocksOperator is fed blocks whose producers are done.
WriteBlock(t, b) ==
    /\ pc[t] = "idle"
    /\ b \in held[t]
    /\ \A u \in Thread : job[u] = "save" => victim[u] # b
    /\ dirty' = dirty \cup {b}
    /\ file' = [file EXCEPT ![b] = IF @ = "none" THEN "none" ELSE "stale"]
    /\ UNCHANGED <<mutexVars, policyVars, shardCount, blocks, usage, blockIndex, live, pc,
                   callVars, held>>

\* ~CountedReference()
ReleaseReference(t, b) ==
    /\ pc[t] = "idle"
    /\ b \in held[t]
    /\ held' = [held EXCEPT ![t] = @ \ {b}]
    /\ blockUnreferenced(b)
    /\ UNCHANGED <<mutexVars, shardCount, poolVars, live, pc, callVars>>

-----------------------------------------------------------------------------
(***************************************************************************)
(* getBlockInternal(), getBlobInternal(): first with the shard locked in   *)
(* shared mode.                                                            *)
(***************************************************************************)
CountShared(t) ==
    /\ pc[t] = "countShared"
    /\ CountShard(ShardOf[target[t]])
    /\ Goto(t, "lockShared")
    /\ UNCHANGED <<mutexVars, policyVars, poolVars, live, callVars, held>>

LockShared(t) ==
    /\ pc[t] = "lockShared"
    /\ AddReader(ShardOf[target[t]])
    /\ Goto(t, IF writeBit[ShardOf[target[t]]] THEN "backOff" ELSE "lookup")
    /\ UNCHANGED <<policyVars, shardCount, poolVars, live, callVars, held>>

BackOff(t) ==
    /\ pc[t] = "backOff"
    /\ RemoveReader(ShardOf[target[t]])
    /\ Goto(t, "spinShared")
    /\ UNCHANGED <<policyVars, shardCount, poolVars, live, callVars, held>>

SpinShared(t) ==
    /\ pc[t] = "spinShared"
    /\ ~writeBit[ShardOf[target[t]]]
    /\ Goto(t, "lockShared")
    /\ UNCHANGED <<mutexVars, policyVars, shardCount, poolVars, live, callVars, held>>

\* The constructor of CountedReference.
Refer(t) ==
    /\ held' = [held EXCEPT ![t] = @ \cup {target[t]}]
    /\ blockReferenced(target[t])

\* The lookup and the new reference are under blocks_shared_mutex_.
Lookup(t) ==
    /\ pc[t] = "lookup"
    /\ IF target[t] \in blocks THEN Refer(t) ELSE UNCHANGED <<policyVars, held>>
    /\ Goto(t, "unlockShared")
    /\ UNCHANGED <<mutexVars, shardCount, poolVars, live, callVars>>

UnlockShared(t) ==
    /\ pc[t] = "unlockShared"
    /\ RemoveReader(ShardOf[target[t]])
    /\ Goto(t, "releaseShared")
    /\ UNCHANGED <<policyVars, shardCount, poolVars, live, callVars, held>>

ReleaseShared(t) ==
    /\ pc[t] = "releaseShared"
    /\ ReleaseShard(ShardOf[target[t]])
    /\ IF target[t] \in held[t]
       THEN Return(t)
       ELSE Goto(t, "countExclusive") /\ UNCHANGED callVars
    /\ UNCHANGED <<mutexVars, policyVars, poolVars, live, held>>

\* Then, when the block was not there, with the shard locked exclusively.
CountExclusive(t) ==
    /\ pc[t] = "countExclusive"
    /\ CountShard(ShardOf[target[t]])
    /\ Goto(t, "lock")
    /\ UNCHANGED <<mutexVars, policyVars, poolVars, live, callVars, held>>

Lock(t) ==
    /\ pc[t] = "lock"
    /\ SetWriteBit(ShardOf[target[t]])
    /\ Goto(t, "drain")
    /\ UNCHANGED <<policyVars, shardCount, poolVars, live, callVars, held>>

Drain(t) ==
    /\ pc[t] = "drain"
    /\ Drained(ShardOf[target[t]])
    /\ Goto(t, "lookAgain")
    /\ UNCHANGED <<policyVars, shardCount, poolVars, live, callVars, held>>

\* loadBlockOrBlob() starts with the size of the file and ends the process when
\* it is zero; numSlots() throws when it is not a number of slots.
LoadFile(t) ==
    \/ file[target[t]] \in {"none", "spoiled"} /\ Goto(t, "noFile")
    \/ file[target[t]] # "none" /\ Goto(t, "room")

\* Mutant: the block is loaded without a second lookup.
LoadAnyway(t) ==
    /\ pc[t] = "lookAgain"
    /\ LoadFile(t)
    /\ UNCHANGED <<mutexVars, policyVars, shardCount, poolVars, live, callVars, held>>

\* The second lookup.
LookAgain(t) ==
    /\ pc[t] = "lookAgain"
    /\ IF target[t] \in blocks
       THEN Refer(t) /\ Goto(t, "unlock")
       ELSE LoadFile(t) /\ UNCHANGED <<policyVars, held>>
    /\ UNCHANGED <<mutexVars, shardCount, poolVars, live, callVars>>

\* insertBlockHandleAfterLoad(). A block read from its file is clean.
InsertLoaded(t) ==
    /\ pc[t] = "insert"
    /\ job[t] = "get"
    /\ MapUnlocked
    /\ blocks' = blocks \cup {target[t]}
    /\ dirty' = dirty \ {target[t]}
    /\ Goto(t, "reference")
    /\ UNCHANGED <<mutexVars, policyVars, shardCount, file, usage, blockIndex, live,
                   callVars, held>>

\* Mutant: the policy is not told.
ReferenceUncounted(t) ==
    /\ pc[t] = "reference"
    /\ held' = [held EXCEPT ![t] = @ \cup {target[t]}]
    /\ Goto(t, "unlock")
    /\ UNCHANGED <<mutexVars, policyVars, shardCount, poolVars, live, callVars>>

Reference(t) ==
    /\ pc[t] = "reference"
    /\ Refer(t)
    /\ Goto(t, "unlock")
    /\ UNCHANGED <<mutexVars, shardCount, poolVars, live, callVars>>

Unlock(t) ==
    /\ pc[t] = "unlock"
    /\ unlock(ShardOf[target[t]])
    /\ Goto(t, "release")
    /\ UNCHANGED <<policyVars, shardCount, poolVars, live, callVars, held>>

Release(t) ==
    /\ pc[t] = "release"
    /\ ReleaseShard(ShardOf[target[t]])
    /\ Return(t)
    /\ UNCHANGED <<mutexVars, policyVars, poolVars, live, held>>

-----------------------------------------------------------------------------
(***************************************************************************)
(* makeRoomForBlockOrBlob()                                                *)
(***************************************************************************)
\* Either there is room, or the policy has no candidate and the limit is
\* exceeded, or a candidate is taken out of the policy.
MakeRoom(t) ==
    /\ pc[t] = "room"
    /\ IF usage + 1 > MaxMemory /\ Evictable # {}
       THEN \E b \in Evictable :
                /\ chooseBlockToEvict(b)
                /\ victim' = [victim EXCEPT ![t] = b]
                /\ Goto(t, "countVictim")
       ELSE Goto(t, "allocate") /\ UNCHANGED <<policyVars, victim>>
    /\ UNCHANGED <<mutexVars, shardCount, poolVars, live, job, target, held>>

\* Mutant: a shard in use is locked all the same.
CountVictimAlways(t) ==
    /\ pc[t] = "countVictim"
    /\ Goto(t, "lockVictim")
    /\ CountShard(ShardOf[victim[t]])
    /\ UNCHANGED <<mutexVars, policyVars, poolVars, live, callVars, held>>

\* get() with has_collision: a shard in use is left alone and the loop ends.
CountVictim(t) ==
    /\ pc[t] = "countVictim"
    /\ IF shardCount[ShardOf[victim[t]]] > 0
       THEN Goto(t, "allocate") /\ UNCHANGED shardCount
       ELSE Goto(t, "lockVictim") /\ CountShard(ShardOf[victim[t]])
    /\ UNCHANGED <<mutexVars, policyVars, poolVars, live, callVars, held>>

LockVictim(t) ==
    /\ pc[t] = "lockVictim"
    /\ SetWriteBit(ShardOf[victim[t]])
    /\ Goto(t, "drainVictim")
    /\ UNCHANGED <<policyVars, shardCount, poolVars, live, callVars, held>>

DrainVictim(t) ==
    /\ pc[t] = "drainVictim"
    /\ Drained(ShardOf[victim[t]])
    /\ Goto(t, "examine")
    /\ UNCHANGED <<policyVars, shardCount, poolVars, live, callVars, held>>

\* Mutant: the reference count is not looked at.
ExamineMap(t) ==
    /\ pc[t] = "examine"
    /\ Goto(t, IF victim[t] \in blocks THEN "save" ELSE "releaseVictim")
    /\ UNCHANGED <<mutexVars, policyVars, shardCount, poolVars, live, callVars, held>>

\* Another thread may have evicted or referenced the candidate meanwhile.
Examine(t) ==
    /\ pc[t] = "examine"
    /\ Goto(t, IF victim[t] \in blocks /\ refCount[victim[t]] = 0
               THEN "save" ELSE "releaseVictim")
    /\ UNCHANGED <<mutexVars, policyVars, shardCount, poolVars, live, callVars, held>>

\* Mutant: a block that could not be saved is evicted all the same.
AfterAnySave(t, saved) ==
    IF job[t] = "save" THEN Return(t) ELSE Goto(t, "evict") /\ UNCHANGED callVars

\* Where a thread goes when saveBlockOrBlob() returned true or false.
AfterSave(t, saved) ==
    IF job[t] = "save"
    THEN Return(t)
    ELSE Goto(t, IF saved THEN "evict" ELSE "releaseVictim") /\ UNCHANGED callVars

\* The files after a write that fails: the file of b could not be opened, or it was
\* truncated. It held all of b if another thread has just saved b as well.
FailedWrite(b) ==
    {file, [file EXCEPT ![b] = IF b \in Saved(file) THEN "spoiled" ELSE "stale"]}

\* saveBlockOrBlob() without force writes only blocks that it finds dirty.
NeedsWrite(b) == b \in blocks /\ ForceSaveDirtyBlocks /\ b \in dirty

\* The write of the file succeeds or fails. Nobody reads the file before the map is
\* unlocked, so that overlapping writes may be taken one after the other.
SaveBlock(t) ==
    /\ pc[t] = "save"
    /\ \/ /\ NeedsWrite(victim[t])
          /\ \/ /\ file' = [file EXCEPT ![victim[t]] = "current"]
                /\ Goto(t, "markClean")
                /\ UNCHANGED callVars
             \/ /\ victim[t] \in FaultyFiles
                /\ file' \in FailedWrite(victim[t])
                /\ AfterSave(t, FALSE)
       \/ /\ ~NeedsWrite(victim[t])
          /\ AfterSave(t, victim[t] \in blocks)
          /\ UNCHANGED file
    /\ UNCHANGED <<mutexVars, policyVars, shardCount, blocks, dirty, usage, blockIndex, live,
                   held>>

MarkClean(t) ==
    /\ pc[t] = "markClean"
    /\ dirty' = dirty \ {victim[t]}
    /\ AfterSave(t, TRUE)
    /\ UNCHANGED <<mutexVars, policyVars, shardCount, blocks, file, usage, blockIndex, live,
                   held>>

\* evictBlockOrBlob(), called to make room or to delete a block, throws when
\* the block is no longer there; otherwise it takes the block out of the map.
Evicted(t) == IF job[t] = "delete" THEN target[t] ELSE victim[t]

Evict(t) ==
    /\ pc[t] = "evict"
    /\ MapUnlocked
    /\ IF Evicted(t) \in blocks
       THEN /\ blocks' = blocks \ {Evicted(t)}
            /\ dirty' = dirty \ {Evicted(t)}
            /\ Goto(t, "deallocate")
       ELSE Goto(t, "notFoundInMemory") /\ UNCHANGED <<blocks, dirty>>
    /\ UNCHANGED <<mutexVars, policyVars, shardCount, file, usage, blockIndex, live,
                   callVars, held>>

Deallocate(t) ==
    /\ pc[t] = "deallocate"
    /\ usage' = usage - 1
    /\ Goto(t, IF job[t] = "delete" THEN "policyEvicted" ELSE "releaseVictim")
    /\ UNCHANGED <<mutexVars, policyVars, shardCount, blocks, dirty, file, blockIndex, live,
                   callVars, held>>

\* The shard is released before its lock.
ReleaseVictim(t) ==
    /\ pc[t] = "releaseVictim"
    /\ ReleaseShard(ShardOf[victim[t]])
    /\ Goto(t, "unlockVictim")
    /\ UNCHANGED <<mutexVars, policyVars, poolVars, live, callVars, held>>

UnlockVictim(t) ==
    /\ pc[t] = "unlockVictim"
    /\ unlock(ShardOf[victim[t]])
    /\ Goto(t, "room")
    /\ UNCHANGED <<policyVars, shardCount, poolVars, live, callVars, held>>

\* Mutant: the id is the counter before it is incremented.
AllocatePostIncrement(t) ==
    /\ pc[t] = "allocate"
    /\ usage' = usage + 1
    /\ victim' = [victim EXCEPT ![t] = NoBlock]
    /\ IF job[t] = "create"
       THEN /\ blockIndex' = blockIndex + 1
            /\ target' = [target EXCEPT ![t] = blockIndex]
       ELSE UNCHANGED <<blockIndex, target>>
    /\ Goto(t, "insert")
    /\ UNCHANGED <<mutexVars, policyVars, shardCount, blocks, dirty, file, live, job, held>>

\* allocateSlots() and, for a new block, the next id.
Allocate(t) ==
    /\ pc[t] = "allocate"
    /\ usage' = usage + 1
    /\ victim' = [victim EXCEPT ![t] = NoBlock]
    /\ IF job[t] = "create"
       THEN /\ blockIndex < MaxBlock
            /\ blockIndex' = blockIndex + 1
            /\ target' = [target EXCEPT ![t] = blockIndex + 1]
       ELSE UNCHANGED <<blockIndex, target>>
    /\ Goto(t, "insert")
    /\ UNCHANGED <<mutexVars, policyVars, shardCount, blocks, dirty, file, live, job, held>>

-----------------------------------------------------------------------------
(***************************************************************************)
(* createBlock(), createBlob(): a new block is dirty, has no file, and is  *)
(* known to the policy before anyone references it.                        *)
(***************************************************************************)

InsertCreated(t) ==
    /\ pc[t] = "insert"
    /\ job[t] = "create"
    /\ MapUnlocked
    /\ blocks' = blocks \cup {target[t]}
    /\ dirty' = dirty \cup {target[t]}
    /\ Goto(t, "created")
    /\ UNCHANGED <<mutexVars, policyVars, shardCount, file, usage, blockIndex, live,
                   callVars, held>>

Created(t) ==
    /\ pc[t] = "created"
    /\ blockCreated(target[t])
    /\ live' = live \cup {target[t]}
    /\ Return(t)
    /\ UNCHANGED <<mutexVars, shardCount, poolVars, held>>

(***************************************************************************)
(* deleteBlockOrBlobFile(), which takes no shard lock.                     *)
(***************************************************************************)
CheckLoaded(t) ==
    /\ pc[t] = "checkLoaded"
    /\ Goto(t, IF target[t] \in blocks THEN "evict" ELSE "unlink")
    /\ UNCHANGED <<mutexVars, policyVars, shardCount, poolVars, live, callVars, held>>

PolicyEvicted(t) ==
    /\ pc[t] = "policyEvicted"
    /\ blockEvicted(target[t])
    /\ Goto(t, "unlink")
    /\ UNCHANGED <<mutexVars, shardCount, poolVars, live, callVars, held>>

Unlink(t) ==
    /\ pc[t] = "unlink"
    /\ file' = [file EXCEPT ![target[t]] = "none"]
    /\ Goto(t, "policyDeleted")
    /\ UNCHANGED <<mutexVars, policyVars, shardCount, blocks, dirty, usage, blockIndex, live,
                   callVars, held>>

PolicyDeleted(t) ==
    /\ pc[t] = "policyDeleted"
    /\ blockDeleted(target[t])
    /\ Return(t)
    /\ UNCHANGED <<mutexVars, shardCount, poolVars, live, held>>

(***************************************************************************)
(* The process ends and starts again: the constructor continues after the  *)
(* largest block id that has a file. What was not saved is lost, and the   *)
(* model does not follow queries that still name it.                       *)
(***************************************************************************)
\* Mutant: the number of files.
NumberOfFiles(f) == {Cardinality(FileIds(f))}

\* The set of the one value that the method returns.
getMaxUsedBlockCounter(f) == {n \in FileIds(f) \cup {0} : \A b \in FileIds(f) : b <= n}

EmptyPool ==
    /\ blocks' = {}
    /\ dirty' = {}
    /\ usage' = 0
    /\ blockIndex' \in getMaxUsedBlockCounter(file')
    /\ refCount' = [b \in Block |-> 0]
    /\ inMemory' = [b \in Block |-> FALSE]
    /\ nonreferenced' = {}

\* The program ends with no reference left. The destructor saves all dirty blocks
\* with force and does not look at whether it could.
Restart ==
    /\ \A t \in Thread : pc[t] = "idle" /\ held[t] = {}
    /\ \E unopened, torn \in SUBSET (blocks \cap dirty \cap FaultyFiles) :
           file' = [b \in Block |-> IF b \in torn THEN "stale"
                                   ELSE IF b \in (blocks \cap dirty) \ unopened THEN "current"
                                   ELSE file[b]]
    /\ live' = live \cap Saved(file')
    /\ EmptyPool
    /\ UNCHANGED <<mutexVars, shardCount, pc, callVars, held>>

\* The process is killed, or an exception or a fatal error of a thread ends it.
\* The catalog that is read at the next start names some of the blocks on disk.
Crash ==
    /\ UNCHANGED file
    /\ live' \in SUBSET Saved(file)
    /\ EmptyPool
    /\ writeBit' = [s \in Shard |-> FALSE]
    /\ readers' = [s \in Shard |-> 0]
    /\ shardCount' = [s \in Shard |-> 0]
    /\ pc' = [t \in Thread |-> "idle"]
    /\ job' = [t \in Thread |-> "none"]
    /\ target' = [t \in Thread |-> NoBlock]
    /\ victim' = [t \in Thread |-> NoBlock]
    /\ held' = [t \in Thread |-> {}]

-----------------------------------------------------------------------------
Call(t) ==
    \/ CallCreate(t)
    \/ \E b \in Block : CallGet(t, b) \/ CallSave(t, b) \/ CallDelete(t, b)
    \/ \E b \in Block : WriteBlock(t, b) \/ ReleaseReference(t, b)

SharedStep(t) ==
    \/ CountShared(t) \/ LockShared(t) \/ BackOff(t) \/ SpinShared(t) \/ Lookup(t)
    \/ UnlockShared(t) \/ ReleaseShared(t)

ExclusiveStep(t) ==
    \/ CountExclusive(t) \/ Lock(t) \/ Drain(t) \/ LookAgain(t) \/ InsertLoaded(t)
    \/ Reference(t) \/ Unlock(t) \/ Release(t)

RoomStep(t) ==
    \/ MakeRoom(t) \/ CountVictim(t) \/ LockVictim(t) \/ DrainVictim(t) \/ Examine(t)
    \/ ReleaseVictim(t) \/ UnlockVictim(t) \/ Allocate(t)

EvictStep(t) == SaveBlock(t) \/ MarkClean(t) \/ Evict(t) \/ Deallocate(t)

OtherStep(t) ==
    \/ InsertCreated(t) \/ Created(t) \/ CheckLoaded(t) \/ PolicyEvicted(t) \/ Unlink(t)
    \/ PolicyDeleted(t)

\* After an exception or a fatal error of a thread the others do not go on.
Running == \A t \in Thread : pc[t] \notin Failed

Step(t) ==
    SharedStep(t) \/ ExclusiveStep(t) \/ RoomStep(t) \/ EvictStep(t) \/ OtherStep(t)

Next ==
    \/ Running /\ (Restart \/ \E t \in Thread : Call(t) \/ Step(t))
    \/ Crash

Spec == Init /\ [][Next]_vars

-----------------------------------------------------------------------------
(***************************************************************************)
(* A thread never has a reference to a block that was evicted: getting a   *)
(* block and evicting it exclude each other by the lock of its shard, and  *)
(* an eviction looks at the reference count under that lock.               *)
(***************************************************************************)
ReferencedStaysLoaded == \A t \in Thread : held[t] \subseteq blocks

(***************************************************************************)
(* The policy's reference count of a block is the number of references     *)
(* that threads have to it, whichever way they got them.                   *)
(***************************************************************************)
ReferencesCounted ==
    \A b \in Block : refCount[b] = Cardinality({t \in Thread : b \in held[t]})

(***************************************************************************)
(* Nothing written is lost on eviction: a block that queries know is in    *)
(* memory, or its file holds all that was written to it, while threads     *)
(* load, evict and save it, saves fail and the process starts again. A     *)
(* failed save leaves the block in memory, dirty, and is made good for     *)
(* before the block is evicted. The exception is a block that two threads  *)
(* save at once: saveBlockOrBlob() lets a write that fails truncate what   *)
(* the other thread's write has just put there.                            *)
(***************************************************************************)
NothingLost ==
    \A b \in live \ blocks :
        file[b] = "current" \/ (b \in FaultyFiles /\ file[b] = "spoiled")

(***************************************************************************)
(* The memory in use is counted exactly: blocks in the map, and memory of  *)
(* blocks on their way into the map or out of it.                          *)
(***************************************************************************)
UsageExact ==
    usage = Cardinality(blocks)
          + Cardinality({t \in Thread : pc[t] \in {"insert", "deallocate"}})

(***************************************************************************)
(* A new block never gets the id of one that is in memory or has a file,   *)
(* whole or torn, be it known to queries or not: across crashes, restarts  *)
(* and creations by several threads.                                       *)
(***************************************************************************)
Existing == live \cup blocks \cup FileIds(file)

IdsFresh ==
    /\ \A b \in Existing : b <= blockIndex
    /\ \A t \in Creating : target[t] # NoBlock /\ pc[t] = "insert"
                           => target[t] \notin Existing

(***************************************************************************)
(* The locks of shards never make threads wait for each other in a circle, *)
(* nor a thread for itself, though a thread that loads a block keeps its   *)
(* shard locked while it locks those of the blocks it evicts.              *)
(***************************************************************************)
WantedShard(t) ==
    IF pc[t] \in {"spinShared", "lock", "drain"} THEN {ShardOf[target[t]]}
    ELSE IF pc[t] \in {"lockVictim", "drainVictim"} THEN {ShardOf[victim[t]]} ELSE {}

\* The shards whose lock, or pending write bit, a thread has.
LockedForGet(t) ==
    IF \/ pc[t] \in {"lookup", "unlockShared", "drain", "lookAgain", "reference", "unlock"}
       \/ job[t] = "get" /\ pc[t] \in {"room", "countVictim", "lockVictim", "drainVictim",
                                       "examine", "save", "markClean", "evict", "deallocate",
                                       "releaseVictim", "unlockVictim", "allocate", "insert"}
    THEN {ShardOf[target[t]]} ELSE {}

LockedForEviction(t) ==
    IF \/ pc[t] \in {"drainVictim", "examine", "releaseVictim", "unlockVictim"}
       \/ job[t] \in {"create", "get"} /\ pc[t] \in {"save", "markClean", "evict", "deallocate"}
    THEN {ShardOf[victim[t]]} ELSE {}

\* t cannot go on before u does.
WaitsFor(t, u) ==
    /\ WantedShard(t) \cap (LockedForGet(u) \cup LockedForEviction(u)) # {}
    /\ t = u => WantedShard(t) \cap LockedForGet(t) # {} /\ pc[t] # "drain"

NoCircularWait ==
    \A S \in (SUBSET Thread) \ {{}} : \E t \in S : \A u \in S : ~WaitsFor(t, u)

(***************************************************************************)
(* A thread that makes room and lost the race to evict a block leaves it   *)
(* at that: it does not fail because the block is gone.                    *)
(***************************************************************************)
RaceTolerated == \A t \in Thread : job[t] # "delete" => pc[t] # "notFoundInMemory"

=============================================================================
