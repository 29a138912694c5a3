---------------------------- MODULE StoragePool ----------------------------
(***************************************************************************)
(* The inductive invariant of StorageManager: PoolInv and, when dirty      *)
(* blocks are saved on eviction, SaveInv and SpoiledInv. The proofs are in *)
(* StorageLockProofs and StorageManagerProofs.                             *)
(***************************************************************************)
EXTENDS StorageManager

-----------------------------------------------------------------------------
(***************************************************************************)
(* Where threads are.                                                      *)
(***************************************************************************)
GetLabel == {"countShared", "lockShared", "backOff", "spinShared", "lookup",
             "unlockShared", "releaseShared", "countExclusive", "lock", "drain",
             "lookAgain", "reference", "unlock", "release", "noFile"}

\* Labels of makeRoomForBlockOrBlob() and its callers that only they have.
RoomLabel == {"room", "countVictim", "lockVictim", "drainVictim", "examine",
              "releaseVictim", "unlockVictim", "allocate", "insert"}

\* Labels shared with saveBlockOrBlob() or deleteBlockOrBlobFile().
SharedLabel == {"save", "markClean", "evict", "deallocate", "notFoundInMemory"}

DeleteLabel == {"checkLoaded", "policyEvicted", "unlink", "policyDeleted"}

\* The new block of t has an id, and queries do not know it yet.
Making(t) == pc[t] = "created" \/ (pc[t] = "insert" /\ job[t] = "create")

\* t loads its block: it is not in the map.
Loading(t) == job[t] = "get" /\ (pc[t] \in RoomLabel \/ pc[t] \in SharedLabel)

\* t has the write bit of the shard of the block it gets.
OwnsTarget(t) == pc[t] \in {"drain", "lookAgain", "reference", "unlock"} \/ Loading(t)

\* t evicts its victim.
Evicting(t) == pc[t] \in SharedLabel /\ job[t] \in {"create", "get"}

\* t has not taken it out of the map yet.
Leaving(t) == Evicting(t) /\ pc[t] \in {"save", "markClean", "evict"}

\* t has the write bit of the shard of its victim.
OwnsVictim(t) ==
    pc[t] \in {"drainVictim", "examine", "releaseVictim", "unlockVictim"} \/ Evicting(t)

HasVictim(t) == pc[t] \in {"countVictim", "lockVictim"} \/ OwnsVictim(t)

\* t is counted as a reader of the shard of the block it gets.
Reads(t) == pc[t] \in {"backOff", "lookup", "unlockShared"}

TargetShard(t) == ShardOf[target[t]]
VictimShard(t) == ShardOf[victim[t]]

ReadersOf(s) == {t \in Thread : Reads(t) /\ TargetShard(t) = s}
HoldersOf(b) == {t \in Thread : b \in held[t]}

(***************************************************************************)
(* The inductive invariant.                                                *)
(***************************************************************************)
\* Which method a thread is in, and what is known of its arguments.
ControlAt(t) ==
    /\ pc[t] = "idle" => job[t] = "none"
    /\ pc[t] \in GetLabel => job[t] = "get"
    /\ pc[t] \in RoomLabel => job[t] \in {"create", "get"}
    /\ pc[t] = "created" => job[t] = "create"
    /\ pc[t] \in {"save", "markClean"} => job[t] \in {"create", "get", "save"}
    /\ pc[t] \in SharedLabel \ {"save", "markClean"} => job[t] \in {"create", "get", "delete"}
    /\ pc[t] \in DeleteLabel => job[t] = "delete"
    /\ job[t] = "get" => target[t] \in live
    /\ job[t] = "save" => victim[t] \in live
    /\ job[t] = "delete" => target[t] \in Block \ live
    /\ HasVictim(t) => victim[t] \in Block
    /\ Making(t) => target[t] \in Block \ live

ControlInv == \A t \in Thread : ControlAt(t)

\* Ids given out are below the counter; a block that is being made or deleted
\* belongs to one thread, and the policy does not know a block being made.
IdInv ==
    /\ \A b \in live \cup blocks \cup nonreferenced : b <= blockIndex
    /\ \A t \in Thread :
        /\ job[t] = "delete" \/ Making(t) => target[t] <= blockIndex
        /\ HasVictim(t) => victim[t] <= blockIndex
        /\ Making(t) => target[t] \notin nonreferenced
        /\ Making(t) /\ pc[t] = "insert" => target[t] \notin blocks
    /\ \A t, u \in Thread :
        /\ Making(t) /\ HasVictim(u) => target[t] # victim[u]
        /\ Making(t) /\ t # u /\ (job[u] = "delete" \/ Making(u)) => target[t] # target[u]

\* No block has a file before it has an id.
FileInv ==
    /\ \A b \in FileIds(file) : b <= blockIndex
    /\ \A t \in Thread : Making(t) /\ pc[t] = "insert" => target[t] \notin FileIds(file)

\* Write bits have owners, one each, and exclude readers once readers drained.
LockInv ==
    /\ \A t \in Thread :
        /\ OwnsTarget(t) => writeBit[TargetShard(t)]
        /\ OwnsVictim(t) => writeBit[VictimShard(t)]
    /\ \A t, u \in Thread :
        /\ t # u /\ OwnsTarget(t) /\ OwnsTarget(u) => TargetShard(t) # TargetShard(u)
        /\ t # u /\ OwnsVictim(t) /\ OwnsVictim(u) => VictimShard(t) # VictimShard(u)
        /\ OwnsTarget(t) /\ OwnsVictim(u) => TargetShard(t) # VictimShard(u)
        /\ pc[t] = "lookup" /\ OwnsTarget(u) /\ pc[u] # "drain"
               => TargetShard(t) # TargetShard(u)
        /\ pc[t] = "lookup" /\ OwnsVictim(u) /\ pc[u] # "drainVictim"
               => TargetShard(t) # VictimShard(u)

ReaderInv == \A s \in Shard : readers[s] = Cardinality(ReadersOf(s))

\* A thread that is getting a block does not have a reference to it yet.
Asks(t) ==
    \/ pc[t] \in {"countShared", "lockShared", "backOff", "spinShared", "lookup",
                  "countExclusive", "lock", "drain", "lookAgain", "reference"}
    \/ Loading(t)

AskInv == \A t \in Thread : Asks(t) => target[t] \notin held[t]

CountInv == \A b \in Block : refCount[b] = Cardinality(HoldersOf(b))

\* References are to blocks in the map; a victim past its examination has none.
LoadInv ==
    /\ \A t \in Thread :
        /\ held[t] \subseteq blocks \cap live
        /\ Loading(t) => target[t] \notin blocks
        /\ pc[t] = "reference" => target[t] \in blocks
    /\ \A t, u \in Thread :
        Leaving(t) => victim[t] \notin held[u]

\* What is in memory and clean, or on its way out, was saved.
SaveInv ==
    /\ dirty \subseteq blocks
    /\ \A b \in live : (b \in blocks /\ b \in dirty) \/ b \in Saved(file)
    /\ \A t \in Thread :
        /\ pc[t] = "created" => target[t] \in blocks /\ target[t] \in dirty
        /\ pc[t] = "markClean" /\ victim[t] \in live => victim[t] \in Saved(file)
        /\ Evicting(t) /\ pc[t] = "evict" => victim[t] \notin dirty

\* Only a write that fails spoils a file.
SpoiledInv == \A b \in Block \ FaultyFiles : file[b] # "spoiled"

\* The shards that threads announced to use, for a block they get or a victim.
CountsTarget(t) ==
    \/ pc[t] \in {"lockShared", "backOff", "spinShared", "lookup", "unlockShared",
                  "releaseShared", "lock", "release"}
    \/ OwnsTarget(t)
    \/ pc[t] = "noFile"

CountsVictim(t) == pc[t] = "lockVictim" \/ (OwnsVictim(t) /\ pc[t] # "unlockVictim")

\* A thread counts in the shard of its target, of its victim, or in both.
Role == {"target", "victim"}
Uses(t, k) == IF k = "target" THEN CountsTarget(t) ELSE CountsVictim(t)
UsedShard(t, k) == IF k = "target" THEN TargetShard(t) ELSE VictimShard(t)
UsesOf(s) == {x \in Thread \X Role : Uses(x[1], x[2]) /\ UsedShard(x[1], x[2]) = s}

ShardInv == \A s \in Shard : shardCount[s] = Cardinality(UsesOf(s))

\* Among threads that are about to lock the shards of their victims there is one,
\* the last to find its shard unused, whose shard none of the others has locked.
OrderInv ==
    \A S \in SUBSET {t \in Thread : pc[t] = "lockVictim"} :
        S # {} => \E t \in S : \A u \in S : Loading(u) => TargetShard(u) # VictimShard(t)

PoolInv ==
    /\ TypeOK /\ ControlInv /\ IdInv /\ FileInv /\ LockInv /\ ReaderInv /\ AskInv
    /\ CountInv /\ LoadInv /\ UsageExact /\ ShardInv /\ OrderInv

-----------------------------------------------------------------------------
(***************************************************************************)
(* What a step does to a thread: nothing at all, or nothing that matters   *)
(* to one of the invariants.                                               *)
(***************************************************************************)
Same(u) ==
    /\ pc'[u] = pc[u] /\ job'[u] = job[u]
    /\ target'[u] = target[u] /\ victim'[u] = victim[u] /\ held'[u] = held[u]

IdKeeps(u) ==
    /\ job'[u] = "delete" => job[u] = "delete" /\ target'[u] = target[u]
    /\ Making(u)' => /\ Making(u) /\ target'[u] = target[u]
                     /\ pc'[u] = "insert" => pc[u] = "insert"
    /\ HasVictim(u)' => HasVictim(u) /\ victim'[u] = victim[u]

LockKeeps(u) ==
    /\ OwnsTarget(u)' => /\ OwnsTarget(u) /\ target'[u] = target[u]
                         /\ pc[u] = "drain" => pc'[u] = "drain"
    /\ OwnsVictim(u)' => /\ OwnsVictim(u) /\ victim'[u] = victim[u]
                         /\ pc[u] = "drainVictim" => pc'[u] = "drainVictim"
    /\ pc'[u] = "lookup" => pc[u] = "lookup" /\ target'[u] = target[u]

ReadKeeps(u) == (Reads(u)' <=> Reads(u)) /\ (Reads(u) => target'[u] = target[u])

AskKeeps(u) == Asks(u)' => /\ Asks(u) /\ target'[u] = target[u] /\ held'[u] \subseteq held[u]

LoadKeeps(u) ==
    /\ held'[u] \subseteq held[u]
    /\ Loading(u)' => Loading(u) /\ target'[u] = target[u]
    /\ pc'[u] = "reference" => pc[u] = "reference" /\ target'[u] = target[u]
    /\ Leaving(u)' => Leaving(u) /\ victim'[u] = victim[u]

SaveKeeps(u) ==
    /\ pc'[u] = "created" => pc[u] = "created" /\ target'[u] = target[u]
    /\ pc'[u] = "markClean" => pc[u] = "markClean" /\ victim'[u] = victim[u]
    /\ Evicting(u)' /\ pc'[u] = "evict" => /\ Evicting(u) /\ pc[u] = "evict"
                                           /\ victim'[u] = victim[u]

MoveKeeps(u) == pc'[u] \in {"insert", "deallocate"} <=> pc[u] \in {"insert", "deallocate"}

UseKeeps(u, k) ==
    (Uses(u, k)' <=> Uses(u, k)) /\ (Uses(u, k) => UsedShard(u, k)' = UsedShard(u, k))

\* The threads with memory of a block on its way into the map or out of it.
Moving == {t \in Thread : pc[t] \in {"insert", "deallocate"}}

\* What a step may do to the memory in use: nothing; allocate or free the memory
\* of a block; put a block into the map or take it out; start again.
UsageMoves ==
    \/ usage' = usage /\ blocks' = blocks /\ Moving' = Moving
    \/ \E t \in Thread \ Moving :
           usage' = usage + 1 /\ blocks' = blocks /\ Moving' = Moving \cup {t}
    \/ \E t \in Moving : usage' = usage - 1 /\ blocks' = blocks /\ Moving' = Moving \ {t}
    \/ \E t \in Moving, b \in Block \ blocks :
           usage' = usage /\ blocks' = blocks \cup {b} /\ Moving' = Moving \ {t}
    \/ \E t \in Thread \ Moving, b \in blocks :
           usage' = usage /\ blocks' = blocks \ {b} /\ Moving' = Moving \cup {t}
    \/ usage' = 0 /\ blocks' = {} /\ Moving' = {}

=============================================================================
