--------------------------- MODULE EvictionPolicy ---------------------------
(***************************************************************************)
(* The bookkeeping of the LRU-K policy of storage/EvictionPolicy.cpp. Each *)
(* operator is one method, atomic under the policy's mutexes. A block that *)
(* the policy does not know has the values of a default BlockInfo. Which   *)
(* candidate is least recently used depends on the clock: any may be.      *)
(***************************************************************************)
EXTENDS Integers

CONSTANT Block

VARIABLES refCount,         \* BlockInfo::ref_count_
          inMemory,         \* BlockInfo::in_memory_
          nonreferenced     \* nonreferenced_blocks_

policyVars == <<refCount, inMemory, nonreferenced>>

PolicyType ==
    /\ refCount \in [Block -> Int]
    /\ inMemory \in [Block -> BOOLEAN]
    /\ nonreferenced \in SUBSET Block

PolicyInit ==
    /\ refCount = [b \in Block |-> 0]
    /\ inMemory = [b \in Block |-> FALSE]
    /\ nonreferenced = {}

Evictable == {b \in nonreferenced : inMemory[b]}

chooseBlockToEvict(b) ==
    /\ b \in Evictable
    /\ inMemory' = [inMemory EXCEPT ![b] = FALSE]
    /\ nonreferenced' = nonreferenced \ {b}
    /\ UNCHANGED refCount

blockCreated(b) ==
    /\ inMemory' = [inMemory EXCEPT ![b] = TRUE]
    /\ nonreferenced' = nonreferenced \cup {b}
    /\ UNCHANGED refCount

blockEvicted(b) ==
    /\ inMemory' = [inMemory EXCEPT ![b] = FALSE]
    /\ nonreferenced' = nonreferenced \ {b}
    /\ UNCHANGED refCount

blockReferenced(b) ==
    /\ refCount' = [refCount EXCEPT ![b] = @ + 1]
    /\ inMemory' = [inMemory EXCEPT ![b] = TRUE]
    /\ nonreferenced' = IF refCount[b] = 0 THEN nonreferenced \ {b} ELSE nonreferenced

blockUnreferenced(b) ==
    /\ refCount' = [refCount EXCEPT ![b] = @ - 1]
    /\ nonreferenced' = IF refCount[b] = 1 THEN nonreferenced \cup {b} ELSE nonreferenced
    /\ UNCHANGED inMemory

blockDeleted(b) ==
    /\ refCount' = [refCount EXCEPT ![b] = 0]
    /\ inMemory' = [inMemory EXCEPT ![b] = FALSE]
    /\ nonreferenced' = nonreferenced \ {b}

=============================================================================
