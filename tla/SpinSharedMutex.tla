-------------------------- MODULE SpinSharedMutex --------------------------
(***************************************************************************)
(* A family of reader-writer spin locks, threading/SpinSharedMutex.hpp.    *)
(* The word state_ of each lock is its write bit and its count of readers. *)
(* Each operator is one atomic access to the word.                         *)
(***************************************************************************)
EXTENDS Integers

CONSTANT Shard          \* the locks

VARIABLES writeBit,     \* kWriteBit of state_
          readers       \* the low 31 bits of state_

mutexVars == <<writeBit, readers>>

MutexType ==
    /\ writeBit \in [Shard -> BOOLEAN]
    /\ readers \in [Shard -> Int]

MutexInit ==
    /\ writeBit = [s \in Shard |-> FALSE]
    /\ readers = [s \in Shard |-> 0]

\* lock(): a fetch_or that finds the bit clear. One that finds it set changes
\* nothing and is tried again.
SetWriteBit(s) ==
    /\ ~writeBit[s]
    /\ writeBit' = [writeBit EXCEPT ![s] = TRUE]
    /\ UNCHANGED readers

\* lock(): the load that finds no reader left.
Drained(s) ==
    /\ readers[s] = 0
    /\ UNCHANGED mutexVars

unlock(s) ==
    /\ writeBit' = [writeBit EXCEPT ![s] = FALSE]
    /\ UNCHANGED readers

\* lockShared(): the fetch_add, which counts the reader whether or not the
\* write bit is set. The caller looks at the bit it found.
AddReader(s) ==
    /\ readers' = [readers EXCEPT ![s] = @ + 1]
    /\ UNCHANGED writeBit

\* lockShared() that found the bit set, and unlockShared(): the fetch_sub.
RemoveReader(s) ==
    /\ readers' = [readers EXCEPT ![s] = @ - 1]
    /\ UNCHANGED writeBit

=============================================================================
