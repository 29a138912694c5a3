-------------------------- MODULE MCStorageManager --------------------------
(***************************************************************************)
(* Instances of StorageManager: two shards, blocks hashed to them in turn. *)
(***************************************************************************)
EXTENDS StorageManager, TLC

CONSTANTS s1, s2

MCBlock == 1 .. MaxBlock
MCShard == {s1, s2}
MCShardOf == [b \in 1 .. MaxBlock |-> IF b % 2 = 1 THEN s1 ELSE s2]

ThreadSymmetry == Permutations(Thread)

=============================================================================
