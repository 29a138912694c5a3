SPECIFICATION Spec
CONSTANTS
    Thread = {t1, t2}
    MaxBlock = 3
    MaxMemory = 1
    ForceSaveDirtyBlocks = TRUE
    FaultyFiles = {1}
    MaxHeld = 1
    s1 = s1
    s2 = s2
    Block <- MCBlock
    Shard <- MCShard
    ShardOf <- MCShardOf
INVARIANT RaceTolerated
CHECK_DEADLOCK FALSE
