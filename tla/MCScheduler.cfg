CONSTANTS
    MAX_TASKS = 3
    MAX_SYNCS = 2
SPECIFICATION FairSpec
INVARIANTS
    FlushesExclusive
    BroadcastAfterTasks
    FlushedInOrder
PROPERTY
    CallsReturn
