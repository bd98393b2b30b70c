CONSTANTS
    MaxBuffers = 2
    MaxTasks = 2
    MaxHandles = 2
    MaxSections = 2
    MaxArrivals = 1
SPECIFICATION FairSpec
INVARIANTS
    NoUseAfterDestruction
    DestroyedClean
    EarlyReleaseReported
PROPERTY
    EventuallyDestroyed
CHECK_DEADLOCK FALSE
