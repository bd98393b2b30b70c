CONSTANTS
    Node <- MCNode
    BufferSize <- MCBufferSize
    CommandGroup <- OverwriteGroups
    HorizonStep = 4
    MaxTasks = 10
SPECIFICATION Spec
INVARIANT
    ConflictsOrdered
CHECK_DEADLOCK FALSE
