CONSTANTS
    Node <- MCNode
    BufferSize <- MCBufferSize
    CommandGroup <- MixedGroups
    HorizonStep = 4
    MaxTasks = 10
SPECIFICATION Spec
INVARIANT
    DependenciesFlushedFirst
CHECK_DEADLOCK FALSE
