CONSTANTS
    Node <- MCNode
    BufferSize <- MCBufferSize
    CommandGroup <- ImplicitGroups
    HorizonStep = 99
    MaxTasks = 4
SPECIFICATION Spec
INVARIANT
    ReadsCurrentVersion
CHECK_DEADLOCK FALSE
