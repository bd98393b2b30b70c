CONSTANTS
    Node <- MCNode
    BufferSize <- MCBufferSize
    CommandGroup <- MCKernels
    HorizonStep = 2
    MaxTasks = 5
SPECIFICATION Spec
INVARIANTS
    ReadsCurrentVersion
    HorizonCoversEarlier
    DependenciesFlushedFirst
CHECK_DEADLOCK FALSE
