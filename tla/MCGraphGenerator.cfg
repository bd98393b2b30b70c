CONSTANTS
    Node <- MCNode
    BufferSize <- MCBufferSize
    CommandGroup <- MCCommandGroup
    HorizonStep = 99
    MaxTasks = 4
SPECIFICATION Spec
INVARIANTS
    Acyclic
    ReadsCurrentVersion
    ConflictsOrdered
    NoRedundantTransfer
    DependenciesFlushedFirst
    AllFlushed
    NoAssertionFails
CHECK_DEADLOCK FALSE
