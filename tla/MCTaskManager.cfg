CONSTANTS
    Buffer <- MCBuffer
    Cell <- MCCell
    BufferOf <- MCBufferOf
    CommandGroup <- MCCommandGroup
    None = None
    MaxTasks = 5
SPECIFICATION Spec
INVARIANTS
    ConflictsOrdered
    ReadsFromLastWriter
    DependenciesJustified
CHECK_DEADLOCK FALSE
