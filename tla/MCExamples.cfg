CONSTANTS
    Program <- MCProgram
    SIZE_MAX = 15
    Image <- MCImage
    Files <- MCFiles
    BufLen = 16
    ZWindow = 40
    ZQuality = 2
    Machine <- MCMachine
SPECIFICATION ExamplesSpec
INVARIANTS
    ChunksPartition
    RequirementsExact
    AccessesDeclared
    SameAsAlone
    
    DevicesDistinct
