CONSTANTS
    Node <- MCNode
    Transfer <- MCTransfer
    Cid <- MCCid
    Cell <- MCCell
    Program <- MCProgram
SPECIFICATION FairSpec
INVARIANTS
    DependenciesRespected
    CommandsSeeCurrentData
    NoRaces
    PushedBufferRegistered
    SyncQuiesces
    NothingLeftBehind
PROPERTY
    EventuallyTerminates
