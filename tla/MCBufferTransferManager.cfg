CONSTANTS
    Node = {0, 1}
    Transfer <- MCTransfer
SPECIFICATION BTMFairSpec
INVARIANTS
    DataInOnePlace
    HandleTellsTruth
PROPERTY
    ImplementsRendezvous
CHECK_DEADLOCK FALSE
