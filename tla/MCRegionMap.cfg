CONSTANTS
    Map = {rm1, rm2}
    Extent <- MCExtent
    Value <- MCValue
    Functor <- MCFunctor
SPECIFICATION Spec
INVARIANTS
    Partition
    QueriesComplete
PROPERTY
    ImplementsCellMap
