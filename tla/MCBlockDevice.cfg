SPECIFICATION FairSpec
CONSTANTS
    U16Max = 3
    U32Max = 6
    U64Max = 12
    MaxFaults = 1
    TagLimit = 4
    MaxRequests = 2
    Units <- MCUnits
    Troubles <- MCTroubles
    Requests <- MCRequests
INVARIANTS
    InStep
    FailuresExplained
    TalksToStorage
PROPERTIES
    ImplementsStore
    OperationsEnd
