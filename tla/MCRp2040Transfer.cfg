SPECIFICATION FairSpec
CONSTANTS
    packet_size = 2
    Ops <- AllOps
    MaxRace = 1  RaceErrors = FALSE
INVARIANTS
    DataIntact
    TogglesAgree
PROPERTY TransferEnds
