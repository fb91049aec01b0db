SPECIFICATION FairLoopSpec
CONSTANTS
    MAX_DEVICES = 4
    MAX_HUBS = 4
    MAX_PORTS = 2
PROPERTIES
    ImplementsTopology
    DisconnectReturns
