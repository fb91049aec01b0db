SPECIFICATION FairSpec
CONSTANTS
    h1 = h1  h2 = h2  d1 = d1 d2 = d2
    Devices = {h1, d1, d2}
    Hubs = {h1}
    LowSpeed = {d1}
    NPORTS = 2
    MAX_DEVICES = 4  MAX_HUBS = 2  MAX_PORTS = 3
    MAX_PIPES = 1
    Bounce = {"root", "hub"}  SlowReset = TRUE
    MaxMoves = 3  MaxErrors = 1
PROPERTIES
    HandlerReturns
    ChangesAreServed
CHECK_DEADLOCK FALSE
