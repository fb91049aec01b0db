SPECIFICATION Spec
CONSTANTS
    h1 = h1  h2 = h2  d1 = d1 d2 = d2
    Devices = {h1, h2, d1}
    Hubs = {h1, h2}
    LowSpeed = {d1}
    NPORTS = 1
    MAX_DEVICES = 6  MAX_HUBS = 3  MAX_PORTS = 3
    MAX_PIPES = 5
    Bounce = {"hub"}  SlowReset = FALSE
    MaxMoves = 4  MaxErrors = 0
INVARIANT HubsFitTheTable
CHECK_DEADLOCK FALSE
