SPECIFICATION Spec
CONSTANTS
    h1 = h1  h2 = h2  d1 = d1 d2 = d2
    Devices = {h1, d1, d2}
    Hubs = {h1}
    LowSpeed = {d1}
    NPORTS = 2
    MAX_DEVICES = 6  MAX_HUBS = 3  MAX_PORTS = 3
    MAX_PIPES = 5
    Bounce = {}  SlowReset = FALSE
    MaxMoves = 2  MaxErrors = 1
INVARIANT OneAtAddressZero
CHECK_DEADLOCK FALSE
