SPECIFICATION Spec
CONSTANTS
    h1 = h1  h2 = h2  d1 = d1 d2 = d2
    Devices = {h1}
    Hubs = {h1}
    LowSpeed = {}
    NPORTS = 1
    MAX_DEVICES = 4  MAX_HUBS = 3  MAX_PORTS = 3
    MAX_PIPES = 2
    Bounce = {}  SlowReset = FALSE
    MaxMoves = 6  MaxErrors = 0
INVARIANT TooManyMeansMany
CHECK_DEADLOCK FALSE
