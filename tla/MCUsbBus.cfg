SPECIFICATION FairSpec
CONSTANTS
    h1 = h1  h2 = h2  d1 = d1 d2 = d2
    Devices = {h1, h2, d1}
    Hubs = {h1, h2}
    LowSpeed = {d1}
    NPORTS = 2
    MAX_DEVICES = 6  MAX_HUBS = 4  MAX_PORTS = 3
    MAX_PIPES = 5
    Bounce = {}  SlowReset = FALSE
    MaxMoves = 3  MaxErrors = 0
INVARIANTS
    OneAtAddressZero
    TopologyIsTrue
    QuietBusIsKnown
PROPERTIES
    EventuallyAnnounced
CHECK_DEADLOCK FALSE
