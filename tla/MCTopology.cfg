SPECIFICATION Spec
CONSTANTS
    MAX_DEVICES = 5
    MAX_HUBS = 4
    MAX_PORTS = 3
INVARIANTS
    OneAddressPerPort
    NoOrphans
    RootedAtRoot
PROPERTY AddressesAreStable
