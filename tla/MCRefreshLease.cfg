SPECIFICATION LeaseSpec
CONSTANTS
    SHORT = 6000  LONG = 800000  JITTER = 10
    random_seed = 2147479807
    MAX_AGE = 1800000
    Lateness <- EarlyOrLate
    MaxLate = 17000
    MaxLosses = 7
INVARIANTS
    LeaseKept
