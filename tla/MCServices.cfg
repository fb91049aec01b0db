SPECIFICATION ServicesSpec
CONSTANTS
    l1 = l1  i1 = i1  u1 = u1  u2 = u2  s1 = s1  s2 = s2
    All = All
    Links = {l1}  Ips = {i1}  LinkOf <- OneLink
    Usns = {u1}  Types <- OneType  SearchTypes = {}  Locations <- OneUrl
    Searchers = {s1, s2}  MaxWaits = {1, 3}  Via <- SameLink
    SHORT = 2  LONG = 3  JITTER = 1  random_seed = 1
    UsnSize = 60  TypeSize = 40
    SECOND = 1  MAX_DELAY = 2  MIN_DELAY = 0
    MaxLate = 1  MaxLosses = 0  InboxLimit <- Inboxes  OddOn = {"multicast"}
INVARIANTS
    NeverOversleeps
    NoSearchForgotten
    AnsweredInTime
    NotStranded
PROPERTY KeepsRefreshing
