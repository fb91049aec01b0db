SPECIFICATION FeedSpec
CONSTANTS
    l1 = l1  l2 = l2  i1 = i1   v1 = v1  u1 = u1
    All = All
    Indexes = {l1, l2}  Inet = {i1}  Inet6 = {v1}  IfaceOf <- Homes
    FlagSets <- UpOrDown  BufferLimit = 4  MaxChanges = 2  Aliases = {i1}
    Links = {l1, l2}  Ips = {i1}  LinkOf <- Homes4
    Usns = {u1}  Types <- OneType  SearchTypes = {}  Locations <- OneUrl
    Searchers = {}  MaxWaits = {}  Via <- Nobody
    SHORT = 1  LONG = 2  JITTER = 1  random_seed = 0
    UsnSize = 60  TypeSize = 40
    SECOND = 1  MAX_DELAY = 5  MIN_DELAY = 1
    MaxLate = 0  MaxLosses = 0
INVARIANTS
    ToldTheTruth
    ListsInOrder
    PeersFollowKernel
PROPERTY CatchesUp
