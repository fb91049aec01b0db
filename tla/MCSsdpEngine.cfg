SPECIFICATION FairSpec
CONSTANTS
    l1 = l1  l2 = l2  i1 = i1  i2 = i2  u1 = u1  u2 = u2  s1 = s1  s2 = s2
    All = All
    Links = {l1, l2}  Ips = {i1, i2}  LinkOf <- TwoLinks
    Usns = {u1}  Types <- OneType  SearchTypes <- TypeOrAll  Locations <- TwoUrls
    Searchers = {s1}  MaxWaits = {1}  Via <- OneSearcher
    SHORT = 1  LONG = 2  JITTER = 1  random_seed = 0
    UsnSize = 313  TypeSize = 60
    SECOND = 1  MAX_DELAY = 1  MIN_DELAY = 1
    MaxLate = 0  MaxLosses = 1
INVARIANTS
    AnnouncedEverywhere
    SearchedEverywhere
    ListedAreJoined
PROPERTY AnnouncedInTheEnd
