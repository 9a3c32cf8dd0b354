SPECIFICATION Spec
CONSTANTS
    Parts = {"server", "bus", "costs", "seals", "service", "store"}
    HttpCalls = {c1, c2}
    HasEvidence = TRUE
    MaxDownloads = 1
    Subscribers = {"s1", "s2"}
    Buffer = 2
    MaxEvents = 5
    Tabs = {"t1"}
    CHANNEL = 2
    MaxLines = 2
    MaxCostClock = 1
    MaxFaults = 1
    MaxDrops = 1
    Seals = {"q1", "q2", "q3"}
    SealTenants = {"", "stark", "wayne"}
    SealCases = {"", "case"}
    SealLinks = {"none", "root"}
    Calls = {c1, c2, c3}
    Tenants = {"stark", "wayne"}
    Strangers = {"acme"}
    Window = 0
    MaxClock = 1
    MaxStarts = 1
    Texts = {"a", "b"}
    MaxAppends = 4
    MaxDeaths = 2
    Damages = {"edit"}
    c1 = c1
    c2 = c2
    c3 = c3
INVARIANTS
    TypeOK
    ClientsSeeWholePackets
    StreamIsFaithful
    RootIsOfOwnSeal
    EvidenceIsLinked
    StoreIsSound
PROPERTIES
    HistoryIsKept
    EveryCallReturns
    FeedsCatchUp
CHECK_DEADLOCK FALSE
