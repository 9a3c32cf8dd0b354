SPECIFICATION Spec
CONSTANTS
    Parts = {"store"}
    HttpCalls = {c1, c2}
    HasEvidence = TRUE
    MaxDownloads = 1
    Subscribers = {"s1", "s2"}
    Buffer = 2
    MaxEvents = 5
    Tabs = {"t1"}
    CHANNEL = 2
    MaxLines = 2
    MaxCostClock = 1
    MaxFaults = 1
    MaxDrops = 1
    Seals = {"q1", "q2", "q3"}
    SealTenants = {"", "stark", "wayne"}
    SealCases = {"", "case"}
    SealLinks = {"none", "root"}
    Calls = {c1, c2, c3}
    Tenants = {"stark", "wayne"}
    Strangers = {"acme"}
    Window = 0
    MaxClock = 1
    MaxStarts = 1
    Texts = {"a", "b"}
    MaxAppends = 3
    MaxDeaths = 1
    Damages = {"drop"}
    c1 = c1
    c2 = c2
    c3 = c3
INVARIANT OpenChainIsLinked
CHECK_DEADLOCK FALSE
