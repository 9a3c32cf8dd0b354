SPECIFICATION Spec
CONSTANTS
    Parts = {"approvals", "rogues", "gate", "agents", "calls"}
    Approvers = {"a1", "a2"}
    MaxApprovals = 2
    Window = 2
    MaxClock = 4
    MaxRecorded = 4
    Workers = {"w1", "w2", "w3"}
    Agents = {"extractor"}
    Threshold = 2
    MaxMessages = 3
    Scores <- MCScores
    Rounds <- MCRounds
    RoundsModulus = 8
    Confidences <- MCConfidences
    Panels <- MCPanels
    Invoices <- MCInvoices
    Assessments <- MCAssessments
    Classes <- MCClasses
    PurchaseOrders <- MCPurchaseOrders
    Fixtures <- MCFixtures
    SigningKey = "key"
    Calls = {"c1", "c2", "c3"}
    Callers = {"fraud_auditor", "extractor"}
    RoutingFiles <- MCRoutingFiles
    BACKOFFS = 1
    LATENCY_RING_CAP = 2
    Latencies = {1, 3}
    Usages = {1}
    RateLimitAfter = 1
INVARIANTS
    TypeOK
    BudgetIsKept
    HeldIsNotDispatched
    VerdictsAreSound
    MetricsAreOfTheCalls
    ReportsAreRight
PROPERTY EveryCallSettles
CHECK_DEADLOCK FALSE
