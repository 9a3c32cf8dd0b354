SPECIFICATION Spec
CONSTANTS
    Parts = {"rotation", "tenants", "rekor", "rooms", "sockets", "stamps"}
    KeyIds = {"k1", "k2", "k3"}
    rotation_interval = 2
    grace_period = 2
    Reasons = {"compromised"}
    MaxTime = 2
    MaxRotations = 3
    Procs = {"p1", "p2"}
    KeyTenants = {"stark", "wayne"}
    Others = {"acme"}
    Invoices = {"i1"}
    Rooms = {"r1", "r2"}
    Runs = {"x", "y"}
    MaxRestarts = 1
    RoomCalls = {"c1", "c2"}
    Tenants = {"t1", "t2"}
    InvoiceIds = {"i1"}
    Participants <- MCParticipants
    SpawnModes <- MCSpawnModes
    Handles = {"h1"}
    Starts = {"s1"}
    RoomNames = {"n1", "n2"}
    AGENTS = 1
    EVENT_CAP = 1
    MaxRefs = 2
    MaxBeats = 1
    Digests = {"d1", "d2"}
    Authorities <- MCAuthorities
    Scalars <- MCScalars
    MaxStamped = 2
    ScalarLen = 2
    RootLists <- MCRootLists
    Chains <- MCChains
INVARIANTS
    KeysAreSound
    EntriesAreHonest
    BandAnswersAreTheirOwn
    VerificationIsRight
PROPERTY NothingHangs
CHECK_DEADLOCK FALSE
