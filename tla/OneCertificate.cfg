SPECIFICATION Spec
CONSTANTS
    Parts = {"notary"}
    Requests = {"r1", "r2", "r3"}
    Contents = {"h1", "h2"}
    Bare = {"h2"}
    Submitters = {"acme"}
    Limit = 1
    Outages = {{"wm", "pdf"}}
    MaxCrashes = 1
    Vocab = 5
    Word = 16
    Step = 9
    MaxTokens = 6
    Threads = {"t1", "t2"}
    Calls = {"c1", "c2"}
    Reporters = {"c1"}
    Orgs = {"a", "b"}
    Secrets = {"s1"}
    Bundles = {"bundle"}
    Certs = {"cert"}
    Entries = {"x", "y"}
    MaxLog = 5
    Keys = {"k1", "k2"}
    Payloads = {"p", "q"}
    MaxSigned = 2
    TsaCerts <- MCTsaCerts
    StaticCerts <- MCStaticCerts
    MaxLists = 2
    MaxLines = 2
INVARIANT OneCertificatePerContent
CHECK_DEADLOCK FALSE
