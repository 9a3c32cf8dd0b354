SPECIFICATION Spec
CONSTANTS
    Parts = {"gate", "matchers", "hooks", "fetch", "sandbox"}
    Tokens <- MCTokens
    MaxCommand = 4
    MaxRewrites = 1
    Configs <- MCConfigs
    Letters = {"a", "b"}
    MaxPattern = 4
    MaxText = 5
    Calls = {1, 2, 3}
    Inputs <- MCInputs
    ConfigFiles <- MCConfigFiles
    Policies <- MCPolicies
    Addresses <- MCAddresses
    MaxRedirects = 2
    Requests <- MCRequests
    Links <- MCLinks
    MaxHops = 3
INVARIANTS
    GateIsSound
    HookAnswersAreBacked
    OnlyCheckedAreReached
    RunsAreConfined
PROPERTY EveryRunReturns
CHECK_DEADLOCK FALSE
