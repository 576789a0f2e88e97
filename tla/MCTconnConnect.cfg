SPECIFICATION Spec
CONSTANTS
    KeyIds = {"k1", "k2"}
    Presented <- MCPresented
    Fingerprint = "k1"
    ZeroId = "zero"
    NULL = "null"
    MaxAddrs = 2
    MaxCancelled = 2
INVARIANTS TypeOK HeldMatchesState StatesAgree PoolMatchesRequests MatchGivesPeerId
PROPERTIES KeepsTrying
CHECK_DEADLOCK FALSE
