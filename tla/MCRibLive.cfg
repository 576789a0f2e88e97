SPECIFICATION Spec
CONSTANTS
    Ids = {1, 2, 3}
    Me = 1
    Peers = {2, 3}
    Monitors = {mon}
    Versions = {1, 2}
    Paths <- MCPaths
    Sizes = {2, 3, 4}
    Wire <- MCWireSmall
    Mine <- MCMine
    Metrics = {1, 2}
    Links <- MCLinks
    LSA_MAX_BYTES = 4
    ADJ_RIB_IN_MAX_BYTES = 4
    NODE_ID_LEN = 1
    RIB_COST_UNREACHABLE = 20
    NULL = NULL
PROPERTIES
    ChoiceCatchesUp
