SPECIFICATION MCSpec
CONSTANTS
    Metrics = {1, 2}
    RIB_COST_UNREACHABLE = 20
    NULL = NULL
    HopSet <- MCHopSet
    MaxHops = 3
    Nodes = {1, 2, 3, 4}
    Source = 1
    Graphs <- MCGraphs
INVARIANTS LoopComputesWalkCost CspfFindsBestPath
CHECK_DEADLOCK FALSE
