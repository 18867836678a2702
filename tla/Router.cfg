\* Two requests of any kind over three nodes whose health changes; clients leave.
SPECIFICATION Spec
CONSTANTS
    N = 3
    Priority <- Priorities
    SendTx = {1, 3}
    Requests = {r1, r2}
SYMMETRY Symmetry
CHECK_DEADLOCK FALSE
INVARIANTS
    BadGatewayMeansAllFailed
    BetterNodesFirst
PROPERTIES
    PlansAreComplete
    FanOutReachesAll
