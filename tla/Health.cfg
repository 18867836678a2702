\* Rounds without end over two nodes, the first probes of one kept.
SPECIFICATION CheckerFairSpec
CONSTANTS
    N = 2
    Iris = {1}
    Grpc = {2}
    UnhealthyThreshold = 2
    HealthyThreshold = 2
    MaxDrift = 1
    Slots = {1, 3}
    Observed = {1}
    MaxHistory = 4
INVARIANTS
    DownIffEjected
PROPERTIES
    DeadNodeEjected
    GoodNodeRestored
