\* Every kind of caller, cancellation included.
SPECIFICATION PoolFairSpec
CONSTANTS
    Mux = {m1}
    Direct = {d1}
    Unary = {u1}
INVARIANTS
    SingleConnector
PROPERTIES
    GetReturns
    FlagReleased
