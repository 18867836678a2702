\* A connecting task is cancelled and the flag stays behind.
SPECIFICATION PoolSpec
CONSTANTS
    Mux = {m1}
    Direct = {d1}
    Unary = {}
INVARIANTS
    AnotherTaskReconnects
