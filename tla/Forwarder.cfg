\* A client that reads beside one that need not; both may lag.
SPECIFICATION FairSpec
CONSTANTS
    Clients = {c1, c2}
    Readers = {c1}
    Pingers = {c1}
    Request <- RequestA
    Feed <- TwoTransactions
    Base58 = {"a", "b", "sig"}
    SampleRequests <- Requests
    SampleUpdates <- AllUpdates
    Ring = 1
    ClientCap = 1
    MaxLagEvents = 1
    MaxLog = 3
    MaxPings = 1
CHECK_DEADLOCK FALSE
INVARIANTS
    InOrderOnce
    HolesBounded
    MuxLikeUpstream
PROPERTIES
    GoneIsNoticed
    ReaderIsServed
    PingIsAnswered
    CutIsTold
