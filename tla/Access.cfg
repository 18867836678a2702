\* Two dashboard requests, an edit of the file, a SIGHUP and an RPC request.
SPECIFICATION Spec
CONSTANTS
    a = a
    b = b
    k1 = k1
    k2 = k2
    IPs = {a, b}
    Keys = {k1, k2}
    Default = 3
    Ops = {o1, o2}
    Asks <- Requests
    Checks = {c1}
    Start <- StartConfig
    Edits <- EditedFiles
    MaxIpLimiters = 1
    MaxHups = 2
    MaxMet = 1
SYMMETRY Symmetry
CHECK_DEADLOCK FALSE
INVARIANTS
    GrantsFollowConfig
    LockedCopiesAgree
    LimitsInForce
    FileIsWhole
