\* Two clients, saves that meet, crashes at every step.
SPECIFICATION Spec
CONSTANTS
    q1 = q1
    q2 = q2
    w1 = w1
    i1 = i1
    i2 = i2
    IPs = {i1, i2}
    Calls = {q1, q2}
    Sockets = {w1}
    Ip <- Clients
    MaxTotal = 2
    MaxSockets = 1
INVARIANTS
    ActiveIsAccountedFor
    GlobalNeverAhead
PROPERTIES
    SavedIsRestored
