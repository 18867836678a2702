\* A client that asked for a slot of its own, which is gone when it is asked again.
SPECIFICATION FairSpec
CONSTANTS
    Filters = {"early", "data"}
    WithSlots = {"slots", "early"}
    Early = {"early"}
    Froms = {0, 1}
    UpCap = 1
    Window = 2
    MaxSlot = 2
    DirectSlots = 2
    MaxRequests = 0
CHECK_DEADLOCK FALSE
PROPERTY RejectedGoesLive
