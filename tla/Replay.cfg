\* Both loops, with and without replay, over a chain that forgets.
SPECIFICATION FairSpec
CONSTANTS
    Filters = {"early", "data"}
    WithSlots = {"slots", "early"}
    Early = {"early"}
    Froms = {0, 1}
    UpCap = 1
    Window = 1
    MaxSlot = 3
    DirectSlots = 2
    MaxRequests = 1
CHECK_DEADLOCK FALSE
INVARIANTS
    NoHole
    LatestSurvives
    AlarmsAreExact
PROPERTIES
    RefusedIsGivenUp
