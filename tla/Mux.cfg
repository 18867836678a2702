\* Two regions that come and go, a raw channel of one place.
SPECIFICATION FairSpec
CONSTANTS
    e1 = e1
    e2 = e2
    NoKey = NoKey
    Regions = {r1, r2}
    Events = {e1, e2}
    Feeds <- Pairs
    RawCap = 1
    Ttl = 2
INVARIANTS
    GapsAreCovered
    OnceAWindow
PROPERTIES
    ReadIsForwarded
