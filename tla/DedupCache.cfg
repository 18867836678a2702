\* The cache's structures, its promise and its expiry, under every interleaving.
SPECIFICATION FairSpec
CONSTANTS
    Keys = {k1, k2, k3}
    Ttl = 3
INVARIANTS
    SeenIsTracked
    OneEntryPerKey
    OldestInFront
PROPERTIES
    UniqueWithinWindow
    KeysExpire
