\* Three streams of one IP; managers may block.
SPECIFICATION FairSpec
CONSTANTS
    s1 = s1
    s2 = s2
    s3 = s3
    ip = ip
    Streams = {s1, s2, s3}
    Kind <- Kinds
    Ip <- Clients
    MaxStreamsPerIp = 1
CHECK_DEADLOCK FALSE
INVARIANTS
    CountersExact
    NoZombies
PROPERTIES
    DroppedIsReleased
    LimitWithoutOverlap
