SPECIFICATION FairSpec
CONSTANTS
    Client = {0, 1}
    p1 = p1
    p2 = p2
    Poster = {p1, p2}
    NoOne = NoOne
    NETWORK_BUFFER_SIZE = 1
    MaxPosts = 3
CHECK_DEADLOCK FALSE
INVARIANTS
    SemaphoreCounts
    NeverPopsEmpty
    QueueExclusive
    WithinCapacity
PROPERTY RefinesBroadcast
PROPERTY QueuesDrain
