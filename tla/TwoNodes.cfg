SPECIFICATION FairSpec
CONSTANTS
    Node = {n0, n1}
    Primary = n0
    n0 = n0
    n1 = n1
    BLOCK_SIZE = 2
    NETWORK_BUFFER_SIZE = 100
    Stoppable = {}
    MaxTx = 4
    MaxPosts <- PrimaryOnce
    MaxLag = 101
CHECK_DEADLOCK FALSE
INVARIANTS
    TypeOK
    WaitingIsResent
    BlocksDisjoint
PROPERTIES
    AddsCommitted
    RoundEnds
ACTION_CONSTRAINT OneDawdles
