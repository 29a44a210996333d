SPECIFICATION Spec
CONSTANTS
    Node = {n0, n1}
    Primary = n0
    n0 = n0
    n1 = n1
    BLOCK_SIZE = 1
    NETWORK_BUFFER_SIZE = 100
    Stoppable = {}
    MaxTx = 2
    MaxPosts <- Twice
    MaxLag = 101
CHECK_DEADLOCK FALSE
ACTION_CONSTRAINT ResendsOnly
INVARIANT NoDuplicateBlock
