SPECIFICATION Spec
CONSTANTS
    Node = {n0, n1, n2}
    Primary = n0
    n0 = n0
    n1 = n1
    n2 = n2
    BLOCK_SIZE = 1
    NETWORK_BUFFER_SIZE = 100
    Stoppable = {}
    MaxTx = 1
    MaxPosts <- BackupThrice
    MaxLag = 101
CHECK_DEADLOCK FALSE
ACTION_CONSTRAINT PrimaryAhead
INVARIANT CommittedHasQuorum
