SPECIFICATION Spec
CONSTANTS
    Node = {n0, n1, n2}
    Primary = n0
    n0 = n0
    n1 = n1
    n2 = n2
    BLOCK_SIZE = 1
    NETWORK_BUFFER_SIZE = 1
    Stoppable = {}
    MaxTx = 2
    MaxPosts <- PrimaryOnce
    MaxLag = 101
CHECK_DEADLOCK FALSE
SYMMETRY Backups
ACTION_CONSTRAINT PreparedFirst
INVARIANTS
    SequenceAgreement
    NumbersGivenOnce
    PreparedHasQuorum
