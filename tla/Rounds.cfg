SPECIFICATION Spec
CONSTANTS
    Node = {n0, n1, n2}
    Primary = n0
    n0 = n0
    n1 = n1
    n2 = n2
    BLOCK_SIZE = 1
    NETWORK_BUFFER_SIZE = 100
    Stoppable = {n2}
    MaxTx = 2
    MaxPosts <- PrimaryOnce
    MaxLag = 10
CHECK_DEADLOCK FALSE
CONSTRAINT Lag
ACTION_CONSTRAINT StopsAtOnce
VIEW Heard
INVARIANTS
    Lockstep
    CommitOrderAgreement
    NoStuckRound
