SPECIFICATION FairSpec
CONSTANTS
    N = 2
    NETWORK_BUFFER_SIZE = 1
    MaxThreads = 1
INVARIANTS
    StoppedIsQuiet
    ResenderOutlived
PROPERTIES
    StopReturns
    NodesEnd
CHECK_DEADLOCK FALSE
