SPECIFICATION Spec
CONSTANTS
    Thread = {t1, t2}
    OtherBlock = {o}
    Null = null
    N = 3
    MaxDecisions = 4
INVARIANTS
    ReplySeesBlock
    WaitingHasThread
    GivesUpOnlyAdded
CHECK_DEADLOCK FALSE
