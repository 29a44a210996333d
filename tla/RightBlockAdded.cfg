SPECIFICATION Spec
CONSTANTS
    Thread = {t1, t2}
    OtherBlock = {o}
    Null = null
    N = 3
    MaxDecisions = 2
INVARIANT RightBlockAdded
CHECK_DEADLOCK FALSE
