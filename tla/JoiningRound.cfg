SPECIFICATION Spec
CONSTANTS
    Key = {k1, k2, k3, k4, k5}
    MaxNodes = 5
    Word = 256
INVARIANTS
    RoundSurvivesJoin
    CommitsAsAsked
CHECK_DEADLOCK FALSE
