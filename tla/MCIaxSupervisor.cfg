SPECIFICATION FairSpec
CONSTANTS
    a = a
    b = b
    Configs = {a, b}
    MaxForks = 4
CHECK_DEADLOCK FALSE
INVARIANTS
    OneProcessPerConfig
    ListKnowsModems
PROPERTIES
    RestartedAfterHup
    StopCompletes
