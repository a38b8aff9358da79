SPECIFICATION FairSpec
CONSTANTS
    c1 = c1
    c2 = c2
    Calls = {c1, c2}
    NoCall = NoCall
    S0 = 2
INVARIANTS
    NoStrayCalls
PROPERTIES
    HookAgrees
    HupAtEndOfCall
    WaitingEnds
