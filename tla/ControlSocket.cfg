SPECIFICATION FairSpec
CONSTANTS
    p1 = p1
    p2 = p2
    p3 = p3
    Processes = {p1, p2, p3}
INVARIANTS
    OneReachableOwner
    NoFileAfterExit
PROPERTIES
    StartRecovers
CHECK_DEADLOCK FALSE
