SPECIFICATION FairDelivery
CONSTANTS
    o1 = o1
    o2 = o2
    Operations = {o1, o2}
    Commands <- CallersInstall
    Callers = {o1}
    StreamLimit = 2
    MaxProgress = 1
INVARIANTS
    TunnelOwned
    ConnectionsOwned
    SuccessStands
    VerdictTrue
PROPERTIES
    LostExplained
    OperationEnds
CHECK_DEADLOCK FALSE
