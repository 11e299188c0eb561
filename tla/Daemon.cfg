SPECIFICATION Spec
CONSTANTS
    c1 = c1
    c2 = c2
    Connections = {c1, c2}
    Requests = {"install", "uninstall", "screenshot", "run-tests", "status", "stop"}
    MaxGenerations = 2
SYMMETRY ConnectionSymmetry
INVARIANTS
    OperationOnOpenSession
    NoSessionLeak
    LossAccounting
    StateMatchesSession
    CaptureNamesItsSession
    AppAccounting
    ReturnedClean
PROPERTIES
    ImplementsLifecycle
