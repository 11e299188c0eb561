SPECIFICATION Spec
CONSTANTS
    q1 = q1
    q2 = q2
    Requests = {q1, q2}
    MaxOperations = 2
    Modules = {"M", "N"}
    Classes = {"C", "D"}
    Methods = {"testC", "testD"}
    Names = {"before", "after"}
    Paths = {"f", "g"}
    TestRequests <- SmallRequests
    Reports <- SmallReports
    Pictures <- SmallPictures
SYMMETRY RequestSymmetry
INVARIANTS
    ServiceWithinOperation
    EvidenceSound
    ServiceLostOnlyToCancel
    CancelledNeverSucceeds
