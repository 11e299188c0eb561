SPECIFICATION Spec
CONSTANTS
    w1 = w1
    w2 = w2
    t1 = t1
    t2 = t2
    Writers = {w1, w2}
    Targets = {t1, t2}
    MaxGenerations = 2
    MaxDials = 1
SYMMETRY LocationSymmetry
INVARIANTS
    UncertainTargetRetained
    DriverFollowsSession
    ActiveIsApplied
    ClearedBeforeClose
PROPERTIES
    ImplementsSimulation
    NoSilentReapply
