SPECIFICATION AgentSpec
CONSTANTS
    p1 = p1
    p2 = p2
    p3 = p3
    d1 = d1
    d2 = d2
    a1 = a1
    a2 = a2
    None = None
    Processes = {p1, p2, p3}
    Documents = {d1, d2}
    Agents = {a1, a2}
SYMMETRY ProfileSymmetry
INVARIANTS
    LocationBacked
    DaemonFindsCredentials
    FailureRollsBack
    AgentAsCommanded
    StopIsReported
CHECK_DEADLOCK FALSE
