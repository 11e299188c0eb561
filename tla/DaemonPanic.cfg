SPECIFICATION Spec
CONSTANTS
    c1 = c1
    c2 = c2
    Connections = {c1, c2}
    Requests = {"install", "stop"}
    MaxGenerations = 2
SYMMETRY ConnectionSymmetry
INVARIANTS
    NoPanic
