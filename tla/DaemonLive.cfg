SPECIFICATION LoadSpec
CONSTANTS
    c1 = c1
    c2 = c2
    Connections = {c1, c2}
    Requests = {"install"}
    MaxGenerations = 2
    MaxCounted = 1
PROPERTIES
    ShutdownCompletes
    LostSessionReleased
    RequestsAnswered
