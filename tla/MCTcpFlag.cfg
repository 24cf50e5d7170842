CONSTANTS
    Pcb = {p1, p2, p3}
    NULL = NULL
    LocalIp = LocalIp
    Blocks = 2
SPECIFICATION Spec
INVARIANTS
    FlagMeansConnected
