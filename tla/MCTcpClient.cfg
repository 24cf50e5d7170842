CONSTANTS
    Pcb = {p1, p2, p3}
    NULL = NULL
    LocalIp = LocalIp
    Blocks = 2
SPECIFICATION FairSpec
INVARIANTS
    TypeOK
    OneConnection
    PoolAccounted
    NoLeak
PROPERTIES
    Replaced
