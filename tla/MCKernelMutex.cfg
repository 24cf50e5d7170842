CONSTANTS
    low = low
    other = other
    mid = mid
    high = high
    idle = idle
    outer = outer
    inner = inner
    Task = {low, other, mid, high, idle}
    Idle = idle
    Mutex = {outer, inner}
    NULL = NULL
    Base <- MCBase
    Takes <- MCTakes
SPECIFICATION Spec
INVARIANTS
    TypeOK
    NoInversion
    HighestPriorityRuns
