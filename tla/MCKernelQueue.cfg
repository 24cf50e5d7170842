CONSTANTS
    high = high
    low = low
    low2 = low2
    idle = idle
    a = a
    b = b
    NoItem = NoItem
    Task = {high, low, low2, idle}
    Idle = idle
    Prio <- MCPrio
    Sender = {low, low2}
    Receiver = {high, low2}
    Handler = {"send", "receive"}
    Item = {a}
    Length = 1
    LockMax = 2
SPECIFICATION Spec
INVARIANTS
    NoLostReceiver
    NoLostSender
    BlockedTaskDoesNotRun
    HighestPriorityRuns
    IInv
PROPERTIES
    ForeverNeverFails
