CONSTANTS
    high = high
    low = low
    low2 = low2
    idle = idle
    a = a
    b = b
    NoItem = NoItem
    Task = {high, low, idle}
    Idle = idle
    Prio <- MCPrio
    Sender = {high, low}
    Receiver = {high, low}
    Handler = {"send", "receive"}
    Item = {a, b}
    Length = 2
    LockMax = 1
SPECIFICATION FairSpec
PROPERTIES
    ImplementsBoundedQueue
    TopReceiverServed
