CONSTANTS
    start = start
    low = low
    mid = mid
    high = high
    daemon_task = daemon_task
    idle = idle
    room = room
    item = item
    timerQueue = timerQueue
    once = once
    again = again
    Task = {start, low, mid, high, daemon_task, idle}
    Idle = idle
    Object = {room, item, timerQueue}
    NULL = NULL
    Pending = Pending
    Off = Off
    Program = {"suspend", "keys", "tickless", "timers", "delete", "mix"}
    Tickless = {"tickless"}
    AtStart <- MCAtStart
    Prio <- MCPrio
    Does <- MCDoes
    Handles <- MCHandles
    Width = 6
    MaxPended = 2
    MaxSuppressed = 3
    Daemon = daemon_task
    TimerUser = {low}
    Timer = {once, again}
    xTimerPeriodInTicks <- MCPeriod
    AutoReload = {again}
    xTimerQueue = timerQueue
    QueueLength = 2
    MaxBehind = 2
SPECIFICATION TimersSpec
INVARIANTS
    TimersTypeOK
    TickInv
    HighestPriorityRuns
    TimeLimit
    TimerInv
    DaemonWakesInTime
PROPERTIES
    ImplementsSleep
