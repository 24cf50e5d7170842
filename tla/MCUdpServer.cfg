CONSTANTS
    input = input
    tcp = tcp
    short = short
    long = long
    arp = arp
    broken = broken
    NoTimer = NoTimer
    Timer = {input, tcp}
    Interval <- MCInterval
    Width = 4
    MaxGap = 2
    NoFrame = NoFrame
    Frame = {short, long, arp, broken}
    Broken = {broken}
    Size <- MCSize
    RxSize = 3
    Datagram = {short, long}
    Request = {arp}
    Input = input
    Order <- MCOrder
    SendRounds = 0
SPECIFICATION ServerSpec
INVARIANTS
    NeverEarly
    NeverOverlooked
    ServerInv
PROPERTIES
    ImplementsFrameChannel
    EveryDatagramShown
