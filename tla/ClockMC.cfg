CONSTANTS
    Registers = 3
    Base = 4
    Order <- MCOrder
    MaxUpdates = 3
    JIFFIES = 4
    WIDTH = 16
    UINT64 = 1000
    READS = 3
    MaxTicks = 40
    Duration <- MCDuration
    StatusB <- BinaryAndBcd
    FirstYear = 102
    LastYear = 105
    BITS = 5
    Power <- MCPower
SPECIFICATION Spec
INVARIANTS
    NotTorn
    WaitLength
    AtMostADayAhead
    DividesExactly
PROPERTY
    CallsEnd
CHECK_DEADLOCK FALSE
