SPECIFICATION Spec
CONSTANTS
    NumTypes = 2
    RingSize <- OtherSize
    EntryCount = 3
    LaunchEntries = 2
    MaxSize = 3
    MaxExpected = 6
    MaxQueue = 6
    MaxTrace = 0
    Traces = FALSE
    NoTrace = NoTrace
    Idle = Idle
    Reset = Reset
INVARIANTS
    ConfigIntact
CHECK_DEADLOCK FALSE
