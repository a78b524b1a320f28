SPECIFICATION Spec
CONSTANTS
    NumTypes = 1
    RingSize <- SameSize
    EntryCount = 3
    LaunchEntries = 2
    MaxSize = 3
    MaxExpected = 3
    MaxQueue = 8
    MaxTrace = 1
    Traces = TRUE
    NoTrace = NoTrace
    Idle = Idle
    Reset = Reset
INVARIANTS
    ConfigIntact
CHECK_DEADLOCK FALSE
