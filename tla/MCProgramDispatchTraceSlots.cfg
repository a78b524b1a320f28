SPECIFICATION Spec
CONSTANTS
    NumTypes = 2
    RingSize <- SameSize
    EntryCount = 3
    LaunchEntries = 2
    MaxSize = 1
    MaxExpected = 3
    MaxQueue = 8
    MaxTrace = 1
    Traces = TRUE
    NoTrace = NoTrace
    Idle = Idle
    Reset = Reset
INVARIANTS
    LaunchInSync
CHECK_DEADLOCK FALSE
