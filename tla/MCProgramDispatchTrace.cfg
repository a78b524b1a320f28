SPECIFICATION Spec
CONSTANTS
    NumTypes = 1
    RingSize <- TinySize
    EntryCount = 2
    LaunchEntries = 2
    MaxSize = 1
    MaxExpected = 3
    MaxQueue = 11
    MaxTrace = 3
    Traces = TRUE
    NoTrace = NoTrace
    Idle = Idle
    Reset = Reset
INVARIANTS
    TypeOK
    LaunchInSync
    WaitsForAll
CHECK_DEADLOCK FALSE
