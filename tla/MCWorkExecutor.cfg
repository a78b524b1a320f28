\* Two clients that switch the mode back and forth.
SPECIFICATION FairSpec
CONSTANTS
    Clients = {c1, c2}
    MaxWork = 2
    MaxSwitch = 4
    Nesting <- NestingItems
    NoClient = NoClient
INVARIANTS
    TypeOK
    RunsInOrder
    StoppedIsDrained
    NeverPopsEmpty
PROPERTIES
    SynchronizeDrains
    CallsReturn
    WorkRuns
CHECK_DEADLOCK FALSE
