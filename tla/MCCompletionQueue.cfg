SPECIFICATION FairSpec
CONSTANTS
    Pages = 2
    MaxRead = 3
    MaxXfer = 2
    MaxEntries = 3
    Ops = {"event", "read", "blockingRead", "finish"}
    CloseAfterFinish = TRUE
INVARIANTS
    TypeOK
    RingContent
    PagesIntact
    EventMeansRead
PROPERTIES
    FinishDrains
    BlockingReadHasData
    ClientReturns
    EventsComplete
