SPECIFICATION Spec
CONSTANTS
    Pages = 2
    MaxRead = 1
    MaxXfer = 1
    MaxEntries = 3
    Ops = {"blockingRead"}
    CloseAfterFinish = FALSE
INVARIANTS
    NoReadsInFlight
