\* Two writers, lock based; the ring is small enough to be full and to wrap around.
SPECIFICATION FairSpec
CONSTANTS
    Writers = {w1, w2}
    Values = {a, b}
    RingBufferSize = 3
    LockBased = TRUE
    NoThread = NoThread
    NULL = NULL
INVARIANTS
    TypeOK
    NoSlotRace
PROPERTIES
    ImplementsFifo
    PushCompletes
