SPECIFICATION FairSpec
CONSTANTS
    PageSize = 2
    BlockPages = 2
    Blocks = 4
    HalfSize = 5
    Preamble = 0
    XferSize = 2
    LargeSize = 1
    Alignment = 2
    Commands = {"linear", "paged", "packed", "large", "relay"}
    Lengths <- MCLengths
    None = None
INVARIANTS
    TypeOK
    DataIntact
    PagesConserved
PROPERTIES
    RelayNeverStuck
    BothTerminate
