\* prefetch_hd and prefetch_h: the issue queue is exactly as large as the TT_FATAL demands.
SPECIFICATION FairSpec
CONSTANTS
    Entries = 2
    MaxCmd = 2
    IssueSize = 8
    CmddatSize = 4
    None = None
INVARIANTS
    TypeOK
    ProcessesInOrder
    IssueDataIntact
    ExecBufAlone
PROPERTIES
    AllProcessed
    HostNeverStuck
