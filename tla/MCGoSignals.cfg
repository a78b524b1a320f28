SPECIFICATION FairSpec
CONSTANTS
    Modes = {"same", "distributed", "master"}
    McastCores = {m1, m2}
    UnicastCores = {u1}
    PagesD = 3
    PagesS = 2
    MaxExpected = 4
    None = None
INVARIANTS
    TypeOK
PROPERTIES
    GoSafe
    WaitMeansDone
    AllServed
