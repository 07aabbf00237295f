SPECIFICATION FairSpec
CONSTANTS
    Chunks = 4
    Parallelity = 3
    DbCount = 3
    DbOffset = 2
    MayFail = TRUE
    MayRaise = TRUE
INVARIANTS
    TypeOK
    NoDatabaseTwice
    SomebodyWillSpeak
PROPERTIES
    ImplementsJobPool
    StressEnds
CHECK_DEADLOCK FALSE
