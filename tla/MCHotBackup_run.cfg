CONSTANTS
    DBServers = 3
    MayFail = TRUE
SPECIFICATION FairSpec
INVARIANTS HBTypeOK RestoreAwaited RestoreIsTested
PROPERTY RunEnds
