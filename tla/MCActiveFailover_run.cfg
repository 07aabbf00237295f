SPECIFICATION FairSpec
CONSTANTS
    Nodes = {n1, n2, n3}
    NoNode = NoNode
INVARIANTS
    TypeOK
    JamKillsLeader
    SuccessIsFailover
    FlaggedHaveFrontend
    OldLeaderMustFollow
PROPERTY
    RunEnds
CHECK_DEADLOCK FALSE
