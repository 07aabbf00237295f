CONSTANTS
    Starters = 3
    Kinds = {"cluster", "perf", "remote_perf"}
    Tries = 2
    MaxPolls = 1
    MayFail = TRUE
SPECIFICATION FairSpec
INVARIANTS TypeOK FrontendsServe NeverMissing
PROPERTY RunEnds
