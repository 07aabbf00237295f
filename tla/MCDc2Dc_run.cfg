CONSTANTS
    MaxPolls = 20
    MayFail = TRUE
SPECIFICATION Spec
INVARIANTS TypeOK PassedMeansReplicated SyncersIdentified
