CONSTANTS
    DataOps = 2
    Tries = 3
    MayBreak = TRUE
SPECIFICATION LFSpec
INVARIANTS LFTypeOK UpgradedWhenChecked PassedMeansReplicated
