CONSTANTS
    NumScenarios = 2
    Modes = {"all", "install", "system", "tests", "uninstall"}
    MayFail = TRUE
SPECIFICATION Spec
INVARIANTS
    TypeOK
    AllRunUninstalls
    AllRunDeploysAlone
    NothingLeftRunning
    CleanupFindsPackage
