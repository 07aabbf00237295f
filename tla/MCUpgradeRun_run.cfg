CONSTANTS
    NumScenarios = 3
    Kinds = {"rpm", "deb", "tar", "nsis"}
SPECIFICATION Spec
INVARIANTS TypeOK  LeavesAtMostOld
