SPECIFICATION Spec
CONSTANTS
    MaxBuild = 2
    PublishDuringRun = FALSE
INVARIANT
    SkipsOnlyTested
