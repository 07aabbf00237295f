SPECIFICATION Spec
CONSTANTS
    MaxBuild = 3
    PublishDuringRun = FALSE
INVARIANTS
    TypeOK
    RecordedWasTested
    TestsWhatItFetched
