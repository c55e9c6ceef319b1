SPECIFICATION Spec
CONSTANTS
    Resumes = {r1, r2}
    MaxRounds = 4
    MinRounds = 3
    MaxRetries = 2
    Faults <- Crashes
    CtsDown = FALSE
INVARIANTS
    TypeOK
    PatchesRepeatWhole
    AdmittedOnce
    SnapshotIsCurrent
PROPERTIES
    ImplementsLifecycle
