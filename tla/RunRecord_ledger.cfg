SPECIFICATION Spec
CONSTANTS
    Resumes = {r1}
    MaxRounds = 3
    MinRounds = 3
    MaxRetries = 1
    Faults <- SlowPatches
    CtsDown = FALSE
PROPERTIES
    LedgerAppendOnly
