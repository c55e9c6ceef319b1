SPECIFICATION FairSpec
CONSTANTS
    Resumes = {r1}
    MaxRounds = 3
    MinRounds = 3
    MaxRetries = 1
    Faults <- NoFault
    CtsDown = TRUE
PROPERTIES
    StartedRunEnds
