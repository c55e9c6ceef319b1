SPECIFICATION FairSpec
CONSTANTS
    Resumes = {r1}
    MaxRounds = 3
    MinRounds = 3
    MaxRetries = 1
    Faults <- LostDispatch
    CtsDown = FALSE
PROPERTIES
    RunSettles
