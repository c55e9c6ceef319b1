SPECIFICATION FairSpec
CONSTANTS
    MaxStarts = 2
    MaxLoads = 2
CHECK_DEADLOCK FALSE
INVARIANTS
    TypeOK
    NeverDeaf
    LoadingHasRequest
PROPERTIES
    StartingEnds
    PollingStops
    OutcomeIsShown
