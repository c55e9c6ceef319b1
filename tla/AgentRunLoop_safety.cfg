SPECIFICATION FairSpec
CONSTANTS
    Resumes <- MCResumes
    Strategies = {s1, s2}
    NoStrategy = NoStrategy
    RawScores <- MCRawScores
    ScoreCap = 2
    MaxRounds = 4
    AgentMinRounds = 3
    FinalTopK = 2
INVARIANTS
    TypeOK
    AnalysedOnce
    ShortlistIsTopOfAll
    LedgerIsAProtocol
    StopIsJustified
    NoRoundAfterStopCondition
PROPERTIES
    RunEnds
    ImplementsLifecycle
