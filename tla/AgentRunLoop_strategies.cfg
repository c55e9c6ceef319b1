SPECIFICATION Spec
CONSTANTS
    Resumes <- MCTwoResumes
    Strategies = {s1, s2}
    NoStrategy = NoStrategy
    RawScores <- MCOneScore
    ScoreCap = 2
    MaxRounds = 4
    AgentMinRounds = 3
    FinalTopK = 1
INVARIANTS
    NoRepeatedStrategy
