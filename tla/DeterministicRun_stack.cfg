SPECIFICATION Spec
CONSTANTS
    HighSignalTerms <- MCTerms
    MustSignals <- MCMustSignals
    WorkContentTerms <- MCWorkContent
    DefaultTerm = "target role"
    Attempts <- MCAttempts
    Texts <- MCTexts
    Scenarios <- MCScenarios
    MaxResumes = 3
    MaxRounds = 4
    AgentMinRounds = 3
    FinalTopK = 2
    NoStrategy = NoStrategy
INVARIANTS
    TypeOK
    FruitlessIsFinal
    LinkedPromptIsOwn
    TreeMirrorsLedger
    RowTraceIsComplete
    SuiteReadsOutcome
    ReflectorSeesRun
PROPERTY ImplementsLifecycle
