SPECIFICATION Spec
CONSTANTS
    Strategies = {s1, s2}
    MaxRounds = 4
    RawSchedules <- AllSchedules
    MaxTotal = 9
INVARIANTS
    TypeOK
    PagesAreContiguous
PROPERTIES
    SearchesAdvance
