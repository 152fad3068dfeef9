CONSTANTS
    j1 = j1
    j2 = j2
    a = a
    b = b
    c = c
    d = d
    NoLog = NoLog
    Jobs = {j1}
    Logs = {a, b, c, d}
    JobOf <- MCOneJobOf
    MaxQueue = 1
    MaxAccepts = 3
    Instrumented = FALSE
SPECIFICATION FairSpec
CHECK_DEADLOCK FALSE
INVARIANTS
    TypeOK
    IdleBeatTruthful
PROPERTIES
    EveryTriggerAnswered
    ReplacementTakesOver
    CloseEnds
    ImplementsService
