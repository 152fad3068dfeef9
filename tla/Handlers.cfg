CONSTANTS
    Runs = 2
    MaxInterrupts = 2
    ThreadRuns = 2
    Workers = 1
SPECIFICATION FairSpec
CHECK_DEADLOCK FALSE
INVARIANTS
    TypeOK
    StoppedBeforeOver
    DeliveredResultIsRead
PROPERTIES
    StartEndsUnlessStarved
