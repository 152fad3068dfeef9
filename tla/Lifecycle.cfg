CONSTANTS
    r1 = r1
    r2 = r2
    r3 = r3
    NoRequest = NoRequest
    Requests = {r1, r2, r3}
    Unserialisable = {r3}
    MaxCrashes = 2
    TornWrites = TRUE
SPECIFICATION LifecycleFairSpec
INVARIANTS
    LifecycleTypeOK
    OneAttemptAtATime
    ResultsSurvive
PROPERTIES
    CleanupEnds
