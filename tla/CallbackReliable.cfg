CONSTANTS
    r1 = r1
    r2 = r2
    r3 = r3
    NoRequest = NoRequest
    Requests = {r1, r2}
    Unserialisable = {}
    MaxCrashes = 2
    TornWrites = FALSE
SPECIFICATION FairSpec
INVARIANTS
    PendingIsExact
    NothingVanishes
    DrainedMeansDelivered
PROPERTIES
    StayingUpDelivers
    StopCompletes
    ImplementsOutbox
