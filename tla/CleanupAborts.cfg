CONSTANTS
    r1 = r1
    r2 = r2
    r3 = r3
    NoRequest = NoRequest
    Requests = {r1, r2}
    Unserialisable = {}
    MaxCrashes = 0
    TornWrites = FALSE
SPECIFICATION LifecycleSpec
INVARIANTS
    CleanupKeepsResults
