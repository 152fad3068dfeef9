CONSTANTS
    r1 = r1
    r2 = r2
    r3 = r3
    NoRequest = NoRequest
    Requests = {r1, r2}
    Unserialisable = {r1}
    MaxCrashes = 2
    TornWrites = FALSE
SPECIFICATION Spec
INVARIANTS
    NothingVanishes
