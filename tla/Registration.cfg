CONSTANTS
    Admins = 2
    RegistryTries = 3
    RemoveTries = 2
    UnexpectedReplies = TRUE
SPECIFICATION FairSpec
CHECK_DEADLOCK FALSE
INVARIANTS
    TypeOK
    FailureIsExhaustive
    RemovedStaysRemoved
PROPERTIES
    KeepsRegistered
    RemovalSettles
