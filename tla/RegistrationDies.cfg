CONSTANTS
    Admins = 2
    RegistryTries = 2
    RemoveTries = 2
    UnexpectedReplies = TRUE
SPECIFICATION FairSpec
CHECK_DEADLOCK FALSE
PROPERTIES
    RegistersContinually
