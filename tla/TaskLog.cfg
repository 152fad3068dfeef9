CONSTANTS
    MaxLines = 4
    MaxFrom = 4
    Page = 2
    Kept = 3
SPECIFICATION FairSpec
CHECK_DEADLOCK FALSE
INVARIANTS
    TypeOK
    NeverTwice
    CompleteLogIsReadWhole
    DiskSkipsOnePerEmptyAnswer
PROPERTIES
    OldLogGoes
