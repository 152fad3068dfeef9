CONSTANTS
    j1 = j1
    j2 = j2
    a = a
    b = b
    c = c
    d = d
    NoLog = NoLog
    Jobs = {j1, j2}
    Logs = {a, b, c, d}
    JobOf <- MCUnevenJobsOf
    MaxQueue = 2
    MaxAccepts = 4
    Instrumented = TRUE
SPECIFICATION Spec
CHECK_DEADLOCK FALSE
INVARIANTS
    OneTaskPerJob
    HeldOnce
    DedupMatchesHeld
    NothingStranded
    ReplacedTaskIsStopping
    AnsweredExactlyOnce
    ServedInOrder
    ShutdownStartsNothing
    ClosedMeansSettled
