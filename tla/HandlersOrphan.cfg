CONSTANTS
    Runs = 2
    MaxInterrupts = 2
    ThreadRuns = 2
    Workers = 1
SPECIFICATION Spec
CHECK_DEADLOCK FALSE
INVARIANTS
    OneHandlerAtATime
