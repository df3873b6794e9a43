SPECIFICATION SchedulerFairSpec
CONSTANTS
    w1 = w1
    w2 = w2
    Workers = {w1, w2}
    MaxReadyAttempts = 2
    MaxRuns = 2
    MaxResets = 2
    MaxGeneration = 6
    NoWorker = NoWorker
CHECK_DEADLOCK FALSE
INVARIANTS
    OneChain
    NoHiddenRun
PROPERTIES
    ShutdownCompletes
