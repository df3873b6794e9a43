SPECIFICATION FairSpec
CONSTANTS
    w1 = w1
    w2 = w2
    w3 = w3
    Workers = {w1, w2}
    MaxReadyAttempts = 2
    MaxRuns = 3
    MaxResets = 2
    NoWorker = NoWorker
INVARIANTS
    DegradedHasNoRun
