SPECIFICATION FairSpec
CONSTANTS
    w1 = w1
    w2 = w2
    w3 = w3
    Workers = {w1, w2, w3}
    MaxReadyAttempts = 2
    MaxRuns = 4
    MaxResets = 3
    NoWorker = NoWorker
INVARIANTS
    TypeOK
    OneWorkerAtATime
    RuntimeAgrees
    ClosedIsQuiet
    ResetsMeetTheirWorker
PROPERTIES
    GraceKillsOnlyCancelled
    CancelSettles
    QueuedRunMovesOn
    CloseCompletes
