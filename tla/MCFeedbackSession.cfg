SPECIFICATION Spec
CONSTANTS
    t1 = t1
    t2 = t2
    Tabs = {t1, t2}
    Cap = 1
    MaxSessions = 2
    MaxIds = 3
    MaxLog = 3
SYMMETRY TabSymmetry
CHECK_DEADLOCK FALSE
INVARIANTS
    FeedbackTypeOK
    LearnedIsReplay
    TabAgrees
    NoConflictWithOneself
    ExclusiveControls
