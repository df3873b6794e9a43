SPECIFICATION Spec
CONSTANTS
    Names = {1, 2}
    SearchIds = {1, 2}
    DiagnosticsIds = {3}
    Crashing = {"search"}
    MaxReadyAttempts = 2
    MaxResets = 1
CHECK_DEADLOCK FALSE
INVARIANTS
    ClosedHasNoTask
