SPECIFICATION Spec
CONSTANTS
    Names = {1, 2}
    SearchIds = {1, 2}
    DiagnosticsIds = {3}
    Crashing = {"search"}
    MaxReadyAttempts = 2
    MaxResets = 2
CHECK_DEADLOCK FALSE
INVARIANTS
    OneWorkerPerRole
    AtRestStaffed
    OldConfigurationIsGone
    NothingRunsForgotten
    NoSearchIsStranded
PROPERTIES
    ResetHitsTheCulprit
