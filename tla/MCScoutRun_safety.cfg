SPECIFICATION Spec
CONSTANTS
    Jobs = {j1, j2}
    Threads = {t1, t2}
    Editors = {e1, e2}
    Cancellable = {}
    Scheduled = FALSE
    NoJob = NoJob
    MaxAttempts = 2
    MaxFence = 1
    MaxFaults = 1
SYMMETRY ThreadAndEditorSymmetry
INVARIANTS StrandedOnlyByStops
PROPERTIES ValidOwnerKeepsScout OldRunsChangeNothing ImplementsScoutLifecycle
CHECK_DEADLOCK FALSE
