SPECIFICATION FairSpec
CONSTANTS
    Jobs = {j1, j2}
    Threads = {t1}
    Editors = {e1}
    Cancellable = {j1}
    Scheduled = TRUE
    NoJob = NoJob
    MaxAttempts = 2
    MaxFence = 1
    MaxFaults = 1
PROPERTY RunsSettle
CHECK_DEADLOCK FALSE
