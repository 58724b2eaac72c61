SPECIFICATION FairSpec
CONSTANTS
    t1 = t1  t2 = t2  t3 = t3  w1 = w1  w2 = w2
    Jobs = {j1}
    Uncancellable = {}
    Workers = {w1, w2}
    Threads <- TwoThreads
    ProcessOf <- TwoProcesses
    Tokens = {k1, k2}
    Cancellers = {c1}
    NoWorker = NoWorker  NoToken = NoToken  NoJob = NoJob
    Nobody = Nobody  Gone = Gone
    MaxAttempts = 2
    MaxFaults = 1
    Dialect = "sqlite"
PROPERTIES EveryJobEnds DrainEnds LegalTransitions
