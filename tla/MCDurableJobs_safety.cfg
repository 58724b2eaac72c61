SPECIFICATION Spec
CONSTANTS
    t1 = t1  t2 = t2  t3 = t3  w1 = w1  w2 = w2
    Jobs = {j1}
    Uncancellable = {}
    Workers = {w1, w2}
    Threads <- ThreeThreads
    ProcessOf <- SharedProcess
    Tokens = {k1, k2, k3}
    Cancellers = {c1}
    NoWorker = NoWorker  NoToken = NoToken  NoJob = NoJob
    Nobody = Nobody  Gone = Gone
    MaxAttempts = 2
    MaxFaults = 2
    Dialect = "postgresql"
SYMMETRY NonceSymmetry
INVARIANTS OneOwner
PROPERTIES OwnerDecides ImplementsLifecycle
