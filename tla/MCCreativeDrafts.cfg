CONSTANTS
    a = a
    b = b
    Workspaces = {a, b}
    w1 = w1
    w2 = w2
    d1 = d1
    d2 = d2
    r1 = r1
    r2 = r2
    Workers = {w1, w2}
    Deciders = {d1, d2}
    Requesters = {r1, r2}
    None = None
    MaxAttempts = 2
    Worst = 2
    Costs = {1, 2}
    WorkspaceCeiling = 3
    GlobalCeiling = 4
    CallCeiling = 2
    MaxDay = 2
    MaxCalls = 3
    Occasions <- Cases
SPECIFICATION Spec
SYMMETRY Interchangeable
INVARIANTS RevokesFollowApprovals CeilingsHold OffMeansQuiet OneDraftPerJob OneLiveJob
CHECK_DEADLOCK FALSE
