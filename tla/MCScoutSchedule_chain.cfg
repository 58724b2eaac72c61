SPECIFICATION FairSpec
CONSTANTS
    r1 = r1  r2 = r2  c1 = c1  c2 = c2
    Requests = {r1, r2}
    Customers = {c1, c2}
    MayCall <- Roles
    Slots = {1, 2}
    Cap = 1
    MaxSchedules = 2
    MaxAttempts = 2
    MaxFaults = 2
    Nobody = Nobody
INVARIANTS OneChain CapHolds ScheduledRunsDoNotPileUp ChainLostOnlyBy
CHECK_DEADLOCK FALSE
PROPERTIES RecurrenceGoesOn
