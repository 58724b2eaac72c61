SPECIFICATION FairSpec
CONSTANTS
    j1 = j1  m1 = m1  m2 = m2  brief = brief
    Meters <- Attempts
    Jobs = {j1}
    JobOf <- OneJob
    NoJob = NoJob  NoMeter = NoMeter
    CallCap = 2
    Budget = 5
    Worsts = {2}
    Reports = {1}
    MaxMonth = 1
    MaxFaults = 1
PROPERTIES NothingLeaks
CHECK_DEADLOCK FALSE
