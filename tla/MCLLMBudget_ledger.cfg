SPECIFICATION Spec
CONSTANTS
    j1 = j1  m1 = m1  m2 = m2  brief = brief
    Meters <- AttemptsAndBrief
    Jobs = {j1}
    JobOf <- OneJobAndBrief
    NoJob = NoJob  NoMeter = NoMeter
    CallCap = 1
    Budget = 3
    Worsts = {2}
    Reports = {1, 3}
    MaxMonth = 2
    MaxFaults = 1
SYMMETRY AttemptSymmetry
INVARIANTS BudgetHolds PeriodsBalance UsageRecorded CallsAreSerial
PROPERTIES ChargesAreFinal
CHECK_DEADLOCK FALSE
