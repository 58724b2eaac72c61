SPECIFICATION Spec
CONSTANTS
    o1 = o1
    o2 = o2
    t1 = t1
    t2 = t2
    Sources = {1, 2}
    Threads = {t1, t2}
    Operators = {o1, o2}
    Interval = 2
    MaxDoublings = 1
    Day = 4
    Pauses = {3}
    MaxAttempts = 2
    MaxRequests = 1
    Occasions <- Cases
INVARIANTS SuppressedForGood PoliteFloor NotModifiedIsAnswered
PROPERTIES RetryAfterHolds TakedownEnds
CHECK_DEADLOCK FALSE
