CONSTANTS
    MaxChanges = 2
    MaxFaults = 1
    MaxNews = 0
    MaxQuits = 0
SPECIFICATION Spec
INVARIANT SentinelVouches
CHECK_DEADLOCK FALSE
