CONSTANTS
    MaxChanges = 2
    MaxFaults = 2
    MaxNews = 4
    MaxQuits = 2
SPECIFICATION FairSpec
INVARIANTS
    NothingOwedIsOnDisk
    SentinelVouchesUnlessLost
PROPERTIES
    ChangesReachTheDisk
CHECK_DEADLOCK FALSE
