CONSTANTS
    Folders <- Here
    Targets <- HereAsked
    FolderOf <- HereOnly
    NoFolder = NoFolder
    NoTarget = NoTarget
    MaxQuestions = 2
    MaxVerbs = 2
    MaxShares = 2
    Bound = 2
SPECIFICATION Spec
INVARIANTS
    OneVerbAtATime
    NeverBoth
    ReadsFollowPresses
    PressesFollowReads
    AskedWillRun
    NoTurnIsMissed
    NoCircularWait
PROPERTIES
    NoStaleReading
CHECK_DEADLOCK FALSE
