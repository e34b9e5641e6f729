CONSTANTS
    Folders <- Both
    Targets <- BothAsked
    FolderOf <- HereOrThere
    NoFolder = NoFolder
    NoTarget = NoTarget
    MaxQuestions = 2
    MaxVerbs = 1
    MaxShares = 1
    Bound = 2
SPECIFICATION FairSpec
PROPERTIES
    QuestionsAreAnswered
    VerbsEnd
    OthersAreAnsweredMeanwhile
CHECK_DEADLOCK FALSE
