CONSTANTS
    MaxMinted = 3
    Bound = 2
    PerStreak = FALSE
    Words = {}
    NoWord = NoWord
    Left = left
    Right = right
    Tab = tab
    NoWindow = NoWindow
    Policies <- LanePolicies
SPECIFICATION FairSpec
INVARIANTS
    OwedIsReachable
    AnswersInOrder
    NoAnswerIsMissed
PROPERTIES
    RequestsAreAnswered
    KeepsThePromise
CHECK_DEADLOCK FALSE
