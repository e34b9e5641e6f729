CONSTANTS
    MaxMinted = 4
    Bound = 3
    PerStreak = FALSE
    Words = {}
    NoWord = NoWord
    Tables = {before, after}
SPECIFICATION FairSpec
INVARIANTS
    StandingAnswersEverything
    AnswersAreFresh
    TakenInOrder
PROPERTIES
    RequestsAreAnswered
    KeepsThePromise
CHECK_DEADLOCK FALSE
