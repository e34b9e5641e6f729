CONSTANTS
    MaxMinted = 3
    Bound = 2
    PerStreak = FALSE
    Words = {refused}
    NoWord = NoWord
    Requesters = {window}
    Worker = worker
SPECIFICATION LedgerFairSpec
INVARIANTS
    BookWhole
    JoinsEndWithTheirTwin
    SunkOnce
PROPERTIES
    SinkHears
    KeepsTheSeam
CHECK_DEADLOCK FALSE
