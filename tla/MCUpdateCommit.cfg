CONSTANTS
    OldNames = {"folio.exe"}
    NewNames = {"folio.exe"}
    Alike = {}
    StuckLimit = 2
    Turns = 4
    MaxTrials = 2
    MaxFaults = 3
SPECIFICATION Spec
INVARIANT CommittedIsNew
CHECK_DEADLOCK FALSE
