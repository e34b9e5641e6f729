CONSTANTS
    OldNames = {"folio.exe", "folio.dat"}
    NewNames = {"folio.exe", "conpty.dll"}
    Alike = {}
    StuckLimit = 2
    Turns = 4
    MaxTrials = 2
    MaxFaults = 2
SPECIFICATION Spec
INVARIANTS
    WholeSets
    EntranceStands
    DeclaredIsNeverHeard
CHECK_DEADLOCK FALSE
