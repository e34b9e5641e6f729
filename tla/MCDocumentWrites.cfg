CONSTANTS
    Units = {u, w}
    Broken = Broken
    NoFile = NoFile
    MaxPresses = 2
    MaxSaves = 2
    MaxChanges = 3
    MaxFaults = 1
    MaxQuits = 2
    Returns = FALSE
SPECIFICATION Spec
SYMMETRY UnitSymmetry
INVARIANTS
    HandWorkKept
    HandEditsStand
    RevisionIsTheFile
    OwedHasATrigger
CHECK_DEADLOCK FALSE
