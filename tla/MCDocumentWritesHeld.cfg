CONSTANTS
    Units = {u, w}
    Broken = Broken
    NoFile = NoFile
    MaxPresses = 1
    MaxSaves = 2
    MaxChanges = 3
    MaxFaults = 0
    MaxQuits = 0
    Returns = FALSE
SPECIFICATION Spec
SYMMETRY UnitSymmetry
INVARIANT HoldEndsWhenFileParses
CHECK_DEADLOCK FALSE
