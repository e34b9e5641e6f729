CONSTANTS
    First = first
    Second = second
    Third = third
    Processes <- Three
    NoProcess = NoProcess
    Waiters = {third}
    Sweepers = {third}
    Files = {f1, f2, f3}
    NoFile = NoFile
    Attempts = 2
SYMMETRY Alike
SPECIFICATION Spec
INVARIANTS
    OneWriter
    NoSweepMeetsAClaim
    WriterIsWhole
PROPERTIES
    IsOneClaim
