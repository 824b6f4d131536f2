CONSTANTS
    MaxGen = 2
    MaxSeq = 3
    MaxRecords = 4
    MaxCrashes = 1
SPECIFICATION Spec
INVARIANTS
    TypeOK
    CompleteIsHeld
    OpenIsUnfrozen
