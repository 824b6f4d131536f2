CONSTANTS
    GameCount = 2
    MaxActions = 5
    MaxRoom = 6
    MaxCrashes = 0
SPECIFICATION Spec
INVARIANTS
    NoConflictingCommitment
CHECK_DEADLOCK FALSE
