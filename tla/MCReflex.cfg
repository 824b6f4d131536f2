CONSTANTS
    MaxSeq = 2
    MaxCrashes = 1
SPECIFICATION Spec
INVARIANTS
    TypeOK
    AnsweredOnce
PROPERTIES
    NothingPassedOver
    NudgesAreSpaced
