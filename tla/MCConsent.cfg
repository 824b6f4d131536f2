CONSTANTS
    GameCount = 2
    MaxActions = 4
    MaxRoom = 4
    MaxCrashes = 1
SPECIFICATION FairSpec
INVARIANTS
    TypeOK
    OneConsentOut
    SentIsOnRecord
    WritingIsReady
PROPERTY
    ReadyIsLearned
CHECK_DEADLOCK FALSE
