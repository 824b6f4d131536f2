\* Two games, so that receipts of the first can be replayed in the second; one
\* more packet than a game may use, and receipts for one of them twice.
CONSTANTS
    GameCount = 2
    PacketsPerGame = 2
    MaxAttempts = 2
    MaxReceipts = 2
    MaxCrashes = 1
SPECIFICATION FairSpec
INVARIANTS
    TypeOK
    OnePacketPerGame
    SentIsAnswerable
    ReleaseJustified
PROPERTIES
    SettledForGood
    AcceptanceIsLearned
    ReleaseReturnsEligibility
\* After the deadline everything may have been said.
CHECK_DEADLOCK FALSE
