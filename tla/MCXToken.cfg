CONSTANTS
    Proc = {daemon, adapter}
    MaxTokens = 4
    MaxDeaths = 1
SPECIFICATION FairSpec
INVARIANTS
    TypeOK
    NotStranded
PROPERTY
    RefreshEnds
CHECK_DEADLOCK FALSE
