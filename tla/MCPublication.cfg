\* A thread of two parts; the third id leaves room for a duplicate of either.
\* No symmetry: it is unsound for liveness.
CONSTANTS
    PartCount = 2
    PostIds = {x1, x2, x3}
    NoPost = NoPost
SPECIFICATION FairSpec
INVARIANTS
    TypeOK
    AtMostOnePost
    ThreadLineage
    NotSentIsAbsent
    ConfirmedIsPublished
PROPERTIES
    NoBlindRetry
    ImplementsPoemThread
    LostAnswerRecovered
    NotSentIsRetried
\* After the deadline, or once the phase is SUBMIT, publication is over.
CHECK_DEADLOCK FALSE
