\* Two parts; the fourth id bounds how often a part can be posted again.
CONSTANTS
    PartCount = 2
    PostIds = {x1, x2, x3, x4}
    NoPost = NoPost
SPECIFICATION Spec
SYMMETRY PostIdSymmetry
INVARIANTS
    TypeOK
    FinishedIsOneThread
PROPERTY LedgerRemembers
