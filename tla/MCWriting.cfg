CONSTANTS
    Peer = {p}
    Self = self
    PoemLength = 2
    MaxAnalysis = 1
    MaxWords = 2
    MaxNotes = 1
    MaxRoom = 4
    MaxChat = 1
    MaxCrashes = 1
SPECIFICATION Spec
INVARIANTS
    TypeOK
    OneWordOut
    NeverTwiceInARow
    DecidesOnOneState
CHECK_DEADLOCK FALSE
