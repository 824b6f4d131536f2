CONSTANTS
    Peer = {p, q}
    Self = self
    PoemLength = 2
    MaxAnalysis = 1
    MaxWords = 1
    MaxNotes = 0
    MaxRoom = 2
    MaxChat = 0
    MaxCrashes = 0
SPECIFICATION FairSpec
PROPERTIES
    CompletionIsLearned
CHECK_DEADLOCK FALSE
