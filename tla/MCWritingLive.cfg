CONSTANTS
    Peer = {p}
    Self = self
    PoemLength = 1
    MaxAnalysis = 1
    MaxWords = 1
    MaxNotes = 1
    MaxRoom = 2
    MaxChat = 1
    MaxCrashes = 1
SPECIFICATION FairSpec
PROPERTIES
    AnswerIsLearned
    StallIsBroken
CHECK_DEADLOCK FALSE
