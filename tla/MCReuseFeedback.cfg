CONSTANTS
    Messages = {"hi", "Hi!", "bye", "???"}
    Requests = {"hi", "bye", ""}
    Normalize <- MCNormalize
    Unstorable = {""}
    TTL = 1
    StorageMayFail = TRUE
    MaxClock = 2
    MaxAnswers = 2
SPECIFICATION ReuseSpec
INVARIANTS
    FeedbackStaysWithItsAnswer
    ReuseNeedsApproval
PROPERTIES
