SPECIFICATION FairLinkSpec
CONSTANTS
    MaxPrompts = 2
    OutboundLimit = 1
    Callers <- CallersMC
    Plans <- PlansMC
    MaxConns = 2
    Typed = {"pair", "cancel"}
    WriteQueue = 1
CHECK_DEADLOCK FALSE
INVARIANT AnswerIsOwn
INVARIANT PromptsAreWithdrawn
INVARIANT AnsweredMeansOver
PROPERTY NothingHangs
