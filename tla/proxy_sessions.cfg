SPECIFICATION FairSpec
CONSTANTS
    Slots = {s1, s2}
    Peers <- MCPeers
    AllowedCidrs <- MCCidrs
    Listeners <- MCListeners
    AnswerLists <- MCAnswers
    Burst = 2
    MaxTracked = 2
    MaxTicks = 1
CHECK_DEADLOCK FALSE
INVARIANT DialledIsAllowed
INVARIANT GuessesAreBounded
INVARIANT ReportsAreTrue
PROPERTY ThrottleSurvivesFlood
PROPERTY SessionsMoveOn
