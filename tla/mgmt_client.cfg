SPECIFICATION FairMgmtSpec
CONSTANTS
    Callers = {c1, c2}
    Params <- MCParams
    Versions = {4, 5, 6}
    OutboxLimit = 5
    ChannelSize = 2
    EventChannel = 2
    MaxHolds = 1
CHECK_DEADLOCK FALSE
INVARIANT ExchangeIsOwn
INVARIANT ConnectIsComplete
PROPERTY NothingHangs
