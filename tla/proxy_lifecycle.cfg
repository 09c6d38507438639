SPECIFICATION FairSpec
CONSTANTS
    Clients = {c1, c2}
    Addrs = {v4}
    Domains = {corp}
    Pushes <- MCPushes
    Fallback <- MCFallback
    CarriesV6 <- MCCarriesV6
    MaxSessions = 2
    MaxCandidates = 2
CHECK_DEADLOCK FALSE
INVARIANT ListenerIsOwn
INVARIANT GaugeCounts
PROPERTY StopEndsSessions
PROPERTY KeepsPromise
