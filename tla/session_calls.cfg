SPECIFICATION FairSpec
CONSTANTS
    c1 = c1
    c2 = c2
    d1 = d1
    d2 = d2
    None = None
    Connects = {c1, c2}
    Disconnects = {d1, d2}
    Shutdown = {d2}
    Plans <- PlansMC
CHECK_DEADLOCK FALSE
INVARIANT NothingIsOrphaned
INVARIANT ListenerIsCovered
INVARIANT StateIsTrue
PROPERTY NothingHangs
