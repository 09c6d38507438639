SPECIFICATION FairWatchSpec
CONSTANTS
    Families <- MCFamilies
    Plan <- MCPlan
    Cleanup <- MCCleanup
    MaxPasses = 4
    MaxCopies = 2
    MaxDeletions = 2
    MaxCrashes = 1
    Faults = FALSE
    Setups <- MCSetups
    SocketRoom = 1
    TriggerQueue = 1
INVARIANT NoDuplicates
INVARIANT NothingIsMissed
PROPERTY RestoredByWatchdog
PROPERTY StopsAreServed
