SPECIFICATION WatchSpec
CONSTANTS
    Families <- MCFamilies
    Plan <- MCPlan
    Cleanup <- MCCleanup
    MaxPasses = 4
    MaxCopies = 2
    MaxDeletions = 2
    MaxCrashes = 1
    Faults = FALSE
    Setups <- MCSetups
    SocketRoom = 4
    TriggerQueue = 2
PROPERTY DeletionIsActedOn
