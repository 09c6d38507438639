SPECIFICATION Spec
CONSTANTS
    Families <- MCFamilies
    Plan <- MCPlan
    Cleanup <- MCCleanup
    MaxPasses = 4
    MaxCopies = 2
    MaxDeletions = 2
    MaxCrashes = 1
    Faults = TRUE
INVARIANT MissingOnlyIfTampered
INVARIANT FailClosed
INVARIANT LowerLayersOutlast
INVARIANT RefusedMeansClean
INVARIANT SuccessMeansClean
PROPERTY NothingComesBack
