SPECIFICATION Spec
CONSTANTS
    MaxFileBytes = 40
    MaxDirectives = 3
    MaxLineBytes = 11
    MaxInlineBytes = 6
    MaxInlineBlocks = 2
    MaxArgs = 4
    Tasks <- TasksMC
    MaxSuffix = 2
    MaxBase = 4
    MaxId = 5
    MaxPrompts = 2
    OutboundLimit = 1
    Setups <- SetupsMC
    MaxQuestions = 3
    MaxStep = 1
    Plans <- PlansMC
    MaxRestarts = 1
CHECK_DEADLOCK FALSE
INVARIANT ProfilesAreCanonical
INVARIANT NothingIsResent
PROPERTY NoOverwrite
