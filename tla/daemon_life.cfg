SPECIFICATION FairSpec
CONSTANTS
    Attempts = {1, 2}
    Pids = {100}
    StopSlots = 2
    Setups <- SetupsMC
    Users = {"root", "member", "owner", "other"}
    Primary = {"owner"}
    MaxLives = 2
CHECK_DEADLOCK FALSE
INVARIANT ChildIsSetUp
INVARIANT NoDirectoryIsForgotten
INVARIANT MembersAreServed
PROPERTY StopsWhenTold
