SPECIFICATION Spec
CONSTANTS
    Attempts = {1}
    Pids = {100}
    StopSlots = 2
    Setups <- SetupShared
    Users = {"root", "member", "owner", "other"}
    Primary = {"owner"}
    MaxLives = 1
CHECK_DEADLOCK FALSE
INVARIANT MembersReach
