SPECIFICATION FairWatchSpec
CONSTANTS
    NoTunnel = NoTunnel
    Absent = Absent
    Devices <- MCDevices
    MaxReconnects = 3
CHECK_DEADLOCK FALSE
INVARIANT SameGenerationSameTunnel
INVARIANT PublishedIsOpen
PROPERTY LossIsNoticed
