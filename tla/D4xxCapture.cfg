SPECIFICATION FairSpec
CONSTANTS
    DeviceCount = 2
    PrimaryDevice = 0
    RequiredDevices = 1
    Uses = {"spike", "pose"}
    StallTimeout = 1
    ReconnectDelay = 1
    MaxBlock = 1
    MaxFrame = 2
INVARIANTS
    NoOldPacket
PROPERTIES
    PoseHasItsDepth
    ImplementsLatestFrame
    Recovers
    CloseEnds
CHECK_DEADLOCK FALSE
