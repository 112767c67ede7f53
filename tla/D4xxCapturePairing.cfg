SPECIFICATION Spec
CONSTANTS
    DeviceCount = 1
    PrimaryDevice = 0
    RequiredDevices = 1
    Uses = {"pose"}
    StallTimeout = 1
    ReconnectDelay = 1
    MaxBlock = 1
    MaxFrame = 2
INVARIANTS
    DepthIsItsOwn
CHECK_DEADLOCK FALSE
