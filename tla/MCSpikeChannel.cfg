SPECIFICATION Spec
CONSTANTS
    CameraCount = 2
    Stamp = Stamp
    Body = Body
    Parts = {Stamp, Body}
    DepthAttempts = 2
    PoseAttempts = 1
    MaxFrame = 2
    MaxGeneration = 1
INVARIANTS
    NoTornSnapshot
    NoLostWakeup
PROPERTIES
    ImplementsMailbox
CHECK_DEADLOCK FALSE
