SPECIFICATION FairSpec
CONSTANTS
    CameraCount = 1
    Stamp = Stamp
    Body = Body
    Parts = {Stamp, Body}
    DepthAttempts = 1
    PoseAttempts = 1
    MaxFrame = 2
    MaxGeneration = 2
PROPERTIES
    DepthReachesWorker
    PoseReachesHost
    ShutdownStopsWorker
CHECK_DEADLOCK FALSE
