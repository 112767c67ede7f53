SPECIFICATION Spec
CONSTANTS
    Configurations <- OnlyPrimary
    PrimaryCamera = 0
    PrimarySerial = 0
    SecondaryEveryN = 3
    DropoutHold = 1
    MaximumGap = 1
    MaximumInputAge = 1
    MinimumInterval = 1
    DueAfter = 1
    StartupTimeout = 10
    StallTimeout = 2
    MaxSkip = 0
    MaxLatency <- LatencyBound
    MaxTime <- ClockBound
PROPERTY ElapsedIsSinceJoints
CHECK_DEADLOCK FALSE
