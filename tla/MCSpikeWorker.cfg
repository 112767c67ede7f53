SPECIFICATION Spec
CONSTANTS
    Configurations <- AllConfigurations
    PrimaryCamera = 0
    PrimarySerial = 1
    SecondaryEveryN = 2
    DropoutHold = 1
    MaximumGap = 1
    MaximumInputAge = 1
    MinimumInterval = 1
    DueAfter = 1
    StartupTimeout = 2
    StallTimeout = 1
    MaxSkip = 0
    MaxLatency <- LatencyBound
    MaxTime <- ClockBound
INVARIANTS
    ClipIsUnbroken
    NothingSurvivesALoss
    PrimaryIsRefreshed
PROPERTIES
    ViewsAreRecent
    StaleDepthIsDropped
\* A worker whose input stays away raises an error and ends.
CHECK_DEADLOCK FALSE
