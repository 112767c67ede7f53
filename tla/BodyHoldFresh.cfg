SPECIFICATION Spec
CONSTANTS
    People = {p1, p2}
    Lock = 2
    FilterLimit = 3
    StreamTimeout = 4
    Hold = 2
    InferAfter = 1
    MaxGap = 2
    MissLimit = 2
    MaxSampleAge = 2
    MaxDelay = 1
    Word = 32
PROPERTY FreshPoseIsDelivered
