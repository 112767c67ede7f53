SPECIFICATION FairSpec
INVARIANTS
    StoppedWithSource
    FaultHasText
PROPERTIES
    WaitsEnd
    HostDeathStopsWorker
    AbandonedWorkerEnds
CHECK_DEADLOCK FALSE
