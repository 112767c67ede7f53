SPECIFICATION Spec
INVARIANTS
    SourceOutlivesReaders
    SilentAfterStop
    FailedOpenReleases
PROPERTIES
    CallsReturn
    StartedDelivers
