SPECIFICATION Spec
INVARIANTS
    FaultIsReported
CHECK_DEADLOCK FALSE
