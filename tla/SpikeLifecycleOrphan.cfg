SPECIFICATION Spec
INVARIANTS
    NoOrphan
CHECK_DEADLOCK FALSE
