SPECIFICATION Spec
CONSTANTS
    Threads = {t1}
    Frames = {f1}
    MaxUse = 2
    MaxRefs = 2
    Modules = {unity}
    Candidates = {unity}
INVARIANTS
    DataAreOfTheirFrame
CHECK_DEADLOCK FALSE
