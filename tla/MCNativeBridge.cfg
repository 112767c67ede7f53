SPECIFICATION Spec
CONSTANTS
    Threads = {t1, t2}
    Frames = {f1}
    MaxUse = 2
    MaxRefs = 2
    Modules = {unity, mono, plugin}
    Candidates = {unity, mono}
SYMMETRY Symmetry
INVARIANTS
    NoStaleImage
    ForwardsToWrapper
    NobodyHasFullTable
CHECK_DEADLOCK FALSE
