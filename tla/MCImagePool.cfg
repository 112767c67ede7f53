SPECIFICATION Spec
CONSTANTS
    Blocks = {b1, b2, b3, b4}
    Threads = {analysis, preview, game}
    Producers = {analysis, preview}
    Sizes = {small, large}
    NoSize = NoSize
    NoBlock = NoBlock
    Keep = 1
    PoolMin = 1
    PoolMax = 3
    FileCaps = {1, 2, 3}
    MaxRef = 2
INVARIANTS
    OwnedIsSafe
    EveryBlockHasAPlace
    PoolWithinClamp
PROPERTY ImplementsLoan
SYMMETRY SymmetricBlocks
