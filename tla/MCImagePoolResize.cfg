SPECIFICATION Spec
CONSTANTS
    Blocks = {b1, b2, b3}
    Threads = {analysis, preview, game}
    Producers = {analysis, preview}
    Sizes = {small, large}
    NoSize = NoSize
    NoBlock = NoBlock
    Keep = 2
    PoolMin = 2
    PoolMax = 2
    FileCaps = {2}
    MaxRef = 2
PROPERTIES
    DropMeansBacklog
