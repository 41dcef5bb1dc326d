SPECIFICATION Spec
CONSTANTS
    Size = 4
    Conns = {c1, c2}
    NoConn = NoConn
    BlockSize = 1
    TreeBlock = 2
    Targets = {2}
    MaxSegments = 3
    MultiChunk = {TRUE}
    TreeKnown = TRUE
    Compressed = TRUE
    UserOps = {}
SYMMETRY Symmetry
INVARIANTS FetchedOnce
CHECK_DEADLOCK FALSE
