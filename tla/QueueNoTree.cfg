SPECIFICATION Spec
CONSTANTS
    Size = 2
    Conns = {c1, c2}
    NoConn = NoConn
    BlockSize = 1
    TreeBlock = 1
    Targets = {1}
    MaxSegments = 3
    MultiChunk = {TRUE}
    TreeKnown = FALSE
    Compressed = TRUE
    UserOps = {}
SYMMETRY Symmetry
INVARIANTS ExclusiveWithoutTree
CHECK_DEADLOCK FALSE
