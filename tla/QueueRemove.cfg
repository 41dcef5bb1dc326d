SPECIFICATION Spec
CONSTANTS
    Size = 3
    Conns = {c1, c2}
    NoConn = NoConn
    BlockSize = 1
    TreeBlock = 2
    Targets = {2}
    MaxSegments = 3
    MultiChunk = {TRUE}
    TreeKnown = FALSE
    Compressed = TRUE
    UserOps = {"removeTarget"}
SYMMETRY Symmetry
INVARIANTS TypeOK ReservedDisjoint EntriesOwned  DoneReceived FinishedComplete
CHECK_DEADLOCK FALSE
