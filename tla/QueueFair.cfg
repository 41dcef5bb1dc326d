SPECIFICATION FairSpec
CONSTANTS
    Size = 4
    Conns = {c1, c2}
    NoConn = NoConn
    BlockSize = 1
    TreeBlock = 1
    Targets = {1, 2}
    MaxSegments = 3
    MultiChunk = {TRUE, FALSE}
    TreeKnown = TRUE
    Compressed = FALSE
    UserOps = {}
INVARIANTS FetchedOnce DoneSizeExact CompletionPending 
PROPERTIES RefinesLeases Completes
CHECK_DEADLOCK FALSE
