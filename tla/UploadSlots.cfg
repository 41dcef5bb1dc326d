SPECIFICATION Spec
CONSTANTS
    Users = {u1, u2}
    Conns = {c1, c2}
    NoUser = NoUser
    Slots = 1
    ExtraSlots = 1
    PartialSlots = 1
    AutoSlots = 0
    AutoGrant = TRUE
    Favorites = {}
    Kinds = {"file", "mini"}
    Granted = {u1}
    PeerErrors = TRUE
    MaxLost = 1
SYMMETRY Symmetry
INVARIANTS TypeOK ServedNotWaiting QueueIsLine 
 
CHECK_DEADLOCK FALSE
