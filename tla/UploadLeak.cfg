SPECIFICATION Spec
CONSTANTS
    Users = {u1, u2, u3}
    Conns = {c1, c2, c3}
    NoUser = NoUser
    Slots = 1
    ExtraSlots = 0
    PartialSlots = 0
    AutoSlots = 1
    AutoGrant = FALSE
    Favorites = {}
    Kinds = {"file"}
    Granted = {}
    PeerErrors = TRUE
    MaxLost = 0
SYMMETRY Symmetry
INVARIANTS UploadsLive
CHECK_DEADLOCK FALSE
