SPECIFICATION FairSpec
CONSTANTS
    Users = {u1}
    Conns = {c1, c2}
    NoUser = NoUser
INVARIANTS TypeOK ActiveServed UploadOwned
PROPERTY NotForgotten
