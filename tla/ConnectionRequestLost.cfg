SPECIFICATION Spec
CONSTANTS
    Users = {u1}
    Conns = {c1}
    NoUser = NoUser
INVARIANT RequestKept
