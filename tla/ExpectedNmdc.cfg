\* Requests are answered, withdrawn, time out and expire.
SPECIFICATION Spec
CONSTANTS
    Nicks = {n1}
    Hubs = {h1, h2}
    Tokens = {t1, t2, t3}
    NoToken = NoToken
    Timer = timer
    SocketThreads = {s1}
    MaxId = 4
SYMMETRY Symmetry
INVARIANTS
    TypeOK
    OneOutstanding
    OneEntryPerKind
    IdsInOrder
    AttributedToItsHub
PROPERTY HandsOver
