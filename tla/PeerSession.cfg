\* One connection, two Downloads at a time; the numbers of the ends may be equal.
SPECIFICATION FairSpec
CONSTANTS
    Numbers = {1, 2}
    Downloads = {d1, d2}
    NoDownload = NoDownload
INVARIANTS
    TypeOK
    RolesAgree
    CommandsExpected
    DownloadsKept
PROPERTIES
    Settles
CHECK_DEADLOCK FALSE
