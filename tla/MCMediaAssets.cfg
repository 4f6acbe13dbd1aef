SPECIFICATION MCSpec
CONSTANTS
    u1 = u1
    u2 = u2
    c1 = c1
    c2 = c2
    n1 = n1
    n2 = n2
    Uploads = {u1, u2}
    Contents = {c1, c2}
    Names = {n1, n2}
INVARIANTS
    TypeOK
    ShownMediaPinned
    PinsAccounted
PROPERTY
    OrphansGo
CHECK_DEADLOCK FALSE
