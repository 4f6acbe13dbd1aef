SPECIFICATION MCSpec
CONSTANTS
    u1 = u1
    u2 = u2
    s1 = s1
    s2 = s2
    l0 = l0
    l1 = l1
    Users = {u1, u2}
    Sockets = {s1, s2}
    Logins = {l0, l1}
    Messages = {"m1"}
    From <- MCFrom
    To <- MCTo
    MaxFaults = 1
    None = None
INVARIANTS
    TypeOK
    NoGhostEntry
    LatestIsListed
    ListFresh
    SteadyRecipientGets
CHECK_DEADLOCK FALSE
