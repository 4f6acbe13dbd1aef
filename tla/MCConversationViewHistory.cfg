SPECIFICATION Spec
CONSTANTS
    Channels = {c1}
    Peers = {p1}
    None = None
    Limit = 1
    MaxMessages = 2
    MaxSelections = 3
INVARIANT
    HistoryIsLatest
CHECK_DEADLOCK FALSE
