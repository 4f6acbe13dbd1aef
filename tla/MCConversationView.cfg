SPECIFICATION Spec
CONSTANTS
    Channels = {c1}
    Peers = {p1}
    None = None
    Limit = 1
    MaxMessages = 2
    MaxSelections = 3
INVARIANTS
    TypeOK
    StrayOnlyByLateAnswer
    ShownOnce
    MissedForAReason
CHECK_DEADLOCK FALSE
