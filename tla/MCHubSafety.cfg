\* Two connections, two frames and one, room for one message in each channel.
SPECIFICATION Spec
CONSTANTS
    c1 = c1
    c2 = c2
    Conns <- TwoConns
    Frames <- TwoAndOne
    SendCap = 1
    BroadcastCap = 1
INVARIANTS
    TypeOK
    NoPanic
    ContiguousStream
    CloseFrameIsLast
    SenderOrder
    SavedAndBroadcast
PROPERTY
    ImplementsBroadcast
