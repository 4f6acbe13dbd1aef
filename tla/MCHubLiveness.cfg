\* Two connections, one frame each, under the fairness of the Go runtime.
SPECIFICATION FairSpec
CONSTANTS
    c1 = c1
    c2 = c2
    Conns <- TwoConns
    Frames <- OneAndOne
    SendCap = 1
    BroadcastCap = 1
PROPERTIES
    SavedIsFannedOut
    TornDown
    DroppedIsDisconnected
