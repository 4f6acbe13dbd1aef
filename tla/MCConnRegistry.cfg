\* Three connections to one channel.
SPECIFICATION FairSpec
CONSTANTS
    c1 = c1
    c2 = c2
    c3 = c3
    general = general
    random = random
    Conns = {c1, c2, c3}
    Channels = {general, random}
    ChannelOf <- OneChannel
    NoHub = NoHub
INVARIANTS
    TypeOK
    OneHubPerChannel
    WriterFindsConn
    ConnStoreProtected
PROPERTY
    SetUpCompletes
