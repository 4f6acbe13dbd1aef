\* Two connections to one channel and one to another.
SPECIFICATION Spec
CONSTANTS
    c1 = c1
    c2 = c2
    c3 = c3
    general = general
    random = random
    Conns = {c1, c2, c3}
    Channels = {general, random}
    ChannelOf <- TwoChannels
    NoHub = NoHub
INVARIANT
    ConnStoreProtected
