\* A user with two connections and one with one; a command that goes astray.
SPECIFICATION Spec
CONSTANTS
    c1 = c1
    c2 = c2
    c3 = c3
    ann = ann
    bob = bob
    Conns = {c1, c2, c3}
    Users = {ann, bob}
    UserOf <- TwoTabs
    MaxLate = 2
SYMMETRY Tabs
INVARIANTS
    TypeOK
    NoGhost
    LastOneOut
    OnlineIsListed
