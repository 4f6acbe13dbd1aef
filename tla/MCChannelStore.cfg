CONSTANTS
    owner = owner
    ann = ann
    r1 = r1
    r2 = r2
    r3 = r3
    Users <- TwoUsers
    Owner = owner
    Requests <- ThreeRequests
    Private = TRUE
SPECIFICATION Spec
SYMMETRY RequestSymmetry
INVARIANTS
    TypeOK
    SecondRowOnlyByRace
    ApprovedOnlyByOwner
PROPERTIES
    LateRequestsChangeNothing
    ActiveArchivedOnlyByRace
