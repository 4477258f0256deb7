SPECIFICATION Spec
CONSTANTS
    c1 = c1
    d1 = d1
    n1 = n1
    n2 = n2
    q1 = q1
    q2 = q2
    q3 = q3
    q4 = q4
    MaxTime = 4
    Domains = {d1}
    Threshold = 1
    Window = 1
    BlockMode = TRUE
    Clients = {c1}
    Names = {n1, n2}
    SparseWindow = 1
    RatioNum = 3
    RatioDen = 5
    MinQueries = 2
    MinUnique = 2
    Queries <- MCQueries
    Apex <- MCApex
SYMMETRY AskSymmetry
INVARIANTS
    TypeOK
    TripJustified
    FloodCaught
PROPERTIES
    CleanupSparesBlocks
    FollowsProtocol
