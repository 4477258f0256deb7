SPECIFICATION Spec
CONSTANTS
    c1 = c1
    q1 = q1
    q2 = q2
    q3 = q3
    q4 = q4
    q5 = q5
    e1 = e1
    e2 = e2
    a1 = a1
    castiel = castiel
    MaxTime = 5
    Clients = {c1}
    PerIPQPS = 2
    Second = 2
    Types = {"rate_limit", "zone_transfer", "apple_endpoint_unreachable", "apple_endpoint_recovered", "unauthorized_pf_rule"}
    MaxAlerts = 1
    AlertWindow = 2
    MinSeverity = "info"
    RateLimitAlerts = TRUE
    Queries <- MCQueries
    Loads <- MCLoads
    Endpoints <- MCEndpoints
    MonitorInterval = 1
    Anchors = {a1, castiel}
    CastielAnchor = castiel
    PFRules <- MCRules
    GuardInterval = 1
SYMMETRY AskSymmetry
\* Without an observer the model stops when the clock has reached its bound.
CHECK_DEADLOCK FALSE
INVARIANTS
    TypeOK
    RateCeiling
    RefusedOnlyOverShare
    SuppressionJustified
    AlertCeiling
    RefusalsAreHeard
    OutageAnnounced
    BlockingReported
