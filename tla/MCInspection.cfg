SPECIFICATION Spec
CONSTANTS
    c1 = c1
    c2_ = c2_
    n1 = n1
    n2 = n2
    n3 = n3
    root = root
    zone = zone
    gap = gap
    leaf = leaf
    i1 = i1
    i2 = i2
    i3 = i3
    MaxTime = 3
    Queries <- MCQueries
    Clients = {c1, c2_}
    Names <- MCNames
    Configs <- MCConfigs
    Benign = {"short"}
    AlertCooldown = 1
    ApexOf <- MCApexOf
    MaxSubdomains = 2
    ExfilWindow = 1
    BeaconTimes = 3
    BeaconQueries = 3
    HighVolume = 3
    FewNames = 2
    MinIPCount = 3
    TTLThreshold = 2
    RotationLimit = 1
    Several = 2
    RotationWindow = 1
    MaxIPAge = 1
    Root = root
    Above <- MCAbove
    KeysOf <- MCKeysOf
    DelegatedTo <- MCDelegatedTo
    KeyAnswers <- MCKeyAnswers
    DSAnswers <- MCDSAnswers
    AnchorFile <- MCAnchorFile
    RecordTTL = 1
    DowngradeCooldown = 1
    MaxAge = 1
CHECK_DEADLOCK FALSE
INVARIANTS
    TypeOK
    LeaksOnlyInCooldown
    SlowLeakCaught
    RotationIsNew
    OldFindingsConfirmed
    ValidIsAnchored
    RejectionExplained
    DowngradeReported
