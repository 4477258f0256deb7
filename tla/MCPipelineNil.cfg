SPECIFICATION Spec
CONSTANTS
    plain = plain
    ugly = ugly
    transfer = transfer
    q1 = q1
    q2 = q2
    MaxTime = 0
    Keys <- MCKeys
    Responses <- MCResponses
    Getters <- MCQueries
    MaxEntries = 1
    DefaultTTL = 1
    NegativeTTL = 0
    NoTTL = 3
    Transfers <- MCTransfers
    BadNames <- MCBadNames
    FeedNames <- MCFeedNames
    AllowNames <- MCFeedNames
    Kin <- MCKin
    MaxChainDepth = 2
    Records <- MCRecords
    Messages <- MCMessages
    Question <- MCQuestion
    KnownOptions = {"nsid"}
    MultiPartTLDs <- MCMultiPart
    SuspiciousTLDs = {"top"}
    RandomLabels = {}
    Configs <- MCConfigNil
INVARIANT StaysUp
