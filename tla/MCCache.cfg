SPECIFICATION CacheSpec
CONSTANTS
    k1 = k1
    k2 = k2
    k3 = k3
    g1 = g1
    g2 = g2
    MaxTime = 3
    Keys <- MCKeys
    Responses <- MCResponses
    Getters <- MCGetters
    MaxEntries = 2
    DefaultTTL = 2
    NegativeTTL = 1
    NoTTL = 3
SYMMETRY CacheSymmetry
INVARIANTS
    Capacity
PROPERTIES
    AnswersRespectTTL
    EvictionSparesFresh
