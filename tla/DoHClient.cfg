\* Two concurrent queries and a threshold of two failures: the smallest
\* instance in which two recordFailure calls, a re-enable and a kill overlap.
SPECIFICATION FairSpec
CONSTANTS
    Queries = {q1, q2}
    Checker = checker
    Operator = operator
    MaxFails = 2
    FailCap = 3
INVARIANTS
    TypeOK
    BreakerNotStuckClosed
PROPERTIES
    EveryQueryAnswered
    RecoversWhenUp
    FallsBackWhenDown
