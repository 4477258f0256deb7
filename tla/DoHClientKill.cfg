\* One query is enough: the kill switch is undone by the health checker alone.
SPECIFICATION Spec
CONSTANTS
    Queries = {q1}
    Checker = checker
    Operator = operator
    MaxFails = 2
    FailCap = 2
INVARIANTS
    KillSwitchHolds
