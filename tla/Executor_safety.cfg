SPECIFICATION Spec
CONSTANTS
    N = 2
    Deps <- chainDeps
    Tier <- chainTier
    Pollers = {p1, p2}
    MaxAttempts = 2
    MaxAnswers = 1
    MaxDisputes = 0
    MaxEvicts = 0
    MaxFaults = 1
CHECK_DEADLOCK FALSE
SYMMETRY pollerSymmetry
INVARIANTS TypeOK PaidForDelivery DependentsWait
PROPERTY RecordedNotRedone
