SPECIFICATION FairSpec
CONSTANTS
    N = 2
    Deps <- chainDeps
    Tier <- chainTier
    Pollers = {p1, p2}
    MaxAttempts = 2
    MaxAnswers = 0
    MaxDisputes = 1
    MaxEvicts = 1
    MaxFaults = 0
CHECK_DEADLOCK FALSE
PROPERTIES WindowEnds ReleasedIsPaid
