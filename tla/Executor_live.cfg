SPECIFICATION FairSpec
CONSTANTS
    N = 1
    Deps <- chainDeps
    Tier <- oneTier
    Pollers = {p1, p2}
    MaxAttempts = 2
    MaxAnswers = 1
    MaxDisputes = 0
    MaxEvicts = 1
    MaxFaults = 0
CHECK_DEADLOCK FALSE
PROPERTY ParkedEnds
