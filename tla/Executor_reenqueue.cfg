SPECIFICATION FairSpec
CONSTANTS
    N = 1
    Deps <- chainDeps
    Tier <- oneTier
    Pollers = {p1}
    MaxAttempts = 2
    MaxAnswers = 0
    MaxDisputes = 0
    MaxEvicts = 0
    MaxFaults = 0
CHECK_DEADLOCK FALSE
PROPERTY LockNeverStranded
