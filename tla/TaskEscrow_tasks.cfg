\* One user with two overlapping tasks and two orchestrators, fees and disputes.
SPECIFICATION Spec
CONSTANTS
    Users = {u1}
    Assets = {usdc}
    Recipients = {treasury}
    NoAddress = NoAddress
    Amounts = {1, 2}
    FeeRates = {2, 3}
    MaxFeeBps = 2
    FeeDenominator = 4
    MaxDeposit = 3
    MaxTime = 1
    Orchestrators = {o1, o2}
    Commitments = {}
    NoCommitment = NoCommitment
    StepIds = {s1, s2}
    Nullifiers = {}
    Verifiers = {}
    Resolvers = {arbiter}
    MaxReleaseSteps = 2
    MaxCommitments = 1
    ActiveTaskLimits = {0, 1, 2}
    StaleThresholds = {0}
    MinStaleThreshold = 0
    MaxTasks = 2
SYMMETRY Symmetry
INVARIANTS
    TypeOK
    Solvency
    LocksMatchTasks
    NoOverdraft
    HistoryBounded
    ExitAlwaysOpen
    NotStranded
PROPERTIES
    ImplementsBooks
CHECK_DEADLOCK FALSE
