\* Two users who may register the same orchestrator, and proof-gated releases: a
\* policy commitment pinned and unpinned, three steps against a record limit of
\* two, two nullifiers.  No clock: a stale task is ended in the other instance.
SPECIFICATION Spec
CONSTANTS
    Users = {u1, u2}
    Assets = {usdc}
    Recipients = {}
    NoAddress = NoAddress
    Amounts = {1, 3}
    FeeRates = {0}
    MaxFeeBps = 2
    FeeDenominator = 4
    MaxDeposit = 3
    MaxTime = 0
    Orchestrators = {o1, o2}
    Commitments = {c1}
    NoCommitment = NoCommitment
    StepIds = {s1, s2, s3}
    Nullifiers = {n1, n2}
    Verifiers = {v1}
    Resolvers = {arbiter}
    MaxReleaseSteps = 2
    MaxCommitments = 1
    ActiveTaskLimits = {2}
    StaleThresholds = {0}
    MinStaleThreshold = 0
    MaxTasks = 1
SYMMETRY Symmetry
INVARIANTS
    LookupSound
    StepsAccountForSpent
PROPERTIES
    ProofGated
CHECK_DEADLOCK FALSE
