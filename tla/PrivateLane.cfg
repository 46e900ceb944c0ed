SPECIFICATION Spec
CONSTANTS
    d1 = d1
    d2 = d2
    r1 = r1
    r2 = r2
    None = None
    Spends = {d1, d2}
    Workers = {w1, w2}
    Rules = {r1, r2}
    Plans <- MCPlans
    Groups <- MCGroups
    Cap <- MCCap
    Window = 2
    Spans = {1, 3}
    MaxValidity = 1
    NullifierTtl = 2
    Funds = 3
    MaxTime = 3
    Tries <- MCTries
    MaxTroubles = 1
SYMMETRY MCSymmetry
INVARIANTS
    TypeOK
    BooksBalance
    ProofPaysOnce
    RateBounded
    RecordTellsTruth
PROPERTY
    ListGoesThrough
CHECK_DEADLOCK FALSE
