\* Two jobs of one task and a sweep, with crashes, stalls, timeouts and
\* interventions.
SPECIFICATION Spec
CONSTANTS
    Signers = {w1, w2, sweep}
    Sweepers = {sweep}
    Steps = {s1, s2}
    None = None
    MaxLocks = 2
    LeaseCanExpire = FALSE
    OpenStatuses = {"AWAITING_APPROVAL", "RUNNING"}
    MaxAttempts = 2
    MaxStalls = 1
    MaxFaults = 2
SYMMETRY Symmetry
INVARIANTS
    TypeOK
    PaidOnce
    OrphansUnpaid
    RecordMeansPaid
    
CHECK_DEADLOCK FALSE
