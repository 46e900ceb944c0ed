\* Two jobs run to their end although workers crash, stall and time out.  One
\* attempt per job; a job that stalls is still handed out a second time.
SPECIFICATION FairSpec
CONSTANTS
    Signers = {w1, w2}
    Sweepers = {}
    Steps = {s1, s2}
    None = None
    MaxLocks = 2
    LeaseCanExpire = FALSE
    OpenStatuses = {"AWAITING_APPROVAL"}
    MaxAttempts = 1
    MaxStalls = 1
    MaxFaults = 2
PROPERTIES
    JobsEnd
    SettledInPeace
CHECK_DEADLOCK FALSE
