SPECIFICATION FairSpec
CONSTANTS
    Instances = {x1, x2}
    Limit = 2
    Amounts = {1}
    MaxEvents = 3
    MaxFaults = 1
    None = None
CHECK_DEADLOCK FALSE
INVARIANTS TypeOK StoredIsPrefix MirrorExact
PROPERTY EventsAreStored
