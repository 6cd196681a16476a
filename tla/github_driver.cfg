CONSTANTS
    c1 = c1
    c2 = c2
    c3 = c3
    s1 = s1
    v1 = v1
    v2 = v2
    Creates = {c1, c2}
    Versions = {v1}
    Syncs = {s1}
    Job = Job
    Attempts = 2
    MaxFaults = 2
    None = None
    NoTag = NoTag
SPECIFICATION FairSpec
INVARIANTS AckedOnce AckedStaysInRepo
PROPERTY AckedReachesClone
CHECK_DEADLOCK FALSE
