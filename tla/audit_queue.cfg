CONSTANTS
    e1 = e1
    e2 = e2
    e3 = e3
    f1 = f1
    f2 = f2
    s1 = s1
    s2 = s2
    Entries = {e1, e2, e3}
    Flushes = {f1, f2}
    Shutdowns = {s1, s2}
    MaxBuffer = 2
    Backends = {"sqlite", "shared", "postgres"}
    MaxFaults = 1
    Free = Free
SPECIFICATION FairSpec
INVARIANTS NothingVanishes ExactlyOnce GracefulExitDrains
PROPERTY EventuallyPersisted
