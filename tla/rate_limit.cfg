CONSTANTS
    r1 = r1
    r2 = r2
    r3 = r3
    r4 = r4
    Requests = {r1, r2, r3}
    MaxRequests = 2
    Passes = 2
    Stores = {"sqlite", "shared", "postgres"}
    MaxTime = 2
    MaxSwitches = 2
    MaxFailures = 1
    NoRow = NoRow
SPECIFICATION LimiterSpec
SYMMETRY Symmetry
INVARIANTS WindowLimit NoPrematureReject
