CONSTANTS
    r1 = r1
    r2 = r2
    Versions = {1, 2}
    Calls <- TwoOfOne
    Readers = {r1}
    Deployments = {"local", "networked"}
    Asked = {1}
    Promotable = {1}
    MaxCreates = 2
    MaxFaults = 1
    Latest = Latest
    None = None
    Free = Free
SPECIFICATION FairSpec
INVARIANT CacheIsFresh
PROPERTIES AckedIsFound StalenessHeals
