CONSTANTS
    t1 = t1
    v1 = v1
    v2 = v2
    c1 = c1
    c2 = c2
    c3 = c3
    Tests = {t1}
    Calls = {c1, c2, c3}
    Versions = {v1, v2}
    Backends = {"sqlite", "postgres"}
    MaxTime = 1
    MaxFaults = 1
    None = None
    Free = Free
    NoEval = NoEval
    Versionless = Versionless
SYMMETRY Symmetry
SPECIFICATION Spec
INVARIANTS PromotionIsWhole PromotedWon NoOrphanResult
