SPECIFICATION ConsoleSpec
CONSTANTS
    Clients = {c1, c2}
    Workspaces = {w1, w2}
    Ids = {t1}
    Backends = {"sqlite", "postgres"}
    Scenes = {"traces", "evaluations", "scores", "keys"}
    Items = 2
    Cap = 1
    PageSizes = {1, 2}
    Debounce = 2
    MaxRequests = 4
    MaxFaults = 1
    MaxTime = 3
    None = None
    Areas = {"datasets", "abtests", "labels", "evaluations", "compliance", "auditlogs", "logs", "runs", "traces", "overview"}
    Args = {a1}
    RowIds = {r1, r2}
    Limit = 1
    MaxRows = 2
    MaxMoves = 3
    MaxCalls = 1
    MaxOthers = 1
    MaxLosses = 1
    Nil = Nil
SYMMETRY Symmetry
CHECK_DEADLOCK FALSE
INVARIANTS EveryChildHasParent SpanInItsWorkspace DatasetIsWhole WalkSeesEach LastUsedLags ConfirmedIsShown NotStranded
