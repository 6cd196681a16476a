CONSTANTS
    c1 = c1
    c2 = c2
    c3 = c3
    p1 = p1
    p2 = p2
    Calls = {c1, c2, c3}
    Clients = {p1, p2}
    MaxStatements = 2
    None = None
SPECIFICATION FairSpec
INVARIANTS ClientsComeBack StuckNeedsAllClients
PROPERTY CallsEnd
CHECK_DEADLOCK FALSE
