CONSTANTS
    c1 = c1
    c2 = c2
    c3 = c3
    k1 = k1
    k2 = k2
    Creates = {c1, c2}
    Keys = {k1}
    Workspaces = {"default", "acme"}
    DefaultWs = "default"
    Jobs = {"j1", "j2"}
    Backend = "postgres"
    Driver = "s3"
    MaxMishaps = 1
    Free = Free
    NoRow = NoRow
    NoContent = NoContent
    NoTx = NoTx
    NoTarget = NoTarget
SPECIFICATION FairSpec
INVARIANT ActiveHasContent
PROPERTY PendingHeals
