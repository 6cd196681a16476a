CONSTANTS
    c1 = c1
    c2 = c2
    c3 = c3
    k1 = k1
    k2 = k2
    Creates = {c1, c2, c3}
    Keys = {k1, k2}
    Workspaces = {"default"}
    DefaultWs = "default"
    Jobs = {"j1"}
    Backend = "sqlite"
    Driver = "filesystem"
    MaxMishaps = 2
    Free = Free
    NoRow = NoRow
    NoContent = NoContent
    NoTx = NoTx
    NoTarget = NoTarget
SPECIFICATION Spec
SYMMETRY Symmetry
INVARIANTS AckedIsServed FailsOnlyOnFault
PROPERTY RefinesVersionStore
