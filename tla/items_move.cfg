SPECIFICATION Spec
CONSTANTS
    c1 = c1  c2 = c2  vA = vA  vB = vB  a1 = a1  b1 = b1
    x1 = x1
    Clients = {c1, c2}
    Vaults = {vA, vB}
    Items <- TwoItems
    VaultOf <- TwoVaultsOf
    Seeded = {a1}
    Contents = {x1}
    MaxVersion = 1
    MaxEdits = 0
    HostOps <- MoveOps
    MaxCalls = 3
INVARIANTS
    ErasedDeliberately
    MoveRemovesOnlyCopied
CHECK_DEADLOCK FALSE
