SPECIFICATION Spec
CONSTANTS
    c1 = c1  c2 = c2  vA = vA  vB = vB  a1 = a1  b1 = b1
    x1 = x1
    Clients = {c1, c2}
    Vaults = {vA}
    Items <- OneItem
    VaultOf <- OneVaultOf
    Seeded = {a1}
    Contents = {x1}
    MaxVersion = 2
    MaxEdits = 1
    HostOps <- UpdateOps
    MaxCalls = 1
INVARIANTS
    UpdateKeepsFlags
CHECK_DEADLOCK FALSE
