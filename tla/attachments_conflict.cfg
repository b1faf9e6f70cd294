SPECIFICATION Spec
CONSTANTS
    c1 = c1  c2 = c2  a1 = a1  b1 = b1  f1 = f1  f2 = f2  f3 = f3
    s1 = s1  s2 = s2
    Clients = {c1, c2}
    Atts = {a1, b1}
    Foreign = {b1}
    Files <- ThreeFiles
    Digests = {s1, s2}
    Sha <- TwoShas
    None = None
    HostOps <- Methods
    MaxCalls = 2
    MaxTouches = 0
SYMMETRY Interchangeable
INVARIANTS
    IdConflictTruthful
CHECK_DEADLOCK FALSE
