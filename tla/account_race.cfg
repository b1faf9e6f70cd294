SPECIFICATION Spec
CONSTANTS
    d1 = d1  d2 = d2  p1 = p1  p2 = p2  strong = strong
    below = below
    Devices = {d1, d2}
    Passwords = {p1, p2}
    Profiles = {strong, below}
    PROFILES = {strong}
    DefaultProfile = strong
    MaxAge = 0
    Skew = 1
    NoBlob = NoBlob
    MaxDraws = 3
    MaxSent = 3
    MaxClock = 2
SYMMETRY Interchangeable
INVARIANTS
    TypeOK
    AccountOpens
    ConsumedSheetsDead
PROPERTIES
    ReplacementsRecent
CHECK_DEADLOCK FALSE
