SPECIFICATION Spec
CONSTANTS
    p1 = p1  p2 = p2  vA = vA  vB = vB  i1 = i1  i2 = i2  a1 = a1  m1 = m1
    Identities = {p1, p2}
    Vaults = {vA, vB}
    Items = {i1, i2}
    Attachments = {a1}
    Mails = {m1}
    VaultOf <- OneVaultOf
    ItemOf <- FirstItemOf
    Tagged = {i1}
    Edits = {"body", "last_used", "invitation_email"}
    MaxWrites = 1
    MaxMixUps = 1
    None = None
SYMMETRY Interchangeable
INVARIANTS
    TypeOK
    ReadsAuthentic
    SharesConfined
    MembersRead
CHECK_DEADLOCK FALSE
