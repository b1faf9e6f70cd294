SPECIFICATION FairSpec
CONSTANTS
    c1 = c1  c2 = c2  c3 = c3  dA = dA  dB = dB  dX = dX  iA = iA  iB = iB
    oA = oA  oB = oB  it1 = it1  it2 = it2  fP = fP  fQ = fQ
    Callers = {c1, c2, c3}
    Deployments = {dA, dB, dX}
    Identities = {iA, iB}
    Owners = {oA, oB}
    Items = {it1, it2}
    Fields = {fP, fQ}
    Has <- Values
    Gated = {it1}
    Configs <- TwoDeployments
    Requests <- SomeRequests
    None = None
    MAX_CONCURRENT_RESOLVES = 1
    MaxArrivals = 3
INVARIANTS
    TypeOK
    PermitsConserved
    QueueExact
    NoncesFresh
    AnswersBelong
    ApprovalsReported
PROPERTIES
    RequestsEnd
CHECK_DEADLOCK FALSE
