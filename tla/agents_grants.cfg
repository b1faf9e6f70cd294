SPECIFICATION Spec
CONSTANTS
    o1 = o1
    None = None
    Owners = {o1}
    Vaults = {1, 2}
    Levels = {"write", "admin", "owner"}
    Contributions <- MCContributions
    MAX_MAPPINGS = 3
    MAX_VAULT_GRANTS = 2
    MAX_PROVISIONED_VAULTS = 2
    MaxCalls = 4
    MaxMixUps = 1
INVARIANTS
    TypeOK
    CreationsMintOnce
    VerifiedRowsGranted
    ReportedAccess
    SignedContributionsVerify
    ProvisioningBijective
    NothingDelegatedTwice
CHECK_DEADLOCK FALSE
