SPECIFICATION Spec
CONSTANTS
    Resource = {1}
    a = a
    b = b
    Holder = {a, b}
    TTL = {1}
    Cap = {1}
    Instant = {0, 1}
    NoLease = NoLease
    Unregistered = Unregistered
    NoTx = NoTx
    MaxToken = 3
    MaxWaiters = 2
    MaxAudit = 4
    DefaultLimit = 1
    MaxLimit = 2
    AllResources = AllResources
    MaxBulk = 1
SYMMETRY HolderSymmetry
INVARIANTS
    TypeOK
    AuditReplaysToLeases
    StaleTokenRejected
    WaitersMatchGrants
    HealthAgreesWithLease
PROPERTY
    WaiterLifecycle
