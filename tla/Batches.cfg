SPECIFICATION Spec
CONSTANTS
    Resource = {1, 2}
    a = a
    Holder = {a}
    TTL = {1}
    Cap = {1}
    Instant = {0, 1}
    NoLease = NoLease
    Unregistered = Unregistered
    NoTx = NoTx
    MaxToken = 4
    MaxWaiters = 2
    MaxAudit = 1000
    DefaultLimit = 1
    MaxLimit = 2
    AllResources = AllResources
    MaxBulk = 2
VIEW NoAudit
SYMMETRY HolderSymmetry
INVARIANT
    BatchChecksHold
PROPERTIES
    GrantsWithinQuota
    SweepComplete
    BulkReleaseAllOrNothing
    WaiterLeftOnlyAtCap
    ImplementsFencedLock
