SPECIFICATION Spec
CONSTANTS
    Resource = {1, 2}
    a = a
    b = b
    Holder = {a, b}
    TTL = {1}
    Cap = {1}
    Instant = {0, 1}
    NoLease = NoLease
    Unregistered = Unregistered
    NoTx = NoTx
    MaxToken = 3
    MaxWaiters = 1
    MaxAudit = 3
    DefaultLimit = 1
    MaxLimit = 2
    AllResources = AllResources
    MaxBulk = 2
SYMMETRY HolderSymmetry
INVARIANTS
    TokensGrantedOnceInOrder
PROPERTIES
    FencingMonotone
    GrantsWithinQuota
    BulkAcquireAllOrNothing
    PagesNeverShift
