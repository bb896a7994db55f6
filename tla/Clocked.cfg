SPECIFICATION SvcSpec
CONSTANTS
    Resource = {1}
    a = a
    b = b
    p = p
    q = q
    Holder = {a, b}
    TTL = {2}
    Cap = {1}
    Instant = {0, 1, 2}
    NoLease = NoLease
    Unregistered = Unregistered
    NoTx = NoTx
    Idle = Idle
    MaxToken = 3
    MaxWaiters = 1
    MaxAudit = 1000
    MaxBulk = 0
    Client = {p, q}
VIEW ServiceNoAudit
SYMMETRY ServiceSymmetry
INVARIANT
    SvcTypeOK
PROPERTIES
    TenantNotEvicted
    SweptBeforeServing
    ImplementsStore
