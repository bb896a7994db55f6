SPECIFICATION SvcSpec
CONSTANTS
    Resource = {1}
    a = a
    b = b
    p = p
    q = q
    Holder = {a, b}
    TTL = {2}
    Cap = {0}
    Instant = {0, 1, 2}
    NoLease = NoLease
    Unregistered = Unregistered
    NoTx = NoTx
    Idle = Idle
    MaxToken = 2
    MaxWaiters = 0
    MaxAudit = 1000
    MaxBulk = 1
    Client = {p, q}
VIEW ServiceNoAudit
SYMMETRY ServiceSymmetry
PROPERTY
    DeadLeaseNotRevived
