SPECIFICATION FairSvcSpec
CONSTANTS
    Resource = {1}
    a = a
    b = b
    p = p
    q = q
    Holder = {a}
    TTL = {1}
    Cap = {0}
    Instant = {0, 1}
    NoLease = NoLease
    Unregistered = Unregistered
    NoTx = NoTx
    Idle = Idle
    MaxToken = 2
    MaxWaiters = 1
    MaxAudit = 3
    MaxBulk = 1
    Client = {p, q}
PROPERTY
    ExpiryPromotesWaiter
