SPECIFICATION ClientsSpec
CONSTANTS
    Resource = {1}
    a = a
    b = b
    p = p
    q = q
    Holder = {a, b}
    TTL = {2}
    Cap = {}
    Instant = {0, 1, 2}
    NoLease = NoLease
    Unregistered = Unregistered
    NoTx = NoTx
    Idle = Idle
    MaxToken = 2
    MaxWaiters = 0
    MaxAudit = 1000
    MaxBulk = 0
    Client = {p, q}
    Abandonable = {"renew"}
VIEW ClientsNoAudit
SYMMETRY ClientsSymmetry
INVARIANT
    HoldIsExclusive
