SPECIFICATION HandlersSpec
CONSTANTS
    Resource = {1}
    a = a
    p = p
    v = v
    gold = gold
    Holder = {a}
    TTL = {1, 2}
    Cap = {}
    Instant = {0, 1}
    NoLease = NoLease
    Unregistered = Unregistered
    NoTx = NoTx
    Idle = Idle
    NoPolicy = NoPolicy
    MaxToken = 2
    MaxWaiters = 1
    MaxAudit = 2
    MaxBulk = 1
    Client = {p}
    Reader = {v}
    Policy = {gold}
PROPERTY
    DiagnosticsConsistent
