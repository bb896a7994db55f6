SPECIFICATION Spec
CONSTANTS
    Resource = {1}
    a = a
    b = b
    Holder = {a, b}
    TTL = {1}
    Cap = {0}
    Instant = {0, 1}
    NoLease = NoLease
    Unregistered = Unregistered
    NoTx = NoTx
    MaxToken = 2
    MaxWaiters = 2
    MaxAudit = 1000
    DefaultLimit = 1
    MaxLimit = 2
    AllResources = AllResources
    MaxBulk = 0
VIEW NoAudit

PROPERTY
    QueueIsFIFO
