SPECIFICATION Spec
CONSTANTS
    r1 = r1
    r2 = r2
    t1 = t1
    t2 = t2
    c1 = c1
    c2 = c2
    Resource = {r1, r2}
    Tag = {t1, t2}
    Client = {c1, c2}
    Idle = Idle
    NoTx = NoTx
SYMMETRY TagSymmetry
INVARIANTS
    TypeOK
    TagsMirrorIndex
PROPERTY
    TagsChangeOnRequest
