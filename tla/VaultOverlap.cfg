SPECIFICATION Spec
CONSTANTS
    w1 = w1
    w2 = w2
    T1 = T1
    T2 = T2
    s1 = s1
    s2 = s2
    k1 = k1
    k2 = k2
    Mask = Mask
    Empty = Empty
    MigrationKey = MigrationKey
    None = None
    Requests = {w1, w2}
    Ids = {1}
    TenantIds = {T1, T2}
    Secrets = {s1}
    Keys = {k1}
    MaxRequests = 3
SYMMETRY VaultSymmetry
INVARIANTS
    TypeOK
    SealedAtRest
    OwnerFixed
PROPERTIES
    ResourceIsolation
