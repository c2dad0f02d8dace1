SPECIFICATION SerialSpec
CONSTANTS
    r1 = r1
    s1 = s1
    s2 = s2
    t1 = t1
    t2 = t2
    w1 = w1
    w2 = w2
    Absent = Absent
    None = None
    Requests = {w1, w2}
    Resources = {r1}
    Schemas = {s1}
    Tables = {t1, t2}
    NodeIds = {1, 2}
    MaxCrash = 1
    MaxFail = 2
    MaxDDL = 1
SYMMETRY TableSymmetry
INVARIANTS
    TypeOK
    UniqueTopNode
    CatalogConsistent
    SnapshotExact
    WorkingNodeShown
PROPERTIES
    AutoLeavesScanned
