SPECIFICATION Spec
CONSTANTS
    r1 = r1
    s1 = s1
    s2 = s2
    t1 = t1
    t2 = t2
    w1 = w1
    w2 = w2
    Absent = Absent
    None = None
    Requests = {w1, w2}
    Resources = {r1}
    Schemas = {s1}
    Tables = {t1}
    NodeIds = {1, 2}
    MaxCrash = 0
    MaxFail = 0
    MaxDDL = 0
INVARIANT UniqueTopNode
