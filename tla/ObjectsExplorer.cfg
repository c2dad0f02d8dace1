SPECIFICATION FullSpec
CONSTANTS
    w1 = w1
    w2 = w2
    b1 = b1
    b2 = b2
    d = d
    x = x
    None = None
    Marker = Marker
    Requests = {w1, w2}
    Buckets = {b1, b2}
    Allowed = {b1, b2}
    Keys <- FewKeys
    Reserved = {}
    Selections <- PathSelections
    NodeIds = {1, 2, 3, 4, 5, 6}
    MaxFault = 1
    MaxPut = 1
SYMMETRY RequestSymmetry
CONSTRAINT ReaderBound
INVARIANTS
    ItemsInPlace
    TreeSound
    CountsExact
    BucketExact
    ClickOpens
PROPERTIES
    TreeInPlace
    TreeCounts
