SPECIFICATION Spec
CONSTANTS
    Manager = Manager
    Meta = Meta
    k1 = k1
    k2 = k2
    a1 = a1
    a2 = a2
    SystemDefault = SystemDefault
    ShortDefault = ShortDefault
    Malformed = Malformed
    Unset = Unset
    Keys = {k1, k2}
    ApiKeys = {a1, a2}
    SystemSettings <- SystemEnvironments
    ModuleSettings <- ModuleEnvironments
    MaxStart = 2
    w1 = w1
    w2 = w2
    low = low
    high = high
    d = d
    e = e
    x = x
    r = r
    Marker = Marker
    None = None
    Reserved = {r}
    Requests = {w1, w2}
    Tables = {low, high}
    Folded <- Unquoted
    TableIds = {1, 2, 3}
    Pages = {0, 1, 2, 3}
    Sizes = {0, 3}
    MaxRows = 5
    DefaultSize = 2
    Kinds <- Classes
    AllOrNothing <- Whole
    Limit <- Bytes
    ObjectKeys <- SomeKeys
    MaxDepth = 2
    MaxSize = 1
    MaxCall = 0
    MaxChange = 0
PROPERTY CentreServes
