SPECIFICATION Spec
CONSTANTS
    w1 = w1
    w2 = w2
    Alice = Alice
    Bob = Bob
    Acme = Acme
    Zenith = Zenith
    SuperAdmin = SuperAdmin
    None = None
    Requests = {w1, w2}
    UserIds = {1, 2, 3}
    TenantIds = {1}
    Names = {SuperAdmin, Alice, Bob}
    TenantNames = {Acme}
    MaxRequests = 4
    AskedTypes = {"user"}
INVARIANT UserTenantExists
