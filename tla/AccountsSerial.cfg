SPECIFICATION SerialSpec
CONSTANTS
    w1 = w1
    w2 = w2
    Alice = Alice
    Bob = Bob
    Acme = Acme
    Zenith = Zenith
    SuperAdmin = SuperAdmin
    None = None
    Requests = {w1}
    UserIds = {1, 2, 3}
    TenantIds = {1, 2}
    Names = {SuperAdmin, Alice, Bob}
    TenantNames = {Acme, Zenith}
    MaxRequests = 5
    AskedTypes = {"super_admin", "tenant_admin", "user", "blank"}
SYMMETRY AccountSymmetry
INVARIANTS
    UserTenantExists
    AdminHasTenant
PROPERTIES
    OrdinaryKeepsFlags
    AdminsByTenantCreation
