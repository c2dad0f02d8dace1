---------------------------- MODULE SystemAccounts ----------------------------
(***************************************************************************)
(* Users and tenants of the System service                                 *)
(* (system/backend/internal/service/user_service.go, tenant_service.go and *)
(* the repositories, middleware and handlers around them).                 *)
(*                                                                         *)
(* Every request runs in its own goroutine: it reads the rows it needs     *)
(* with one SELECT each, decides by what it read, and writes once. One     *)
(* action is one SELECT or the write; a gorm Transaction is one action.    *)
(* Between two steps of a request any step of another one may happen.      *)
(*                                                                         *)
(* Abstractions: e-mail, full name, password and description are left out  *)
(* (a duplicate e-mail is one reason why an INSERT may fail); read-only    *)
(* requests are left out; is_superuser always equals user_type =           *)
(* super_admin and is left out.                                            *)
(***************************************************************************)
EXTENDS Naturals, FiniteSets

CONSTANTS
    Requests,     \* goroutines that can handle a request at the same time
    UserIds,      \* values of the id sequence of users
    TenantIds,    \* values of the id sequence of tenants
    Names,        \* user names
    SuperAdmin,   \* the user name "SuperAdmin"
    TenantNames,
    AskedTypes,   \* the user types that requests ask for
    MaxRequests,  \* bound on the requests of a behaviour
    None          \* "no row", NULL, or a field that a request does not carry

ASSUME ConstantsAssumption ==
    /\ UserIds \subseteq Nat /\ UserIds # {} /\ TenantIds \subseteq Nat
    /\ SuperAdmin \in Names /\ MaxRequests \in Nat
    /\ None \notin UserIds /\ None \notin TenantIds
    /\ None \notin Names /\ None \notin TenantNames /\ None \notin BOOLEAN

\* user_type; "blank" is the empty string, which an update may store.
UserTypes == {"super_admin", "tenant_admin", "user", "blank"}
ASSUME TypesAssumption == None \notin UserTypes /\ AskedTypes \subseteq UserTypes

UserRow == [name : Names, type : UserTypes, tenant : TenantIds \cup {None},
            active : BOOLEAN]
TenantRow == [name : TenantNames, active : BOOLEAN]
Identity == Names \X (TenantIds \cup {None})
ASSUME NoneIsNoRow == \A r \in UserRow \cup TenantRow \cup Identity : r # None

Ops == {"register", "create", "update", "delete",
        "createTenant", "updateTenant", "deleteTenant"}
ASSUME NoneIsNoOp == None \notin Ops

VARIABLES
    users,    \* table users: id -> row or None
    tenants,  \* table tenants: id -> row or None
    birth,    \* history: <<name, tenant>> with which an id was first inserted
    tborn,    \* history: the tenant ids used so far
    up,       \* the process is running
    pc,       \* what each request does next
    req,      \* the fields of each request
    cur,      \* snapshot of the row of the user who sent it
    tgt,      \* snapshot of the user row it is about
    ttgt,     \* snapshot of the tenant row it is about
    sent      \* how much of MaxRequests is used up

dbVars == <<users, tenants, birth, tborn>>
snapVars == <<cur, tgt, ttgt>>
vars == <<dbVars, up, pc, req, snapVars, sent>>

Request ==
    [op : Ops \cup {None}, actor : UserIds \cup {None},
     id : UserIds \cup TenantIds \cup {None}, name : Names \cup {None},
     type : UserTypes \cup {None}, tname : TenantNames \cup {None},
     active : BOOLEAN \cup {None}]

\* A request without an optional field carries None in it.
NoReq == [op |-> None, actor |-> None, id |-> None, name |-> None,
          type |-> None, tname |-> None, active |-> None]

PCs == {"idle", "name", "target", "actor", "tenant", "tname", "write"}

TypeOK ==
    /\ users \in [UserIds -> {None} \cup UserRow]
    /\ tenants \in [TenantIds -> {None} \cup TenantRow]
    /\ birth \in [UserIds -> {None} \cup Identity]
    /\ tborn \in SUBSET TenantIds
    /\ up \in BOOLEAN
    /\ pc \in [Requests -> PCs]
    /\ req \in [Requests -> Request]
    /\ cur \in [Requests -> {None} \cup UserRow]
    /\ tgt \in [Requests -> {None} \cup UserRow]
    /\ ttgt \in [Requests -> {None} \cup TenantRow]
    /\ sent \in 0..MaxRequests

Init ==
    /\ users = [u \in UserIds |-> None]
    /\ tenants = [t \in TenantIds |-> None]
    /\ birth = [u \in UserIds |-> None]
    /\ tborn = {}
    /\ up = FALSE
    /\ pc = [w \in Requests |-> "idle"]
    /\ req = [w \in Requests |-> NoReq]
    /\ cur = [w \in Requests |-> None]
    /\ tgt = [w \in Requests |-> None]
    /\ ttgt = [w \in Requests |-> None]
    /\ sent = 0

-----------------------------------------------------------------------------
(* Tables *)

UserNamed(nm) == \E u \in UserIds : users[u] # None /\ users[u].name = nm
TenantNamed(nm) == \E t \in TenantIds : tenants[t] # None /\ tenants[t].name = nm

\* The next value of each id sequence: ids are never handed out again.
NextUserId(u) == /\ birth[u] = None
                 /\ \A v \in UserIds : v < u => birth[v] # None
NextTenantId(t) == /\ t \notin tborn
                   /\ \A s \in TenantIds : s < t => s \in tborn

\* gorm Save: UPDATE of every column, and if that met no row an INSERT of the
\* snapshot, in which the zero values of is_active and user_type give way to
\* the defaults of their columns.
Saved(row, exists) ==
    IF exists THEN row
    ELSE [row EXCEPT !.active = TRUE,
                     !.type = IF @ = "blank" THEN "user" ELSE @]

-----------------------------------------------------------------------------
(* The process *)

\* main: AutoMigrate has created the tables; InitSuperAdmin creates the row of
\* SuperAdmin, or puts its type right.
Start ==
    /\ ~up
    /\ up' = TRUE
    /\ IF UserNamed(SuperAdmin)
       THEN /\ users' = [u \in UserIds |->
                  IF /\ users[u] # None /\ users[u].name = SuperAdmin
                     /\ users[u].type # "super_admin"
                  THEN [users[u] EXCEPT !.type = "super_admin", !.tenant = None]
                  ELSE users[u]]
            /\ UNCHANGED birth
       ELSE \E u \in UserIds :
               /\ NextUserId(u)
               /\ users' = [users EXCEPT ![u] =
                     [name |-> SuperAdmin, type |-> "super_admin",
                      tenant |-> None, active |-> TRUE]]
               /\ birth' = [birth EXCEPT ![u] = <<SuperAdmin, None>>]
    /\ UNCHANGED <<tenants, tborn, pc, req, snapVars, sent>>

\* The process ends; the requests in progress are lost.
Crash ==
    /\ up
    /\ up' = FALSE
    /\ pc' = [w \in Requests |-> "idle"]
    /\ req' = [w \in Requests |-> NoReq]
    /\ cur' = [w \in Requests |-> None]
    /\ tgt' = [w \in Requests |-> None]
    /\ ttgt' = [w \in Requests |-> None]
    /\ UNCHANGED <<dbVars, sent>>

-----------------------------------------------------------------------------
(* Requests arrive *)

\* Who may hold a token: every user that was ever inserted. An inserted row is
\* active, so its user can log in (Authenticate); later AuthMiddleware checks
\* the token alone, even when the user has been disabled or deleted meanwhile.
Callers == {u \in UserIds : birth[u] # None}

\* Request r with first step p arrives at the idle goroutine w.
Arrive(w, r, p) ==
    /\ up /\ pc[w] = "idle" /\ sent < MaxRequests
    /\ sent' = sent + 1
    /\ req' = [req EXCEPT ![w] = r]
    /\ pc' = [pc EXCEPT ![w] = p]
    /\ UNCHANGED <<dbVars, up, snapVars>>

BeginRegister(w) == \E nm \in Names :
    Arrive(w, [NoReq EXCEPT !.op = "register", !.name = nm], "name")

BeginCreate(w) == \E a \in Callers, nm \in Names, t \in AskedTypes :
    Arrive(w, [NoReq EXCEPT !.op = "create", !.actor = a, !.name = nm, !.type = t],
           "name")

BeginUpdate(w) ==
    \E a \in Callers, u \in UserIds, t \in AskedTypes \cup {None},
       b \in BOOLEAN \cup {None} :
       Arrive(w, [NoReq EXCEPT !.op = "update", !.actor = a, !.id = u, !.type = t,
                               !.active = b], "target")

BeginDelete(w) == \E a \in Callers, u \in UserIds :
    Arrive(w, [NoReq EXCEPT !.op = "delete", !.actor = a, !.id = u], "target")

BeginCreateTenant(w) == \E a \in Callers, tn \in TenantNames, nm \in Names :
    Arrive(w, [NoReq EXCEPT !.op = "createTenant", !.actor = a, !.tname = tn,
                            !.name = nm], "actor")

BeginUpdateTenant(w) ==
    \E a \in Callers, t \in TenantIds, tn \in TenantNames \cup {None},
       b \in BOOLEAN \cup {None} :
       Arrive(w, [NoReq EXCEPT !.op = "updateTenant", !.actor = a, !.id = t,
                               !.tname = tn, !.active = b], "actor")

BeginDeleteTenant(w) == \E a \in Callers, t \in TenantIds :
    Arrive(w, [NoReq EXCEPT !.op = "deleteTenant", !.actor = a, !.id = t], "actor")

-----------------------------------------------------------------------------
(* Reads *)

\* The response is sent: the goroutine and its variables are gone.
Respond(w) ==
    /\ pc' = [pc EXCEPT ![w] = "idle"]
    /\ req' = [req EXCEPT ![w] = NoReq]
    /\ cur' = [cur EXCEPT ![w] = None]
    /\ tgt' = [tgt EXCEPT ![w] = None]
    /\ ttgt' = [ttgt EXCEPT ![w] = None]
    /\ UNCHANGED sent

Continue(w, p) == pc' = [pc EXCEPT ![w] = p] /\ UNCHANGED <<req, sent>>

\* GetByName finds a tenant other than the one that the request is about.
TenantNameTaken(w) ==
    \E t \in TenantIds \ {req[w].id} :
        tenants[t] # None /\ tenants[t].name = req[w].tname

\* An error ends a request before its write: a missing row, a refused
\* permission, or a failing statement (all but the look-ups of names).
Refuse(w) ==
    /\ pc[w] # "idle"
    /\ pc[w] = "name" => UserNamed(req[w].name)
    /\ pc[w] = "tname" => TenantNameTaken(w)
    /\ Respond(w)
    /\ UNCHANGED <<dbVars, up>>

\* What follows the look-up of a name that is not taken.
AfterLookup(w) ==
    CASE pc[w] = "name" /\ req[w].op = "create" -> "actor"
      [] pc[w] = "tname" /\ req[w].op = "createTenant" -> "name"
      [] OTHER -> "write"

\* GetByUsername: a name that is taken is refused.
CheckUsername(w) ==
    /\ pc[w] = "name"
    /\ ~UserNamed(req[w].name)
    /\ Continue(w, AfterLookup(w))
    /\ UNCHANGED <<dbVars, up, snapVars>>

\* The SELECT of a look-up fails: the callers of GetByUsername and GetByName
\* take any error for "not found" and go on.
LookupFails(w) ==
    /\ pc[w] \in {"name", "tname"}
    /\ Continue(w, AfterLookup(w))
    /\ UNCHANGED <<dbVars, up, snapVars>>

\* Mutant of ReadTarget: the row of SuperAdmin is not protected.
ReadTargetAny(w) ==
    /\ pc[w] = "target"
    /\ users[req[w].id] # None
    /\ tgt' = [tgt EXCEPT ![w] = users[req[w].id]]
    /\ Continue(w, "actor")
    /\ UNCHANGED <<dbVars, up, cur, ttgt>>

\* GetByID of the user that an update or a deletion is about. Delete refuses
\* the row of SuperAdmin.
ReadTarget(w) ==
    /\ pc[w] = "target"
    /\ LET row == users[req[w].id] IN
          /\ row # None
          /\ req[w].op = "delete" => row.name # SuperAdmin
          /\ tgt' = [tgt EXCEPT ![w] = row]
    /\ Continue(w, "actor")
    /\ UNCHANGED <<dbVars, up, cur, ttgt>>

\* Mutant of MayAssign: only the type super_admin is excluded.
MayAssignMore(creator, type) ==
    creator.type = "tenant_admin" /\ type # "super_admin"

\* Mutant of MayAssign: only the super administrator is refused.
MayAssignAnyone(creator, type) == creator.type # "super_admin" /\ type # "super_admin"

\* validateCreatePermission
MayAssign(creator, type) ==
    creator.type = "tenant_admin" /\ type \in {"user", "blank"}

\* Mutant of SameTenant: the ids are not compared.
SomeTenant(a, b) == a.tenant # None /\ b.tenant # None

\* Both belong to one tenant.
SameTenant(a, b) == a.tenant # None /\ a.tenant = b.tenant

\* validateUpdatePermission, and the check of a new user type in Update.
MayUpdate(actor, target, r) ==
    /\ \/ actor.type = "super_admin"
       \/ /\ actor.type = "tenant_admin"
          /\ SameTenant(target, actor)
          /\ target.type = "tenant_admin" => r.id = r.actor
       \/ /\ actor.type \in {"user", "blank"}
          /\ r.id = r.actor /\ r.active = None /\ r.type = None
    /\ r.type # None => MayAssign(actor, r.type)

\* The checks of UserService.Delete
MayDelete(actor, target) ==
    \/ actor.type = "super_admin"
    \/ /\ actor.type = "tenant_admin"
       /\ SameTenant(target, actor)
       /\ target.type # "tenant_admin"

\* What the operation of request r demands of the user who sent it.
Permitted(r, actor, target) ==
    CASE r.op = "create" -> MayAssign(actor, r.type)
      [] r.op = "update" -> MayUpdate(actor, target, r)
      [] r.op = "delete" -> MayDelete(actor, target)
      [] OTHER -> actor.type = "super_admin"

\* GetByID of the user who sent the request, and the permission check.
ReadActor(w) ==
    /\ pc[w] = "actor"
    /\ LET row == users[req[w].actor] IN
          /\ row # None
          /\ Permitted(req[w], row, tgt[w])
          /\ cur' = [cur EXCEPT ![w] = row]
    /\ Continue(w, CASE req[w].op = "createTenant" -> "tname"
                     [] req[w].op \in {"updateTenant", "deleteTenant"} -> "tenant"
                     [] OTHER -> "write")
    /\ UNCHANGED <<dbVars, up, tgt, ttgt>>

\* GetByID of the tenant.
ReadTenant(w) ==
    /\ pc[w] = "tenant"
    /\ tenants[req[w].id] # None
    /\ ttgt' = [ttgt EXCEPT ![w] = tenants[req[w].id]]
    /\ Continue(w, IF req[w].tname # None THEN "tname" ELSE "write")
    /\ UNCHANGED <<dbVars, up, cur, tgt>>

\* GetByName: the tenant name must be free, or the tenant's own.
CheckTenantName(w) ==
    /\ pc[w] = "tname"
    /\ ~TenantNameTaken(w)
    /\ Continue(w, AfterLookup(w))
    /\ UNCHANGED <<dbVars, up, snapVars>>

-----------------------------------------------------------------------------
(* Writes *)

\* At the write of operation op.
Writing(w, op) == pc[w] = "write" /\ req[w].op = op

\* The INSERT of a user; the unique index on username is checked again.
Insert(u, row) ==
    /\ NextUserId(u)
    /\ ~UserNamed(row.name)
    /\ users' = [users EXCEPT ![u] = row]
    /\ birth' = [birth EXCEPT ![u] = <<row.name, row.tenant>>]

\* Register: an ordinary user without a tenant.
RegisterUser(w) ==
    /\ Writing(w, "register")
    /\ \E u \in UserIds :
          Insert(u, [name |-> req[w].name, type |-> "user", tenant |-> None,
                     active |-> TRUE])
    /\ Respond(w)
    /\ UNCHANGED <<tenants, tborn, up>>

\* Create: an ordinary user of the creator's tenant.
CreateUser(w) ==
    /\ Writing(w, "create")
    /\ \E u \in UserIds :
          Insert(u, [name |-> req[w].name,
                     type |-> IF req[w].type = "blank" THEN "user" ELSE req[w].type,
                     tenant |-> cur[w].tenant, active |-> TRUE])
    /\ Respond(w)
    /\ UNCHANGED <<tenants, tborn, up>>

\* Mutant of UpdatedUser: a missing is_active is stored as it is.
UpdatedUserNil(w) == [tgt[w] EXCEPT !.active = req[w].active]

\* Mutant of UpdatedUser: the row moves to the tenant of the caller.
UpdatedUserMoved(w) == [tgt[w] EXCEPT !.tenant = cur[w].tenant]

\* Mutant of UpdatedUser: a missing is_active is taken as true.
UpdatedUserActive(w) ==
    [tgt[w] EXCEPT !.active = IF req[w].active # None THEN req[w].active ELSE TRUE]

\* The row that Update saves: the snapshot with the fields of the request, the
\* last two only if an administrator sent it.
UpdatedUser(w) ==
    LET admin == cur[w].type \in {"super_admin", "tenant_admin"} IN
    [tgt[w] EXCEPT
        !.active = IF admin /\ req[w].active # None THEN req[w].active ELSE @,
        !.type = IF admin /\ req[w].type # None THEN req[w].type ELSE @]

\* Update: Save. If the row is gone it is inserted again, unless its name has
\* been taken meanwhile.
SaveUser(w) ==
    /\ Writing(w, "update")
    /\ LET u == req[w].id IN
          /\ users[u] = None => ~UserNamed(tgt[w].name)
          /\ users' = [users EXCEPT ![u] = Saved(UpdatedUser(w), users[u] # None)]
    /\ Respond(w)
    /\ UNCHANGED <<tenants, birth, tborn, up>>

DeleteUser(w) ==
    /\ Writing(w, "delete")
    /\ users' = [users EXCEPT ![req[w].id] = None]
    /\ Respond(w)
    /\ UNCHANGED <<tenants, birth, tborn, up>>

\* TenantService.Create: the tenant and its administrator, in a transaction
\* that the unique indexes on both names may abort.
CreateTenant(w) ==
    /\ Writing(w, "createTenant")
    /\ ~TenantNamed(req[w].tname)
    /\ \E t \in TenantIds, u \in UserIds :
          /\ NextTenantId(t)
          /\ tenants' = [tenants EXCEPT ![t] = [name |-> req[w].tname, active |-> TRUE]]
          /\ tborn' = tborn \cup {t}
          /\ Insert(u, [name |-> req[w].name, type |-> "tenant_admin",
                        tenant |-> t, active |-> TRUE])
    /\ Respond(w)
    /\ UNCHANGED up

\* The row that TenantService.Update saves.
UpdatedTenant(w) ==
    [ttgt[w] EXCEPT !.name = IF req[w].tname # None THEN req[w].tname ELSE @,
                    !.active = IF req[w].active # None THEN req[w].active ELSE @]

\* TenantService.Update: Save, which the unique index on name may refuse, and
\* which inserts a tenant that was deleted meanwhile.
SaveTenant(w) ==
    /\ Writing(w, "updateTenant")
    /\ LET t == req[w].id IN
          /\ \A s \in TenantIds \ {t} :
                tenants[s] # None => tenants[s].name # UpdatedTenant(w).name
          /\ tenants' = [tenants EXCEPT ![t] =
                IF @ # None THEN UpdatedTenant(w)
                ELSE [UpdatedTenant(w) EXCEPT !.active = TRUE]]
    /\ Respond(w)
    /\ UNCHANGED <<users, birth, tborn, up>>

\* Mutant of DeleteTenant: the users are forgotten.
DeleteTenantRow(w) ==
    /\ Writing(w, "deleteTenant")
    /\ tenants' = [tenants EXCEPT ![req[w].id] = None]
    /\ Respond(w)
    /\ UNCHANGED <<users, birth, tborn, up>>

\* TenantService.Delete: the tenant and all its users, in a transaction.
DeleteTenant(w) ==
    /\ Writing(w, "deleteTenant")
    /\ users' = [u \in UserIds |->
                   IF users[u] # None /\ users[u].tenant = req[w].id
                   THEN None ELSE users[u]]
    /\ tenants' = [tenants EXCEPT ![req[w].id] = None]
    /\ Respond(w)
    /\ UNCHANGED <<birth, tborn, up>>

Begin(w) ==
    \/ BeginRegister(w) \/ BeginCreate(w) \/ BeginUpdate(w) \/ BeginDelete(w)
    \/ BeginCreateTenant(w) \/ BeginUpdateTenant(w) \/ BeginDeleteTenant(w)

Step(w) ==
    \/ Refuse(w) \/ CheckUsername(w) \/ LookupFails(w) \/ ReadTarget(w)
    \/ ReadActor(w) \/ ReadTenant(w) \/ CheckTenantName(w) \/ RegisterUser(w) \/ CreateUser(w)
    \/ SaveUser(w) \/ DeleteUser(w) \/ CreateTenant(w) \/ SaveTenant(w)
    \/ DeleteTenant(w)

Environment == Start \/ Crash

Next == (\E w \in Requests : Begin(w) \/ Step(w)) \/ Environment

Spec == Init /\ [][Next]_vars

\* The schedules in which requests do not overlap.
SerialNext ==
    \/ \E w \in Requests : Begin(w) /\ \A v \in Requests : pc[v] = "idle"
    \/ \E w \in Requests : Step(w)
    \/ Environment

SerialSpec == Init /\ [][SerialNext]_vars

-----------------------------------------------------------------------------
(* Properties *)

\* While the service runs there is exactly one super administrator, the row
\* named SuperAdmin: no sequence of registrations, updates with stale
\* snapshots, deletions and restarts adds another or removes it.
SuperAdminUnique ==
    up => \E u \in UserIds :
             /\ users[u] # None /\ users[u].type = "super_admin"
             /\ \A v \in UserIds : users[v] # None =>
                   /\ users[v].type = "super_admin" => v = u
                   /\ users[v].name = SuperAdmin => v = u

\* An id means the same name and tenant for ever, although rows are saved from
\* snapshots and a deleted row may be inserted again: the user_id in a token and
\* in the audit log never comes to mean somebody else.
IdentityFixed ==
    \A u \in UserIds : users[u] # None => birth[u] = <<users[u].name, users[u].tenant>>

\* A tenant administrator belongs to a tenant, whatever is saved from which
\* snapshot: List dereferences its TenantID without looking.
AdminHasTenant ==
    \A u \in UserIds : (users[u] # None /\ users[u].type = "tenant_admin") =>
        users[u].tenant # None

\* A request that was let through as a tenant administrator's only changes rows
\* that belong to that tenant, at the moment of the write, not only when the
\* rows were read.
TenantIsolation ==
    [][\A w \in Requests, u \in UserIds :
          (/\ pc[w] = "write" /\ pc'[w] = "idle" /\ up'
           /\ cur[w] # None /\ cur[w].type = "tenant_admin"
           /\ users'[u] # users[u])
          => \A row \in {users[u], users'[u]} \ {None} :
                row.tenant = cur[w].tenant /\ row.tenant # None]_vars

\* Every user that has a tenant has one that exists (TenantService.Delete:
\* a tenant is deleted together with all its users).
UserTenantExists ==
    \A u \in UserIds : (users[u] # None /\ users[u].tenant # None) =>
        tenants[users[u].tenant] # None

\* validateUpdatePermission: a request of an ordinary user changes neither the
\* activation state nor the type of a row.
OrdinaryKeepsFlags ==
    [][\A w \in Requests, u \in UserIds :
          (/\ pc[w] = "write" /\ pc'[w] = "idle" /\ up'
           /\ cur[w] # None /\ cur[w].type \in {"user", "blank"}
           /\ users[u] # None /\ users'[u] # None)
          => /\ users'[u].active = users[u].active
             /\ users'[u].type = users[u].type]_vars

\* A row becomes a tenant administrator's only when its tenant is created:
\* nobody is promoted later.
AdminsByTenantCreation ==
    [][\A u \in UserIds :
          (users'[u] # None /\ users'[u].type = "tenant_admin"
           /\ (users[u] = None \/ users[u].type # "tenant_admin"))
          => tborn' # tborn]_vars
=============================================================================
