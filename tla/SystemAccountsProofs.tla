------------------------- MODULE SystemAccountsProofs -------------------------
(***************************************************************************)
(* Proofs about SystemAccounts, for any number of overlapping requests,    *)
(* users, tenants and restarts.                                            *)
(*                                                                         *)
(* A write trusts what the request read earlier. AccountInv says what of   *)
(* it is still true at the write although other requests ran meanwhile:    *)
(* the name and the tenant of an id, and who is the super administrator.   *)
(* The last part is about requests that do not overlap: then nothing a     *)
(* request has read is stale, and three more properties hold.              *)
(***************************************************************************)
EXTENDS SystemAccounts, TLAPS

\* The form of a request and its progress: which fields it carries, what it has
\* read at each of its control points.
RequestOK(w) ==
    /\ pc[w] # "idle" => up
    /\ pc[w] = "idle" => cur[w] = None /\ tgt[w] = None
    /\ pc[w] # "idle" => req[w].op \in Ops
    /\ pc[w] = "actor" => req[w].op # "register"
    /\ pc[w] # "idle" /\ req[w].op # "register" => req[w].actor \in UserIds
    /\ req[w].op \in {"update", "delete"} => req[w].id \in UserIds
    /\ req[w].op \in {"updateTenant", "deleteTenant"} => req[w].id \in TenantIds
    /\ req[w].op \in {"register", "create", "createTenant"} => req[w].name \in Names
    /\ req[w].op = "create" => req[w].type \in UserTypes
    /\ req[w].op = "createTenant" => req[w].tname \in TenantNames
    /\ req[w].op = "deleteTenant" => req[w].tname = None
    /\ pc[w] = "name" => req[w].op \in {"register", "create", "createTenant"}
    /\ pc[w] = "target" => req[w].op \in {"update", "delete"}
    /\ pc[w] = "tenant" => req[w].op \in {"updateTenant", "deleteTenant"}
    /\ pc[w] = "tname" => req[w].op \in {"createTenant", "updateTenant"}
    /\ pc[w] \in {"actor", "write"} /\ req[w].op \in {"update", "delete"} =>
          tgt[w] \in UserRow
    /\ pc[w] = "write" /\ req[w].op \in {"create", "update", "delete"} =>
          cur[w] \in UserRow /\ Permitted(req[w], cur[w], tgt[w])
    /\ pc[w] \in {"tname", "write"} /\ req[w].op = "updateTenant" =>
          ttgt[w] \in TenantRow
    /\ cur[w] # None /\ cur[w].type = "tenant_admin" =>
          req[w].op \in {"create", "update", "delete"}

\* What every row of users, and every snapshot of one, satisfies.
RowOK(row) ==
    /\ row.type = "super_admin" <=> row.name = SuperAdmin
    /\ row.name = SuperAdmin => row.tenant = None
    /\ row.type = "tenant_admin" => row.tenant # None

SnapshotOK(w) ==
    /\ cur[w] # None => RowOK(cur[w])
    /\ tgt[w] # None =>
          /\ RowOK(tgt[w])
          /\ req[w].id \in UserIds
          /\ birth[req[w].id] = <<tgt[w].name, tgt[w].tenant>>
          /\ req[w].op = "delete" => tgt[w].name # SuperAdmin

\* The unique index on username.
NamesUnique ==
    \A u, v \in UserIds :
        (users[u] # None /\ users[v] # None /\ users[u].name = users[v].name) => u = v

AccountInv ==
    /\ TypeOK
    /\ IdentityFixed
    /\ NamesUnique
    /\ up => UserNamed(SuperAdmin)
    /\ \A u \in UserIds : users[u] # None => RowOK(users[u])
    /\ \A w \in Requests : RequestOK(w) /\ SnapshotOK(w)

-----------------------------------------------------------------------------
USE DEF dbVars, snapVars, PCs, Ops

\* A step of request w that writes no table.
LEMMA LocalStep ==
  ASSUME AccountInv, NEW w \in Requests, UNCHANGED <<dbVars, up>>,
         \A v \in Requests \ {w} :
            /\ pc'[v] = pc[v] /\ req'[v] = req[v] /\ cur'[v] = cur[v]
            /\ tgt'[v] = tgt[v] /\ ttgt'[v] = ttgt[v],
         TypeOK', RequestOK(w)', SnapshotOK(w)'
  PROVE  AccountInv'
<1>1. ASSUME NEW v \in Requests \ {w} PROVE RequestOK(v)' /\ SnapshotOK(v)'
  BY DEF AccountInv, RequestOK, SnapshotOK
<1> QED BY <1>1 DEF AccountInv, IdentityFixed, NamesUnique, UserNamed

\* The end of a request changes nothing of the others.
LEMMA RespondFrame ==
  ASSUME TypeOK, NEW w \in Requests, Respond(w)
  PROVE  /\ pc'[w] = "idle" /\ req'[w] = NoReq /\ cur'[w] = None
         /\ tgt'[w] = None /\ ttgt'[w] = None
         /\ \A v \in Requests \ {w} :
               /\ pc'[v] = pc[v] /\ req'[v] = req[v] /\ cur'[v] = cur[v]
               /\ tgt'[v] = tgt[v] /\ ttgt'[v] = ttgt[v]
         /\ pc' \in [Requests -> PCs]
         /\ req' \in [Requests -> Request]
         /\ cur' \in [Requests -> {None} \cup UserRow]
         /\ tgt' \in [Requests -> {None} \cup UserRow]
         /\ ttgt' \in [Requests -> {None} \cup TenantRow]
         /\ sent' \in 0..MaxRequests
<1>1. NoReq \in Request
  BY DEF NoReq, Request
<1> QED BY <1>1 DEF TypeOK, Respond

\* An idle goroutine has read nothing.
LEMMA IdleNext ==
  ASSUME NEW w \in Requests, pc'[w] = "idle", req'[w] = NoReq, cur'[w] = None,
         tgt'[w] = None
  PROVE  RequestOK(w)' /\ SnapshotOK(w)'
  BY NoneIsNoOp DEF RequestOK, SnapshotOK, NoReq

\* A step of request w that writes the tables and ends it.
LEMMA WriteStep ==
  ASSUME AccountInv, NEW w \in Requests, Respond(w), UNCHANGED up,
         users' \in [UserIds -> {None} \cup UserRow],
         tenants' \in [TenantIds -> {None} \cup TenantRow],
         birth' \in [UserIds -> {None} \cup Identity],
         tborn' \in SUBSET TenantIds,
         \A u \in UserIds : birth[u] # None => birth'[u] = birth[u],
         \A u \in UserIds : users'[u] # None => RowOK(users'[u]),
         IdentityFixed', NamesUnique', up => UserNamed(SuperAdmin)'
  PROVE  AccountInv'
<1>1. TypeOK'
  BY RespondFrame DEF AccountInv, TypeOK
<1>2. ASSUME NEW v \in Requests \ {w} PROVE RequestOK(v)'
  BY RespondFrame DEF AccountInv, RequestOK
<1>3. ASSUME NEW v \in Requests \ {w} PROVE SnapshotOK(v)'
  <2>1. req'[v] = req[v] /\ cur'[v] = cur[v] /\ tgt'[v] = tgt[v] /\ SnapshotOK(v)
    BY RespondFrame DEF AccountInv
  <2>2. ASSUME tgt[v] # None PROVE birth[req[v].id] # None
    <3>1. tgt[v] \in UserRow
      BY <2>2 DEF AccountInv, TypeOK
    <3>2. <<tgt[v].name, tgt[v].tenant>> \in Identity
      BY <3>1 DEF UserRow, Identity
    <3> QED BY <2>1, <2>2, <3>2, NoneIsNoRow DEF SnapshotOK
  <2> QED BY <2>1, <2>2 DEF SnapshotOK
<1>4. RequestOK(w)' /\ SnapshotOK(w)'
  BY RespondFrame, IdleNext DEF AccountInv
<1> QED BY <1>1, <1>2, <1>3, <1>4 DEF AccountInv

-----------------------------------------------------------------------------
(* Requests arrive and read *)

\* What the request r must carry to arrive at the step p.
Wellformed(r, p) ==
    /\ r \in Request /\ r.op \in Ops
    /\ p = "name" => r.op \in {"register", "create"}
    /\ p = "target" => r.op \in {"update", "delete"}
    /\ p = "actor" => r.op \in {"createTenant", "updateTenant", "deleteTenant"}
    /\ p \in {"name", "target", "actor"}
    /\ r.op # "register" => r.actor \in UserIds
    /\ r.op \in {"update", "delete"} => r.id \in UserIds
    /\ r.op \in {"updateTenant", "deleteTenant"} => r.id \in TenantIds
    /\ r.op \in {"register", "create", "createTenant"} => r.name \in Names
    /\ r.op = "create" => r.type \in UserTypes
    /\ r.op = "createTenant" => r.tname \in TenantNames
    /\ r.op = "deleteTenant" => r.tname = None

\* A request arrives with no snapshot.
LEMMA ArriveStep ==
  ASSUME AccountInv, NEW w \in Requests, NEW r, NEW p, Wellformed(r, p),
         Arrive(w, r, p)
  PROVE  AccountInv'
<1>1. /\ pc'[w] = p /\ req'[w] = r /\ cur'[w] = None /\ tgt'[w] = None /\ up'
      /\ \A v \in Requests \ {w} :
            /\ pc'[v] = pc[v] /\ req'[v] = req[v] /\ cur'[v] = cur[v]
            /\ tgt'[v] = tgt[v] /\ ttgt'[v] = ttgt[v]
  BY DEF AccountInv, TypeOK, RequestOK, Arrive
<1>2. TypeOK'
  BY ConstantsAssumption DEF AccountInv, TypeOK, Arrive, Wellformed
<1>3. RequestOK(w)'
  BY <1>1 DEF RequestOK, Wellformed
<1>4. SnapshotOK(w)'
  BY <1>1 DEF SnapshotOK
<1> QED BY <1>1, <1>2, <1>3, <1>4, LocalStep DEF Arrive

\* Every handler builds a well-formed request.
LEMMA BeginStep ==
  ASSUME AccountInv, NEW w \in Requests, Begin(w)
  PROVE  AccountInv'
<1> USE TypesAssumption DEF Wellformed, Request, NoReq, Callers
<1>1. CASE BeginRegister(w)
  <2>1. PICK nm \in Names :
          Arrive(w, [NoReq EXCEPT !.op = "register", !.name = nm], "name")
    BY <1>1 DEF BeginRegister
  <2>2. Wellformed([NoReq EXCEPT !.op = "register", !.name = nm], "name")
    OBVIOUS
  <2> QED BY <2>1, <2>2, ArriveStep
<1>2. CASE BeginCreate(w)
  <2>1. PICK a \in Callers, nm \in Names, t \in AskedTypes :
          Arrive(w, [NoReq EXCEPT !.op = "create", !.actor = a, !.name = nm,
                                  !.type = t], "name")
    BY <1>2 DEF BeginCreate
  <2>2. Wellformed([NoReq EXCEPT !.op = "create", !.actor = a, !.name = nm,
                                 !.type = t], "name")
    OBVIOUS
  <2> QED BY <2>1, <2>2, ArriveStep
<1>3. CASE BeginUpdate(w)
  <2>1. PICK a \in Callers, u \in UserIds, t \in AskedTypes \cup {None},
             b \in BOOLEAN \cup {None} :
          Arrive(w, [NoReq EXCEPT !.op = "update", !.actor = a, !.id = u, !.type = t,
                                  !.active = b], "target")
    BY <1>3 DEF BeginUpdate
  <2>2. Wellformed([NoReq EXCEPT !.op = "update", !.actor = a, !.id = u, !.type = t,
                                 !.active = b], "target")
    OBVIOUS
  <2> QED BY <2>1, <2>2, ArriveStep
<1>4. CASE BeginDelete(w)
  <2>1. PICK a \in Callers, u \in UserIds :
          Arrive(w, [NoReq EXCEPT !.op = "delete", !.actor = a, !.id = u], "target")
    BY <1>4 DEF BeginDelete
  <2>2. Wellformed([NoReq EXCEPT !.op = "delete", !.actor = a, !.id = u], "target")
    OBVIOUS
  <2> QED BY <2>1, <2>2, ArriveStep
<1>5. CASE BeginCreateTenant(w)
  <2>1. PICK a \in Callers, tn \in TenantNames, nm \in Names :
          Arrive(w, [NoReq EXCEPT !.op = "createTenant", !.actor = a, !.tname = tn,
                                  !.name = nm], "actor")
    BY <1>5 DEF BeginCreateTenant
  <2>2. Wellformed([NoReq EXCEPT !.op = "createTenant", !.actor = a, !.tname = tn,
                                 !.name = nm], "actor")
    OBVIOUS
  <2> QED BY <2>1, <2>2, ArriveStep
<1>6. CASE BeginUpdateTenant(w)
  <2>1. PICK a \in Callers, t \in TenantIds, tn \in TenantNames \cup {None},
             b \in BOOLEAN \cup {None} :
          Arrive(w, [NoReq EXCEPT !.op = "updateTenant", !.actor = a, !.id = t,
                                  !.tname = tn, !.active = b], "actor")
    BY <1>6 DEF BeginUpdateTenant
  <2>2. Wellformed([NoReq EXCEPT !.op = "updateTenant", !.actor = a, !.id = t,
                                 !.tname = tn, !.active = b], "actor")
    OBVIOUS
  <2> QED BY <2>1, <2>2, ArriveStep
<1>7. CASE BeginDeleteTenant(w)
  <2>1. PICK a \in Callers, t \in TenantIds :
          Arrive(w, [NoReq EXCEPT !.op = "deleteTenant", !.actor = a, !.id = t],
                 "actor")
    BY <1>7 DEF BeginDeleteTenant
  <2>2. Wellformed([NoReq EXCEPT !.op = "deleteTenant", !.actor = a, !.id = t],
                   "actor")
    OBVIOUS
  <2> QED BY <2>1, <2>2, ArriveStep
<1> QED BY <1>1, <1>2, <1>3, <1>4, <1>5, <1>6, <1>7 DEF Begin

\* A refused request leaves the tables alone.
LEMMA RefuseStep ==
  ASSUME AccountInv, NEW w \in Requests, Refuse(w)
  PROVE  AccountInv'
<1>1. TypeOK'
  BY RespondFrame DEF AccountInv, TypeOK, Refuse
<1>2. RequestOK(w)' /\ SnapshotOK(w)'
  BY RespondFrame, IdleNext DEF AccountInv, Refuse
<1> QED BY <1>1, <1>2, RespondFrame, LocalStep DEF AccountInv, Refuse

\* A look-up of a name goes on with the next read or with the write.
LEMMA LookupStep ==
  ASSUME AccountInv, NEW w \in Requests, pc[w] \in {"name", "tname"},
         Continue(w, AfterLookup(w)), UNCHANGED <<dbVars, up, snapVars>>
  PROVE  AccountInv'
<1>1. /\ pc'[w] = AfterLookup(w) /\ UNCHANGED <<req, snapVars, dbVars, up, sent>>
      /\ \A v \in Requests \ {w} : pc'[v] = pc[v]
  BY DEF AccountInv, TypeOK, Continue
<1>2. TypeOK'
  BY DEF AccountInv, TypeOK, Continue, AfterLookup
<1>3. RequestOK(w)'
  BY <1>1 DEF AccountInv, RequestOK, AfterLookup
<1>4. SnapshotOK(w)'
  BY <1>1 DEF AccountInv, SnapshotOK
<1> QED BY <1>1, <1>2, <1>3, <1>4, LocalStep

\* The snapshot of the target is a row of the table.
LEMMA ReadTargetStep ==
  ASSUME AccountInv, NEW w \in Requests, ReadTarget(w)
  PROVE  AccountInv'
<1> DEFINE u == req[w].id
<1>1. u \in UserIds /\ req[w].op \in {"update", "delete"}
  BY DEF AccountInv, RequestOK, ReadTarget
<1>2. users[u] # None /\ users[u] \in UserRow
  BY <1>1 DEF AccountInv, TypeOK, ReadTarget
<1>3. /\ pc'[w] = "actor" /\ pc[w] = "target" /\ tgt'[w] = users[u]
      /\ UNCHANGED <<req, cur, ttgt, dbVars, up, sent>>
      /\ \A v \in Requests \ {w} : pc'[v] = pc[v] /\ tgt'[v] = tgt[v]
  BY DEF AccountInv, TypeOK, ReadTarget, Continue
<1>4. TypeOK'
  BY <1>2 DEF AccountInv, TypeOK, ReadTarget, Continue
<1>5. RequestOK(w)'
  BY <1>1, <1>2, <1>3 DEF AccountInv, RequestOK
<1>6. SnapshotOK(w)'
  BY <1>1, <1>2, <1>3 DEF AccountInv, IdentityFixed, SnapshotOK, ReadTarget
<1> QED BY <1>3, <1>4, <1>5, <1>6, LocalStep

\* The snapshot of the caller is a row of the table, and lets the request pass.
LEMMA ReadActorStep ==
  ASSUME AccountInv, NEW w \in Requests, ReadActor(w)
  PROVE  AccountInv'
<1> DEFINE a == req[w].actor
           p == CASE req[w].op = "createTenant" -> "tname"
                  [] req[w].op \in {"updateTenant", "deleteTenant"} -> "tenant"
                  [] OTHER -> "write"
<1>1. /\ pc'[w] = p /\ pc[w] = "actor" /\ cur'[w] = users[a]
      /\ users[a] # None /\ Permitted(req[w], users[a], tgt[w])
      /\ UNCHANGED <<req, tgt, ttgt, dbVars, up, sent>>
      /\ \A v \in Requests \ {w} : pc'[v] = pc[v] /\ cur'[v] = cur[v]
  BY DEF AccountInv, TypeOK, ReadActor, Continue
<1>2. req[w].op \in Ops \ {"register"} /\ a \in UserIds /\ RequestOK(w) /\ SnapshotOK(w)
  BY <1>1 DEF AccountInv, RequestOK
<1>3. users[a] \in UserRow /\ RowOK(users[a])
  BY <1>1, <1>2 DEF AccountInv, TypeOK
<1>4. p \in PCs
  OBVIOUS
<1>5. TypeOK'
  BY <1>1, <1>3, <1>4 DEF AccountInv, TypeOK, ReadActor, Continue
<1>6. users[a].type = "tenant_admin" => req[w].op \in {"create", "update", "delete"}
  BY <1>1, <1>2 DEF Permitted
<1>7. RequestOK(w)'
  BY <1>1, <1>2, <1>3, <1>6 DEF RequestOK
<1>8. SnapshotOK(w)'
  BY <1>1, <1>2, <1>3 DEF SnapshotOK, RowOK
<1> QED BY <1>1, <1>5, <1>7, <1>8, LocalStep

\* The snapshot of the tenant is a row of the table.
LEMMA ReadTenantStep ==
  ASSUME AccountInv, NEW w \in Requests, ReadTenant(w)
  PROVE  AccountInv'
<1> DEFINE p == IF req[w].tname # None THEN "tname" ELSE "write"
<1>1. /\ pc'[w] = p /\ pc[w] = "tenant" /\ ttgt'[w] = tenants[req[w].id]
      /\ tenants[req[w].id] # None
      /\ UNCHANGED <<req, cur, tgt, dbVars, up, sent>>
      /\ \A v \in Requests \ {w} : pc'[v] = pc[v] /\ ttgt'[v] = ttgt[v]
  BY DEF AccountInv, TypeOK, ReadTenant, Continue
<1>2. /\ req[w].op \in {"updateTenant", "deleteTenant"} /\ req[w].id \in TenantIds
      /\ RequestOK(w) /\ SnapshotOK(w)
  BY <1>1 DEF AccountInv, RequestOK
<1>3. tenants[req[w].id] \in TenantRow
  BY <1>1, <1>2 DEF AccountInv, TypeOK
<1>4. TypeOK'
  BY <1>1, <1>3 DEF AccountInv, TypeOK, ReadTenant, Continue
<1>5. RequestOK(w)'
  BY <1>1, <1>2, <1>3 DEF RequestOK
<1>6. SnapshotOK(w)'
  BY <1>1, <1>2 DEF SnapshotOK
<1> QED BY <1>1, <1>4, <1>5, <1>6, LocalStep

-----------------------------------------------------------------------------
(* Writes *)

\* Only an id that was inserted has a row.
LEMMA RowHasIdentity ==
  ASSUME AccountInv, NEW u \in UserIds, users[u] # None
  PROVE  birth[u] # None
<1>1. users[u] \in UserRow
  BY DEF AccountInv, TypeOK
<1>2. <<users[u].name, users[u].tenant>> \in Identity
  BY <1>1 DEF UserRow, Identity
<1> QED BY <1>2, NoneIsNoRow DEF AccountInv, IdentityFixed

\* An INSERT takes a new id and a free name.
LEMMA InsertOK ==
  ASSUME AccountInv, NEW u \in UserIds, NEW row \in UserRow, Insert(u, row),
         UserNamed(SuperAdmin) => RowOK(row),
         UserNamed(SuperAdmin) \/ (row.name = SuperAdmin /\ RowOK(row))
  PROVE  /\ users[u] = None
         /\ users' = [users EXCEPT ![u] = row]
         /\ users' \in [UserIds -> {None} \cup UserRow]
         /\ birth' \in [UserIds -> {None} \cup Identity]
         /\ \A v \in UserIds : birth[v] # None => birth'[v] = birth[v]
         /\ \A v \in UserIds : users'[v] # None => RowOK(users'[v])
         /\ IdentityFixed' /\ NamesUnique' /\ UserNamed(SuperAdmin)'
<1> USE DEF Insert, NextUserId
<1>1. users[u] = None
  BY RowHasIdentity
<1>2. users' \in [UserIds -> {None} \cup UserRow]
  BY DEF AccountInv, TypeOK
<1>3. /\ users'[u] = row /\ users'[u] # None
      /\ \A v \in UserIds \ {u} : users'[v] = users[v]
  BY NoneIsNoRow DEF AccountInv, TypeOK
<1>4. <<row.name, row.tenant>> \in Identity
  BY DEF UserRow, Identity
<1>5. birth' \in [UserIds -> {None} \cup Identity]
  BY <1>4 DEF AccountInv, TypeOK
<1>6. /\ birth'[u] = <<row.name, row.tenant>>
      /\ \A v \in UserIds \ {u} : birth'[v] = birth[v]
  BY DEF AccountInv, TypeOK
<1>7. \A v \in UserIds : birth[v] # None => birth'[v] = birth[v]
  BY <1>6
<1>8. \A v \in UserIds : users'[v] # None => RowOK(users'[v])
  BY <1>3 DEF AccountInv
<1>9. IdentityFixed'
  BY <1>3, <1>6 DEF AccountInv, IdentityFixed
<1>10. NamesUnique'
  BY <1>1, <1>3 DEF AccountInv, NamesUnique, UserNamed
<1>11. UserNamed(SuperAdmin)'
  BY <1>1, <1>3 DEF UserNamed
<1> QED BY <1>1, <1>2, <1>5, <1>7, <1>8, <1>9, <1>10, <1>11

\* Register inserts an ordinary user.
LEMMA RegisterUserStep ==
  ASSUME AccountInv, NEW w \in Requests, RegisterUser(w)
  PROVE  AccountInv'
<1>1. up /\ req[w].name \in Names /\ UserNamed(SuperAdmin)
  BY DEF AccountInv, RequestOK, RegisterUser, Writing
<1> DEFINE row == [name |-> req[w].name, type |-> "user", tenant |-> None,
                   active |-> TRUE]
<1>2. PICK u \in UserIds : Insert(u, row)
  BY DEF RegisterUser
<1>3. row \in UserRow
  BY <1>1 DEF UserRow, UserTypes
<1>4. RowOK(row)
  BY <1>1, <1>2 DEF RowOK, Insert
<1> HIDE DEF row
<1>5. AccountInv /\ Respond(w) /\ UNCHANGED <<tenants, tborn, up>>
  BY DEF RegisterUser
<1> QED BY <1>1, <1>2, <1>3, <1>4, <1>5, InsertOK, WriteStep DEF AccountInv, TypeOK

\* Create inserts an ordinary user.
LEMMA CreateUserStep ==
  ASSUME AccountInv, NEW w \in Requests, CreateUser(w)
  PROVE  AccountInv'
<1>1. /\ up /\ req[w].name \in Names /\ UserNamed(SuperAdmin) /\ cur[w] \in UserRow
      /\ req[w].type \in {"user", "blank"}
  BY DEF AccountInv, RequestOK, CreateUser, Writing, Permitted, MayAssign
<1> DEFINE row == [name |-> req[w].name,
                   type |-> IF req[w].type = "blank" THEN "user" ELSE req[w].type,
                   tenant |-> cur[w].tenant, active |-> TRUE]
<1>2. PICK u \in UserIds : Insert(u, row)
  BY DEF CreateUser
<1>3. row \in UserRow
  BY <1>1 DEF UserRow, UserTypes
<1>4. RowOK(row)
  BY <1>1, <1>2 DEF RowOK, Insert
<1> HIDE DEF row
<1>5. AccountInv /\ Respond(w) /\ UNCHANGED <<tenants, tborn, up>>
  BY DEF CreateUser
<1> QED BY <1>1, <1>2, <1>3, <1>4, <1>5, InsertOK, WriteStep DEF AccountInv, TypeOK

\* TenantService.Create inserts a tenant and its administrator.
LEMMA CreateTenantStep ==
  ASSUME AccountInv, NEW w \in Requests, CreateTenant(w)
  PROVE  AccountInv'
<1>1. /\ up /\ req[w].name \in Names /\ UserNamed(SuperAdmin)
      /\ req[w].tname \in TenantNames
  BY DEF AccountInv, RequestOK, CreateTenant, Writing
<1>2. PICK t \in TenantIds, u \in UserIds :
        /\ tenants' = [tenants EXCEPT ![t] = [name |-> req[w].tname, active |-> TRUE]]
        /\ tborn' = tborn \cup {t}
        /\ Insert(u, [name |-> req[w].name, type |-> "tenant_admin",
                      tenant |-> t, active |-> TRUE])
  BY DEF CreateTenant
<1> DEFINE row == [name |-> req[w].name, type |-> "tenant_admin", tenant |-> t,
                   active |-> TRUE]
<1>3. row \in UserRow
  BY <1>1 DEF UserRow, UserTypes
<1>4. RowOK(row)
  BY <1>1, <1>2, ConstantsAssumption DEF RowOK, Insert
<1>5. Insert(u, row)
  BY <1>2
<1> HIDE DEF row
<1>6. Respond(w) /\ UNCHANGED up
  BY DEF CreateTenant
<1>7. tenants' \in [TenantIds -> {None} \cup TenantRow] /\ tborn' \in SUBSET TenantIds
  BY <1>1, <1>2 DEF AccountInv, TypeOK, TenantRow
<1> QED BY <1>1, <1>3, <1>4, <1>5, <1>6, <1>7, InsertOK, WriteStep

\* What a request that was let through as update or delete still knows at its write.
LEMMA TargetKnown ==
  ASSUME AccountInv, NEW w \in Requests, pc[w] = "write",
         req[w].op \in {"update", "delete"}
  PROVE  /\ req[w].id \in UserIds /\ up /\ UserNamed(SuperAdmin)
         /\ tgt[w] \in UserRow /\ cur[w] \in UserRow
         /\ RowOK(tgt[w]) /\ RowOK(cur[w])
         /\ birth[req[w].id] = <<tgt[w].name, tgt[w].tenant>>
         /\ req[w].op = "delete" => tgt[w].name # SuperAdmin
         /\ users[req[w].id] # None =>
               /\ users[req[w].id].name = tgt[w].name
               /\ users[req[w].id].tenant = tgt[w].tenant
<1>1. RequestOK(w) /\ SnapshotOK(w)
  BY DEF AccountInv
<1>2. /\ req[w].id \in UserIds /\ up /\ UserNamed(SuperAdmin)
      /\ tgt[w] \in UserRow /\ cur[w] \in UserRow
  BY <1>1 DEF AccountInv, RequestOK
<1>3. tgt[w] # None /\ cur[w] # None
  BY <1>2, NoneIsNoRow
<1> QED BY <1>1, <1>2, <1>3 DEF SnapshotOK, AccountInv, IdentityFixed

\* The row that Update saves is one that the table may hold for the id.
LEMMA SavedOK ==
  ASSUME AccountInv, NEW w \in Requests, Writing(w, "update"), NEW e \in BOOLEAN
  PROVE  LET row == Saved(UpdatedUser(w), e) IN
         /\ row \in UserRow /\ RowOK(row)
         /\ row.name = tgt[w].name /\ row.tenant = tgt[w].tenant
<1>1. /\ tgt[w] \in UserRow /\ cur[w] \in UserRow /\ RowOK(tgt[w]) /\ RowOK(cur[w])
      /\ req[w] \in Request
  BY TargetKnown DEF Writing, AccountInv, TypeOK
<1>2. MayUpdate(cur[w], tgt[w], req[w])
  BY DEF AccountInv, RequestOK, Writing, Permitted
<1>3. UpdatedUser(w) \in UserRow
  BY <1>1 DEF UpdatedUser, UserRow, Request
<1>4. /\ UpdatedUser(w).name = tgt[w].name /\ UpdatedUser(w).tenant = tgt[w].tenant
      /\ \/ UpdatedUser(w).type = tgt[w].type
         \/ UpdatedUser(w).type \in {"user", "blank"} /\ tgt[w].tenant # None
  BY <1>1, <1>2 DEF UpdatedUser, UserRow, MayUpdate, MayAssign, SameTenant
<1> QED BY <1>1, <1>3, <1>4 DEF Saved, RowOK, UserRow, UserTypes

\* Update saves a snapshot, perhaps over a newer row or over none.
LEMMA SaveUserStep ==
  ASSUME AccountInv, NEW w \in Requests, SaveUser(w)
  PROVE  AccountInv'
<1> DEFINE u == req[w].id
           row == Saved(UpdatedUser(w), users[u] # None)
<1>1. pc[w] = "write" /\ req[w].op = "update" /\ Writing(w, "update")
  BY DEF SaveUser, Writing
<1>2. /\ u \in UserIds /\ UserNamed(SuperAdmin)
      /\ birth[u] = <<tgt[w].name, tgt[w].tenant>>
      /\ users[u] # None => users[u].name = tgt[w].name
  BY <1>1, TargetKnown
<1>3. /\ row \in UserRow /\ RowOK(row)
      /\ row.name = tgt[w].name /\ row.tenant = tgt[w].tenant
  BY <1>1, SavedOK
<1>4. /\ users' = [users EXCEPT ![u] = row]
      /\ users[u] = None => ~UserNamed(tgt[w].name)
      /\ Respond(w) /\ UNCHANGED <<tenants, birth, tborn, up>>
  BY DEF SaveUser
<1> HIDE DEF row
<1>5. users' \in [UserIds -> {None} \cup UserRow]
  BY <1>3, <1>4 DEF AccountInv, TypeOK
<1>6. /\ users'[u] = row /\ users'[u] # None
      /\ \A v \in UserIds \ {u} : users'[v] = users[v]
  BY <1>2, <1>3, <1>4, NoneIsNoRow DEF AccountInv, TypeOK
<1>7. \A v \in UserIds : users'[v] # None => RowOK(users'[v])
  BY <1>3, <1>6 DEF AccountInv
<1>8. IdentityFixed'
  BY <1>2, <1>3, <1>4, <1>6 DEF AccountInv, IdentityFixed
<1>9. NamesUnique'
  BY <1>2, <1>3, <1>4, <1>6 DEF AccountInv, NamesUnique, UserNamed
<1>10. UserNamed(SuperAdmin)'
  BY <1>2, <1>3, <1>6 DEF UserNamed
<1> QED BY <1>4, <1>5, <1>7, <1>8, <1>9, <1>10, WriteStep DEF AccountInv, TypeOK

\* Removing rows other than SuperAdmin's keeps the rest of the table as it is.
LEMMA RemoveOK ==
  ASSUME AccountInv, UserNamed(SuperAdmin), UNCHANGED birth,
         users' \in [UserIds -> {None} \cup UserRow],
         \A v \in UserIds : \/ users'[v] = users[v]
                            \/ /\ users'[v] = None
                               /\ users[v] # None => users[v].name # SuperAdmin
  PROVE  /\ \A v \in UserIds : users'[v] # None => RowOK(users'[v])
         /\ IdentityFixed' /\ NamesUnique' /\ UserNamed(SuperAdmin)'
  BY DEF AccountInv, IdentityFixed, NamesUnique, UserNamed

\* Delete removes the row that was read, which is not SuperAdmin's.
LEMMA DeleteUserStep ==
  ASSUME AccountInv, NEW w \in Requests, DeleteUser(w)
  PROVE  AccountInv'
<1> DEFINE u == req[w].id
<1>1. pc[w] = "write" /\ req[w].op = "delete"
  BY DEF DeleteUser, Writing
<1>2. /\ u \in UserIds /\ UserNamed(SuperAdmin)
      /\ users[u] # None => users[u].name # SuperAdmin
  BY <1>1, TargetKnown
<1>3. /\ users' = [users EXCEPT ![u] = None]
      /\ Respond(w) /\ UNCHANGED <<tenants, birth, tborn, up>>
  BY DEF DeleteUser
<1>4. users' \in [UserIds -> {None} \cup UserRow]
  BY <1>3 DEF AccountInv, TypeOK
<1>5. users'[u] = None /\ \A v \in UserIds \ {u} : users'[v] = users[v]
  BY <1>2, <1>3 DEF AccountInv, TypeOK
<1> QED BY <1>2, <1>3, <1>4, <1>5, RemoveOK, WriteStep DEF AccountInv, TypeOK

\* TenantService.Update touches no user.
LEMMA SaveTenantStep ==
  ASSUME AccountInv, NEW w \in Requests, SaveTenant(w)
  PROVE  AccountInv'
<1>1. /\ req[w].id \in TenantIds /\ ttgt[w] \in TenantRow /\ req[w] \in Request
      /\ UserNamed(SuperAdmin)
  BY DEF AccountInv, TypeOK, RequestOK, SaveTenant, Writing
<1>2. UpdatedTenant(w) \in TenantRow
  BY <1>1 DEF UpdatedTenant, TenantRow, Request
<1>3. [UpdatedTenant(w) EXCEPT !.active = TRUE] \in TenantRow
  BY <1>2 DEF TenantRow
<1>4. tenants' \in [TenantIds -> {None} \cup TenantRow]
  BY <1>2, <1>3 DEF AccountInv, TypeOK, SaveTenant
<1>5. Respond(w) /\ UNCHANGED <<users, birth, tborn, up>>
  BY DEF SaveTenant
<1>6. /\ \A v \in UserIds : users'[v] # None => RowOK(users'[v])
      /\ IdentityFixed' /\ NamesUnique' /\ UserNamed(SuperAdmin)'
  BY <1>1, <1>5 DEF AccountInv, IdentityFixed, NamesUnique, UserNamed
<1> QED BY <1>4, <1>5, <1>6, WriteStep DEF AccountInv, TypeOK

\* TenantService.Delete removes the users of a tenant; SuperAdmin has none.
LEMMA DeleteTenantStep ==
  ASSUME AccountInv, NEW w \in Requests, DeleteTenant(w)
  PROVE  AccountInv'
<1>1. req[w].id \in TenantIds /\ UserNamed(SuperAdmin) /\ req[w].id # None
  BY ConstantsAssumption DEF AccountInv, RequestOK, DeleteTenant, Writing
<1>2. /\ users' = [u \in UserIds |->
                   IF users[u] # None /\ users[u].tenant = req[w].id
                   THEN None ELSE users[u]]
      /\ tenants' = [tenants EXCEPT ![req[w].id] = None]
      /\ Respond(w) /\ UNCHANGED <<birth, tborn, up>>
  BY DEF DeleteTenant
<1>3. users' \in [UserIds -> {None} \cup UserRow]
  BY <1>2 DEF AccountInv, TypeOK
<1>4. \A v \in UserIds : \/ users'[v] = users[v]
                         \/ /\ users'[v] = None
                            /\ users[v] # None => users[v].name # SuperAdmin
  BY <1>1, <1>2 DEF AccountInv, RowOK
<1>5. tenants' \in [TenantIds -> {None} \cup TenantRow]
  BY <1>2 DEF AccountInv, TypeOK
<1> QED BY <1>1, <1>2, <1>3, <1>4, <1>5, RemoveOK, WriteStep DEF AccountInv, TypeOK

-----------------------------------------------------------------------------
(* The process *)

\* InitSuperAdmin inserts SuperAdmin, or finds its row right already.
LEMMA StartStep ==
  ASSUME AccountInv, Start
  PROVE  AccountInv'
<1>1. up' /\ ~up /\ UNCHANGED <<tenants, tborn, pc, req, snapVars, sent>>
  BY DEF Start
<1>2. \A v \in Requests : pc[v] = "idle" /\ cur[v] = None /\ tgt[v] = None
  BY <1>1 DEF AccountInv, RequestOK
<1>3. \A v \in Requests : RequestOK(v)' /\ SnapshotOK(v)'
  BY <1>1, <1>2 DEF AccountInv, RequestOK, SnapshotOK
<1>4. CASE UserNamed(SuperAdmin)
  <2>1. UNCHANGED birth
    BY <1>4 DEF Start
  <2>2. users' = [u \in UserIds |->
                    IF /\ users[u] # None /\ users[u].name = SuperAdmin
                       /\ users[u].type # "super_admin"
                    THEN [users[u] EXCEPT !.type = "super_admin", !.tenant = None]
                    ELSE users[u]]
    BY <1>4 DEF Start
  <2>3. \A u \in UserIds : users'[u] = users[u]
    BY <2>2 DEF AccountInv, RowOK
  <2>4. users' \in [UserIds -> {None} \cup UserRow]
    BY <2>2, <2>3 DEF AccountInv, TypeOK
  <2>5. TypeOK'
    BY <1>1, <2>1, <2>4 DEF AccountInv, TypeOK
  <2> QED BY <1>1, <1>3, <1>4, <2>1, <2>3, <2>5
          DEF AccountInv, IdentityFixed, NamesUnique, UserNamed
<1>5. CASE ~UserNamed(SuperAdmin)
  <2> DEFINE row == [name |-> SuperAdmin, type |-> "super_admin", tenant |-> None,
                     active |-> TRUE]
  <2>1. row \in UserRow /\ RowOK(row) /\ row.name = SuperAdmin /\ row.tenant = None
    BY ConstantsAssumption DEF UserRow, UserTypes, RowOK
  <2>2. PICK u \in UserIds :
          /\ NextUserId(u) /\ users' = [users EXCEPT ![u] = row]
          /\ birth' = [birth EXCEPT ![u] = <<SuperAdmin, None>>]
    BY <1>5 DEF Start
  <2>3. Insert(u, row)
    BY <1>5, <2>1, <2>2 DEF Insert
  <2> HIDE DEF row
  <2>4. /\ users' \in [UserIds -> {None} \cup UserRow]
        /\ birth' \in [UserIds -> {None} \cup Identity]
        /\ \A v \in UserIds : users'[v] # None => RowOK(users'[v])
        /\ IdentityFixed' /\ NamesUnique' /\ UserNamed(SuperAdmin)'
    BY <2>1, <2>3, InsertOK
  <2>5. TypeOK'
    BY <1>1, <2>4 DEF AccountInv, TypeOK
  <2> QED BY <1>3, <2>4, <2>5 DEF AccountInv
<1> QED BY <1>4, <1>5

\* A crash leaves no request behind.
LEMMA CrashStep ==
  ASSUME AccountInv, Crash
  PROVE  AccountInv'
<1>1. \A v \in Requests : /\ pc'[v] = "idle" /\ req'[v] = NoReq
                          /\ cur'[v] = None /\ tgt'[v] = None
  BY DEF Crash
<1>2. \A v \in Requests : RequestOK(v)' /\ SnapshotOK(v)'
  BY <1>1, IdleNext
<1>3. NoReq \in Request
  BY DEF NoReq, Request
<1>4. TypeOK'
  BY <1>3 DEF AccountInv, TypeOK, Crash
<1> QED BY <1>2, <1>4 DEF Crash, AccountInv, IdentityFixed, NamesUnique

-----------------------------------------------------------------------------
(* Theorems *)

\* The empty tables of a new installation satisfy the invariant.
LEMMA InitOK == Init => AccountInv
<1> SUFFICES ASSUME Init PROVE AccountInv
  OBVIOUS
<1>1. NoReq \in Request
  BY DEF NoReq, Request
<1>2. TypeOK
  <2>0. sent \in 0..MaxRequests
    BY ConstantsAssumption, SMT DEF Init
  <2>1. tborn \in SUBSET TenantIds /\ up \in BOOLEAN
    BY Zenon DEF Init
  <2>2. /\ users \in [UserIds -> {None} \cup UserRow]
        /\ tenants \in [TenantIds -> {None} \cup TenantRow]
        /\ birth \in [UserIds -> {None} \cup Identity]
    BY DEF Init
  <2>3. pc \in [Requests -> PCs] /\ req \in [Requests -> Request]
    BY <1>1 DEF Init
  <2>4. /\ cur \in [Requests -> {None} \cup UserRow]
        /\ tgt \in [Requests -> {None} \cup UserRow]
        /\ ttgt \in [Requests -> {None} \cup TenantRow]
    BY DEF Init
  <2> QED BY <2>0, <2>1, <2>2, <2>3, <2>4 DEF TypeOK
<1>3. \A w \in Requests : RequestOK(w) /\ SnapshotOK(w)
  BY NoneIsNoOp DEF Init, RequestOK, SnapshotOK, NoReq
<1> QED BY <1>2, <1>3 DEF Init, AccountInv, IdentityFixed, NamesUnique

\* Every step of a request, of another one or of the process keeps it.
LEMMA NextOK == AccountInv /\ [Next]_vars => AccountInv'
<1> SUFFICES ASSUME AccountInv, [Next]_vars PROVE AccountInv'
  OBVIOUS
<1>1. ASSUME NEW w \in Requests, Step(w) PROVE AccountInv'
  BY <1>1, RefuseStep, LookupStep, ReadTargetStep, ReadActorStep,
     ReadTenantStep, RegisterUserStep, CreateUserStep,
     SaveUserStep, DeleteUserStep, CreateTenantStep, SaveTenantStep,
     DeleteTenantStep DEF Step, CheckUsername, CheckTenantName, LookupFails
<1>2. CASE UNCHANGED vars
  <2>1. UNCHANGED <<users, tenants, birth, tborn, up, pc, req, cur, tgt, ttgt, sent>>
    BY <1>2 DEF vars
  <2>2. TypeOK'
    BY <2>1 DEF AccountInv, TypeOK
  <2>3. \A w \in Requests : RequestOK(w)' /\ SnapshotOK(w)'
    BY <2>1 DEF AccountInv, RequestOK, SnapshotOK
  <2> QED BY <2>1, <2>2, <2>3 DEF AccountInv, IdentityFixed, NamesUnique, UserNamed
<1> QED BY <1>1, <1>2, BeginStep, StartStep, CrashStep DEF Next, Environment

\* The inductive invariant: whatever requests overlap and whenever the service
\* is restarted, the tables and the snapshots that requests hold agree on who
\* an id is.
THEOREM AccountInvariant == Spec => []AccountInv
  BY InitOK, NextOK, PTL DEF Spec

\* The tables hold well-formed rows and every request has the fields it uses:
\* no update stores a field that the request did not carry.
THEOREM AccountsTyped == Spec => []TypeOK
<1>1. AccountInv => TypeOK
  BY DEF AccountInv
<1> QED BY <1>1, AccountInvariant, PTL

\* There is always exactly one super administrator while the service runs.
THEOREM OneSuperAdmin == Spec => []SuperAdminUnique
<1>1. AccountInv => SuperAdminUnique
  <2> SUFFICES ASSUME AccountInv, up PROVE SuperAdminUnique
    BY DEF SuperAdminUnique
  <2>1. PICK u \in UserIds : users[u] # None /\ users[u].name = SuperAdmin
    BY DEF AccountInv, UserNamed
  <2>2. users[u].type = "super_admin"
    BY <2>1 DEF AccountInv, RowOK
  <2>3. ASSUME NEW v \in UserIds, users[v] # None,
               users[v].type = "super_admin" \/ users[v].name = SuperAdmin
        PROVE  v = u
    BY <2>1, <2>3 DEF AccountInv, RowOK, NamesUnique
  <2> QED BY <2>1, <2>2, <2>3 DEF SuperAdminUnique
<1> QED BY <1>1, AccountInvariant, PTL

\* The id of a user never comes to mean another name or another tenant.
THEOREM IdentitiesFixed == Spec => []IdentityFixed
<1>1. AccountInv => IdentityFixed
  BY DEF AccountInv
<1> QED BY <1>1, AccountInvariant, PTL

\* List may dereference the TenantID of a tenant administrator.
THEOREM AdminsHaveTenants == Spec => []AdminHasTenant
<1>1. AccountInv => AdminHasTenant
  BY DEF AccountInv, AdminHasTenant, RowOK
<1> QED BY <1>1, AccountInvariant, PTL

\* One step of TenantIsolation.
IsolatedStep ==
    \A w \in Requests, u \in UserIds :
       (/\ pc[w] = "write" /\ pc'[w] = "idle" /\ up'
        /\ cur[w] # None /\ cur[w].type = "tenant_admin"
        /\ users'[u] # users[u])
       => \A row \in {users[u], users'[u]} \ {None} :
             row.tenant = cur[w].tenant /\ row.tenant # None

\* A tenant administrator's write stays inside the tenant although the caller's
\* and the target's rows were read earlier and may have changed since.
THEOREM TenantsIsolated == Spec => TenantIsolation
<1>1. AccountInv /\ [Next]_vars => [IsolatedStep]_vars
  <2> SUFFICES ASSUME AccountInv, Next,
                      NEW w \in Requests, NEW u \in UserIds,
                      pc[w] = "write", pc'[w] = "idle", up',
                      cur[w] # None, cur[w].type = "tenant_admin",
                      users'[u] # users[u],
                      NEW row \in {users[u], users'[u]} \ {None}
               PROVE  row.tenant = cur[w].tenant /\ row.tenant # None
    BY DEF IsolatedStep
  <2>1. /\ RequestOK(w) /\ SnapshotOK(w) /\ RowOK(cur[w]) /\ cur[w].tenant # None
        /\ req[w].op \in {"create", "update", "delete"}
    BY DEF AccountInv, RequestOK, SnapshotOK, RowOK
  <2>2. up
    BY <2>1 DEF RequestOK
  <2>3. ASSUME NEW v \in Requests, Begin(v) PROVE FALSE
    BY <2>3 DEF Begin, Arrive, BeginRegister, BeginCreate, BeginUpdate, BeginDelete,
                BeginCreateTenant, BeginUpdateTenant, BeginDeleteTenant
  <2>4. ~Environment
    BY <2>2 DEF Environment, Start, Crash
  <2>5. PICK v \in Requests : Step(v)
    BY <2>3, <2>4 DEF Next
  <2>6. pc \in [Requests -> PCs]
    BY DEF AccountInv, TypeOK
  <2>7. v = w
    BY <2>5, <2>6 DEF Step, Refuse, CheckUsername, LookupFails, ReadTarget, ReadActor, ReadTenant,
       CheckTenantName, RegisterUser, CreateUser, SaveUser, DeleteUser,
       CreateTenant, SaveTenant, DeleteTenant, Respond, Continue
  <2>8. CreateUser(w) \/ SaveUser(w) \/ DeleteUser(w)
    BY <2>1, <2>5, <2>7 DEF Step, Refuse, CheckUsername, LookupFails, ReadTarget, ReadActor,
       ReadTenant, CheckTenantName, RegisterUser, CreateTenant, SaveTenant,
       DeleteTenant, Writing
  <2>9. CASE CreateUser(w)
    <3> DEFINE r == [name |-> req[w].name,
                     type |-> IF req[w].type = "blank" THEN "user" ELSE req[w].type,
                     tenant |-> cur[w].tenant, active |-> TRUE]
    <3>0. r.tenant = cur[w].tenant
      OBVIOUS
    <3>1. PICK x \in UserIds : NextUserId(x) /\ users' = [users EXCEPT ![x] = r]
      BY <2>9 DEF CreateUser, Insert
    <3> HIDE DEF r
    <3>2. users \in [UserIds -> {None} \cup UserRow]
      BY DEF AccountInv, TypeOK
    <3>3. u = x /\ users'[u] = r
      BY <3>1, <3>2
    <3>4. users[u] = None
      BY <3>1, <3>3, RowHasIdentity DEF NextUserId
    <3> QED BY <2>1, <3>0, <3>3, <3>4
  <2>10. CASE SaveUser(w) \/ DeleteUser(w)
    <3>1. /\ req[w].op \in {"update", "delete"}
          /\ \A x \in UserIds \ {req[w].id} : users'[x] = users[x]
          /\ \/ users'[req[w].id] = None
             \/ /\ Writing(w, "update")
                /\ users'[req[w].id] =
                      Saved(UpdatedUser(w), users[req[w].id] # None)
      <4>1. users \in [UserIds -> {None} \cup UserRow]
        BY DEF AccountInv, TypeOK
      <4>2. req[w].op \in {"update", "delete"} /\ req[w].id \in UserIds
        BY <2>1, <2>10 DEF SaveUser, DeleteUser, Writing, RequestOK
      <4> QED BY <2>10, <4>1, <4>2 DEF SaveUser, DeleteUser
    <3>2. u = req[w].id
      BY <3>1
    <3>3. users[u] # None => users[u].tenant = tgt[w].tenant
      BY <3>1, <3>2, TargetKnown
    <3>4. users'[u] # None => users'[u].tenant = tgt[w].tenant
      BY <3>1, <3>2, SavedOK
    <3>5. SameTenant(tgt[w], cur[w])
      BY <2>1, <3>1 DEF RequestOK, Permitted, MayUpdate, MayDelete
    <3> QED BY <3>3, <3>4, <3>5 DEF SameTenant
  <2> QED BY <2>8, <2>9, <2>10
<1> QED BY <1>1, AccountInvariant, PTL DEF Spec, TenantIsolation, IsolatedStep
-----------------------------------------------------------------------------
(* Requests that do not overlap *)

\* One request is in progress at most.
OneRequest == \A v, w \in Requests : (pc[v] # "idle" /\ pc[w] # "idle") => v = w

\* What a request has read is still in the table.
SnapshotCurrent(w) ==
    /\ cur[w] # None => users[req[w].actor] = cur[w]
    /\ tgt[w] # None => users[req[w].id] = tgt[w]

SerialInv ==
    /\ AccountInv
    /\ UserTenantExists
    /\ OneRequest
    /\ \A w \in Requests : SnapshotCurrent(w)

\* Two requests in progress are one, so a step of w finds the others idle.
LEMMA OthersIdle ==
  ASSUME SerialInv, NEW w \in Requests, pc[w] # "idle", NEW v \in Requests \ {w}
  PROVE  pc[v] = "idle" /\ cur[v] = None /\ tgt[v] = None
  BY DEF SerialInv, OneRequest, AccountInv, RequestOK

\* A step of the only request keeps the invariant if it keeps its own part of it.
LEMMA OwnStep ==
  ASSUME SerialInv, AccountInv', NEW w \in Requests, pc[w] # "idle",
         \A v \in Requests \ {w} :
            pc'[v] = pc[v] /\ cur'[v] = cur[v] /\ tgt'[v] = tgt[v],
         SnapshotCurrent(w)', UserTenantExists'
  PROVE  SerialInv'
<1>1. \A v \in Requests \ {w} : pc'[v] = "idle" /\ cur'[v] = None /\ tgt'[v] = None
  BY OthersIdle
<1> QED BY <1>1 DEF SerialInv, OneRequest, SnapshotCurrent

\* A write ends its request: what is left to show is that tenants still exist.
LEMMA OwnWrite ==
  ASSUME SerialInv, AccountInv', NEW w \in Requests, pc[w] # "idle", Respond(w),
         UserTenantExists'
  PROVE  SerialInv'
<1>1. TypeOK
  BY DEF SerialInv, AccountInv
<1>2. SnapshotCurrent(w)'
  BY <1>1, RespondFrame DEF SnapshotCurrent
<1> QED BY <1>1, <1>2, RespondFrame, OwnStep

\* A read of the only request.
LEMMA OwnRead ==
  ASSUME SerialInv, AccountInv', NEW w \in Requests,
         \/ CheckUsername(w) \/ LookupFails(w) \/ ReadTarget(w) \/ ReadActor(w)
         \/ ReadTenant(w) \/ CheckTenantName(w)
  PROVE  SerialInv'
<1>1. TypeOK /\ SnapshotCurrent(w) /\ RequestOK(w)
  BY DEF SerialInv, AccountInv
<1>2. /\ pc[w] # "idle" /\ UNCHANGED <<users, tenants, req>>
      /\ \A v \in Requests \ {w} :
            pc'[v] = pc[v] /\ cur'[v] = cur[v] /\ tgt'[v] = tgt[v]
      /\ cur'[w] = cur[w] \/ cur'[w] = users[req[w].actor]
      /\ tgt'[w] = tgt[w] \/ tgt'[w] = users[req[w].id]
  BY <1>1 DEF TypeOK, CheckUsername, LookupFails, ReadTarget, ReadActor, ReadTenant,
              CheckTenantName, Continue
<1>3. SnapshotCurrent(w)'
  BY <1>1, <1>2 DEF SnapshotCurrent
<1>4. UserTenantExists'
  BY <1>2 DEF SerialInv, UserTenantExists
<1> QED BY <1>2, <1>3, <1>4, OwnStep

\* A new row belongs to a tenant that exists.
LEMMA InsertKeepsTenants ==
  ASSUME SerialInv, NEW u, NEW row \in UserRow, Insert(u, row),
         row.tenant # None => tenants'[row.tenant] # None,
         \A t \in TenantIds : tenants[t] # None => tenants'[t] # None
  PROVE  UserTenantExists'
<1>1. users \in [UserIds -> {None} \cup UserRow]
  BY DEF SerialInv, AccountInv, TypeOK
<1>2. ASSUME NEW v \in UserIds, users'[v] # None, users'[v].tenant # None
      PROVE  tenants'[users'[v].tenant] # None
  <2>1. CASE v = u
    BY <1>1, <1>2, <2>1 DEF Insert
  <2>2. CASE v # u
    <3>1. users'[v] = users[v] /\ users[v] \in UserRow
      BY <1>1, <1>2, <2>2 DEF Insert
    <3>2. users[v].tenant \in TenantIds
      BY <1>2, <3>1 DEF UserRow
    <3> QED BY <1>2, <3>1, <3>2 DEF SerialInv, UserTenantExists
  <2> QED BY <2>1, <2>2
<1> QED BY <1>2 DEF UserTenantExists

\* The creator of a user still exists at the write, and so does its tenant.
LEMMA CreateUserSerial ==
  ASSUME SerialInv, AccountInv', NEW w \in Requests, CreateUser(w)
  PROVE  SerialInv'
<1>1. /\ pc[w] # "idle" /\ Respond(w) /\ UNCHANGED tenants
      /\ req[w].name \in Names /\ cur[w] \in UserRow /\ req[w].actor \in UserIds
      /\ req[w].type \in {"user", "blank"}
  BY DEF SerialInv, AccountInv, RequestOK, CreateUser, Writing, Permitted, MayAssign
<1> DEFINE row == [name |-> req[w].name,
                   type |-> IF req[w].type = "blank" THEN "user" ELSE req[w].type,
                   tenant |-> cur[w].tenant, active |-> TRUE]
<1>2. PICK u \in UserIds : Insert(u, row)
  BY DEF CreateUser
<1>3. row \in UserRow /\ row.tenant = cur[w].tenant
  BY <1>1 DEF UserRow, UserTypes
<1>4. users[req[w].actor] = cur[w] /\ cur[w] # None
  BY <1>1, NoneIsNoRow DEF SerialInv, SnapshotCurrent
<1>5. cur[w].tenant # None => tenants[cur[w].tenant] # None
  BY <1>1, <1>4 DEF SerialInv, UserTenantExists
<1> HIDE DEF row
<1>6. UserTenantExists'
  BY <1>1, <1>2, <1>3, <1>5, InsertKeepsTenants
<1> QED BY <1>1, <1>6, OwnWrite

\* Register gives the new row no tenant.
LEMMA RegisterUserSerial ==
  ASSUME SerialInv, AccountInv', NEW w \in Requests, RegisterUser(w)
  PROVE  SerialInv'
<1>1. pc[w] # "idle" /\ Respond(w) /\ UNCHANGED tenants /\ req[w].name \in Names
  BY DEF SerialInv, AccountInv, RequestOK, RegisterUser, Writing
<1> DEFINE row == [name |-> req[w].name, type |-> "user", tenant |-> None,
                   active |-> TRUE]
<1>2. PICK u \in UserIds : Insert(u, row)
  BY DEF RegisterUser
<1>3. row \in UserRow /\ row.tenant = None
  BY <1>1 DEF UserRow, UserTypes
<1> HIDE DEF row
<1>4. UserTenantExists'
  BY <1>1, <1>2, <1>3, InsertKeepsTenants
<1> QED BY <1>1, <1>4, OwnWrite

\* A tenant and its administrator appear together.
LEMMA CreateTenantSerial ==
  ASSUME SerialInv, AccountInv', NEW w \in Requests, CreateTenant(w)
  PROVE  SerialInv'
<1>1. /\ pc[w] # "idle" /\ Respond(w) /\ req[w].name \in Names
      /\ req[w].tname \in TenantNames
  BY DEF SerialInv, AccountInv, RequestOK, CreateTenant, Writing
<1>2. PICK t \in TenantIds, u \in UserIds :
        /\ tenants' = [tenants EXCEPT ![t] = [name |-> req[w].tname, active |-> TRUE]]
        /\ Insert(u, [name |-> req[w].name, type |-> "tenant_admin",
                      tenant |-> t, active |-> TRUE])
  BY DEF CreateTenant
<1> DEFINE row == [name |-> req[w].name, type |-> "tenant_admin", tenant |-> t,
                   active |-> TRUE]
           trow == [name |-> req[w].tname, active |-> TRUE]
<1>3. row \in UserRow /\ row.tenant = t
  BY <1>1 DEF UserRow, UserTypes
<1>4. trow # None
  <2>1. trow \in TenantRow
    BY <1>1 DEF TenantRow
  <2> QED BY <2>1, NoneIsNoRow
<1>5. Insert(u, row) /\ tenants' = [tenants EXCEPT ![t] = trow]
  BY <1>2
<1> HIDE DEF row, trow
<1>6. tenants'[t] # None /\ \A s \in TenantIds : tenants[s] # None => tenants'[s] # None
  BY <1>4, <1>5 DEF SerialInv, AccountInv, TypeOK
<1>7. UserTenantExists'
  BY <1>3, <1>5, <1>6, InsertKeepsTenants
<1> QED BY <1>1, <1>7, OwnWrite

\* Update saves the row it read, and that row is still there.
LEMMA SavedSerial ==
  ASSUME SerialInv, NEW w \in Requests, SaveUser(w)
  PROVE  LET u == req[w].id IN
         /\ u \in UserIds /\ users[u] = tgt[w] /\ tgt[w] \in UserRow
         /\ users'[u] = UpdatedUser(w) /\ UpdatedUser(w).tenant = tgt[w].tenant
         /\ \A v \in UserIds \ {u} : users'[v] = users[v]
         /\ cur[w] \in UserRow /\ MayUpdate(cur[w], tgt[w], req[w])
<1> DEFINE u == req[w].id
<1>1. pc[w] = "write" /\ req[w].op = "update" /\ Writing(w, "update") /\ AccountInv
  BY DEF SerialInv, SaveUser, Writing
<1>2. u \in UserIds /\ tgt[w] \in UserRow /\ cur[w] \in UserRow
  BY <1>1, TargetKnown
<1>3. users[u] = tgt[w] /\ users[u] # None
  BY <1>2, NoneIsNoRow DEF SerialInv, SnapshotCurrent
<1>4. Saved(UpdatedUser(w), users[u] # None) = UpdatedUser(w)
  BY <1>3 DEF Saved
<1>5. users' = [users EXCEPT ![u] = UpdatedUser(w)]
  BY <1>4 DEF SaveUser
<1>6. users'[u] = UpdatedUser(w) /\ \A v \in UserIds \ {u} : users'[v] = users[v]
  BY <1>1, <1>2, <1>5 DEF AccountInv, TypeOK
<1>7. UpdatedUser(w).tenant = tgt[w].tenant
  BY <1>2 DEF UpdatedUser, UserRow
<1>8. MayUpdate(cur[w], tgt[w], req[w])
  BY <1>1 DEF AccountInv, RequestOK, Permitted
<1> QED BY <1>2, <1>3, <1>6, <1>7, <1>8

\* The write of an update moves no row to another tenant.
LEMMA SaveUserSerial ==
  ASSUME SerialInv, AccountInv', NEW w \in Requests, SaveUser(w)
  PROVE  SerialInv'
<1>1. pc[w] # "idle" /\ Respond(w) /\ UNCHANGED tenants
  BY DEF SaveUser, Writing
<1>2. ASSUME NEW v \in UserIds, users'[v] # None
      PROVE  users[v] # None /\ users'[v].tenant = users[v].tenant
  <2>1. CASE v = req[w].id
    BY <2>1, SavedSerial, NoneIsNoRow
  <2>2. CASE v # req[w].id
    BY <1>2, <2>2, SavedSerial
  <2> QED BY <2>1, <2>2
<1>3. UserTenantExists'
  BY <1>1, <1>2 DEF SerialInv, UserTenantExists
<1> QED BY <1>1, <1>3, OwnWrite

\* A deletion, of a user or of a tenant with its users, leaves no user behind
\* whose tenant is gone.
LEMMA DeleteSerial ==
  ASSUME SerialInv, AccountInv', NEW w \in Requests, DeleteUser(w) \/ DeleteTenant(w)
  PROVE  SerialInv'
<1>1. pc[w] # "idle" /\ Respond(w)
  BY DEF DeleteUser, DeleteTenant, Writing
<1>2. TypeOK /\ RequestOK(w)
  BY DEF SerialInv, AccountInv
<1>3. CASE DeleteUser(w)
  <2>1. UNCHANGED tenants /\ \A v \in UserIds : users'[v] # None => users'[v] = users[v]
    BY <1>2, <1>3 DEF DeleteUser, TypeOK
  <2>2. UserTenantExists'
    BY <2>1 DEF SerialInv, UserTenantExists
  <2> QED BY <1>1, <2>2, OwnWrite
<1>4. CASE DeleteTenant(w)
  <2>1. ASSUME NEW v \in UserIds, users'[v] # None
        PROVE  users'[v] = users[v] /\ users[v].tenant # req[w].id
    BY <1>4, <2>1 DEF DeleteTenant
  <2>2. \A t \in TenantIds \ {req[w].id} : tenants'[t] = tenants[t]
    BY <1>2, <1>4 DEF DeleteTenant, TypeOK
  <2>3. ASSUME NEW v \in UserIds, users'[v] # None, users'[v].tenant # None
        PROVE  tenants'[users'[v].tenant] # None
    <3>1. users[v] \in UserRow /\ users'[v] = users[v]
      BY <1>2, <2>1, <2>3 DEF TypeOK
    <3>2. users[v].tenant \in TenantIds \ {req[w].id}
      BY <2>1, <2>3, <3>1 DEF UserRow
    <3> QED BY <2>2, <2>3, <3>1, <3>2 DEF SerialInv, UserTenantExists
  <2>4. UserTenantExists'
    BY <2>3 DEF UserTenantExists
  <2> QED BY <1>1, <2>4, OwnWrite
<1> QED BY <1>3, <1>4

\* TenantService.Update never removes a tenant.
LEMMA SaveTenantSerial ==
  ASSUME SerialInv, AccountInv', NEW w \in Requests, SaveTenant(w)
  PROVE  SerialInv'
<1>1. pc[w] # "idle" /\ Respond(w) /\ UNCHANGED users
  BY DEF SaveTenant, Writing
<1>2. TypeOK /\ ttgt[w] \in TenantRow /\ req[w] \in Request
  BY DEF SerialInv, AccountInv, TypeOK, RequestOK, SaveTenant, Writing
<1>3. UpdatedTenant(w) \in TenantRow
  BY <1>2 DEF UpdatedTenant, TenantRow, Request
<1>4. [UpdatedTenant(w) EXCEPT !.active = TRUE] \in TenantRow
  BY <1>3 DEF TenantRow
<1>5. \A t \in TenantIds : tenants[t] # None => tenants'[t] # None
  BY <1>2, <1>3, <1>4, NoneIsNoRow DEF SaveTenant, TypeOK
<1>6. ASSUME NEW v \in UserIds, users[v] # None PROVE users[v].tenant \in TenantIds \cup {None}
  BY <1>2, <1>6 DEF TypeOK, UserRow
<1>7. UserTenantExists'
  BY <1>1, <1>5, <1>6 DEF SerialInv, UserTenantExists
<1> QED BY <1>1, <1>7, OwnWrite

\* A refused request leaves the tables alone.
LEMMA RefuseSerial ==
  ASSUME SerialInv, AccountInv', NEW w \in Requests, Refuse(w)
  PROVE  SerialInv'
<1>1. pc[w] # "idle" /\ Respond(w) /\ UNCHANGED <<users, tenants>>
  BY DEF Refuse
<1>2. UserTenantExists'
  BY <1>1 DEF SerialInv, UserTenantExists
<1> QED BY <1>1, <1>2, OwnWrite

\* A request that arrives while the others are idle has read nothing yet.
LEMMA BeginSerial ==
  ASSUME SerialInv, AccountInv', NEW w \in Requests, Begin(w),
         \A v \in Requests : pc[v] = "idle"
  PROVE  SerialInv'
<1>1. /\ UNCHANGED <<users, tenants, cur, tgt>>
      /\ \E p : pc' = [pc EXCEPT ![w] = p]
  BY DEF Begin, Arrive, BeginRegister, BeginCreate, BeginUpdate, BeginDelete,
         BeginCreateTenant, BeginUpdateTenant, BeginDeleteTenant
<1>2. \A v \in Requests : cur[v] = None /\ tgt[v] = None
  BY DEF SerialInv, AccountInv, RequestOK
<1>3. OneRequest'
  BY <1>1 DEF SerialInv, AccountInv, TypeOK, OneRequest
<1>4. (\A v \in Requests : SnapshotCurrent(v))'
  BY <1>1, <1>2 DEF SnapshotCurrent
<1> QED BY <1>1, <1>3, <1>4 DEF SerialInv, UserTenantExists

\* A start finds no request, and gives SuperAdmin no tenant.
LEMMA EnvironmentSerial ==
  ASSUME SerialInv, AccountInv', Environment
  PROVE  SerialInv'
<1>1. UNCHANGED tenants /\ \A v \in Requests : pc'[v] = "idle"
  BY DEF SerialInv, AccountInv, RequestOK, Environment, Start, Crash
<1>2. \A v \in Requests : cur'[v] = None /\ tgt'[v] = None
  BY <1>1 DEF AccountInv, RequestOK
<1>3. ASSUME NEW v \in UserIds, users'[v] # None, users'[v].tenant # None
      PROVE  users[v] # None /\ users'[v].tenant = users[v].tenant
  <2>1. \/ users'[v] = users[v]
        \/ users'[v].name = SuperAdmin
    <3>1. CASE Crash
      BY <3>1 DEF Crash
    <3>2. CASE Start /\ UserNamed(SuperAdmin)
      BY <3>2 DEF Start, SerialInv, AccountInv, RowOK
    <3>3. CASE Start /\ ~UserNamed(SuperAdmin)
      <4>1. users \in [UserIds -> {None} \cup UserRow]
        BY DEF SerialInv, AccountInv, TypeOK
      <4> QED BY <3>3, <4>1 DEF Start
    <3> QED BY <3>1, <3>2, <3>3 DEF Environment
  <2> QED BY <1>3, <2>1 DEF AccountInv, RowOK
<1>4. UserTenantExists'
  BY <1>1, <1>3 DEF SerialInv, UserTenantExists
<1> QED BY <1>1, <1>2, <1>4 DEF SerialInv, OneRequest, SnapshotCurrent

LEMMA SerialInitOK == Init => SerialInv
<1>1. Init => UserTenantExists /\ OneRequest /\ \A w \in Requests : SnapshotCurrent(w)
  BY DEF Init, UserTenantExists, OneRequest, SnapshotCurrent
<1> QED BY <1>1, InitOK DEF SerialInv

\* Every serial step keeps the invariant.
LEMMA SerialNextOK == SerialInv /\ [SerialNext]_vars => SerialInv'
<1> SUFFICES ASSUME SerialInv, [SerialNext]_vars PROVE SerialInv'
  OBVIOUS
<1>1. AccountInv'
  BY NextOK DEF SerialInv, SerialNext, Next
<1>2. ASSUME NEW w \in Requests, Step(w) PROVE SerialInv'
  BY <1>1, <1>2, RefuseSerial, OwnRead, RegisterUserSerial, CreateUserSerial,
     SaveUserSerial, DeleteSerial, CreateTenantSerial, SaveTenantSerial DEF Step
<1>3. CASE UNCHANGED vars
  BY <1>1, <1>3 DEF SerialInv, vars, UserTenantExists, OneRequest, SnapshotCurrent
<1> QED BY <1>1, <1>2, <1>3, BeginSerial, EnvironmentSerial DEF SerialNext

\* The inductive invariant of schedules without overlap: no snapshot is stale.
THEOREM SerialInvariant == SerialSpec => []SerialInv
  BY SerialInitOK, SerialNextOK, PTL DEF SerialSpec

\* Without overlap a user's tenant always exists: TenantService.Delete removes
\* every user of the tenant, and no write brings one back.
THEOREM TenantsOfUsersExist == SerialSpec => []UserTenantExists
<1>1. SerialInv => UserTenantExists
  BY DEF SerialInv
<1> QED BY <1>1, SerialInvariant, PTL

\* The only request that can end by a step is the one that took it.
LEMMA SerialWriter ==
  ASSUME SerialInv, SerialNext, NEW w \in Requests,
         pc[w] = "write", pc'[w] = "idle", up'
  PROVE  Step(w)
<1>1. up /\ pc \in [Requests -> PCs]
  BY DEF SerialInv, AccountInv, RequestOK, TypeOK
<1>2. ~Environment
  BY <1>1 DEF Environment, Start, Crash
<1>3. PICK v \in Requests : Step(v)
  BY <1>2 DEF SerialNext
<1>4. pc[v] # "idle"
  BY <1>3 DEF Step, Refuse, CheckUsername, LookupFails, ReadTarget, ReadActor, ReadTenant,
     CheckTenantName, RegisterUser, CreateUser, SaveUser, DeleteUser,
     CreateTenant, SaveTenant, DeleteTenant, Writing
<1> QED BY <1>3, <1>4 DEF SerialInv, OneRequest

\* The step of a request that is not an update changes no row but by inserting
\* or deleting it.
LEMMA OnlyUpdateChanges ==
  ASSUME SerialInv, NEW w \in Requests, Step(w), ~SaveUser(w), NEW u \in UserIds,
         users[u] # None, users'[u] # None
  PROVE  users'[u] = users[u]
<1>1. users \in [UserIds -> {None} \cup UserRow]
  BY DEF SerialInv, AccountInv, TypeOK
<1>2. birth[u] # None
  BY RowHasIdentity DEF SerialInv
<1>3. \A v, row : Insert(v, row) => users'[u] = users[u]
  BY <1>1, <1>2 DEF Insert, NextUserId
<1>4. CASE RegisterUser(w) \/ CreateUser(w) \/ CreateTenant(w)
  BY <1>3, <1>4 DEF RegisterUser, CreateUser, CreateTenant
<1>5. CASE DeleteUser(w) \/ DeleteTenant(w)
  BY <1>1, <1>5 DEF DeleteUser, DeleteTenant
<1> QED BY <1>4, <1>5 DEF Step, Refuse, CheckUsername, LookupFails, ReadTarget, ReadActor,
           ReadTenant, CheckTenantName, SaveTenant

\* One step of OrdinaryKeepsFlags.
FlagsKept ==
    \A w \in Requests, u \in UserIds :
       (/\ pc[w] = "write" /\ pc'[w] = "idle" /\ up'
        /\ cur[w] # None /\ cur[w].type \in {"user", "blank"}
        /\ users[u] # None /\ users'[u] # None)
       => /\ users'[u].active = users[u].active
          /\ users'[u].type = users[u].type

\* Without overlap an ordinary user's request changes neither the activation
\* state nor the type of any row.
THEOREM OrdinaryUsersKeepFlags == SerialSpec => OrdinaryKeepsFlags
<1>1. SerialInv /\ [SerialNext]_vars => [FlagsKept]_vars
  <2> SUFFICES ASSUME SerialInv, SerialNext, NEW w \in Requests, NEW u \in UserIds,
                      pc[w] = "write", pc'[w] = "idle", up',
                      cur[w] # None, cur[w].type \in {"user", "blank"},
                      users[u] # None, users'[u] # None
               PROVE  /\ users'[u].active = users[u].active
                      /\ users'[u].type = users[u].type
    BY DEF FlagsKept
  <2>1. Step(w)
    BY SerialWriter
  <2>2. CASE SaveUser(w) /\ u = req[w].id
    <3>1. /\ users[u] = tgt[w] /\ users'[u] = UpdatedUser(w) /\ tgt[w] \in UserRow
          /\ req[w].active = None /\ req[w].type = None
      BY <2>2, SavedSerial DEF MayUpdate
    <3> QED BY <3>1 DEF UpdatedUser, UserRow
  <2>3. CASE SaveUser(w) /\ u # req[w].id
    BY <2>3, SavedSerial
  <2>4. CASE ~SaveUser(w)
    BY <2>1, <2>4, OnlyUpdateChanges
  <2> QED BY <2>2, <2>3, <2>4
<1> QED BY <1>1, SerialInvariant, PTL DEF SerialSpec, OrdinaryKeepsFlags, FlagsKept

\* One step of AdminsByTenantCreation.
AdminsCreated ==
    \A u \in UserIds :
       (users'[u] # None /\ users'[u].type = "tenant_admin"
        /\ (users[u] = None \/ users[u].type # "tenant_admin"))
       => tborn' # tborn

\* Without overlap a row becomes a tenant administrator's only together with a
\* new tenant: no update promotes anybody.
THEOREM AdminsOnlyByTenantCreation == SerialSpec => AdminsByTenantCreation
<1>1. SerialInv /\ [SerialNext]_vars => [AdminsCreated]_vars
  <2> SUFFICES ASSUME SerialInv, SerialNext, NEW u \in UserIds,
                      users'[u] # None, users'[u].type = "tenant_admin",
                      users[u] = None \/ users[u].type # "tenant_admin"
               PROVE  tborn' # tborn
    BY DEF AdminsCreated
  <2>1. users \in [UserIds -> {None} \cup UserRow] /\ users'[u] # users[u]
    BY DEF SerialInv, AccountInv, TypeOK
  <2>2. ASSUME NEW v, NEW row \in UserRow, Insert(v, row), row.type # "tenant_admin"
        PROVE  FALSE
    BY <2>1, <2>2 DEF Insert
  <2>3. ~Environment
    <3>1. ~Crash
      BY <2>1 DEF Crash
    <3>2. ~(Start /\ UserNamed(SuperAdmin))
      BY <2>1 DEF Start, SerialInv, AccountInv, RowOK
    <3>3. ASSUME Start, ~UserNamed(SuperAdmin) PROVE FALSE
      <4>1. PICK v \in UserIds :
              users' = [users EXCEPT ![v] = [name |-> SuperAdmin, type |-> "super_admin",
                                             tenant |-> None, active |-> TRUE]]
        BY <3>3 DEF Start
      <4>2. u = v /\ users'[u].type = "super_admin"
        BY <2>1, <4>1
      <4> QED BY <4>2
    <3> QED BY <3>1, <3>2, <3>3 DEF Environment
  <2>4. \A v \in Requests : ~Begin(v)
    BY <2>1 DEF Begin, Arrive, BeginRegister, BeginCreate, BeginUpdate, BeginDelete,
                BeginCreateTenant, BeginUpdateTenant, BeginDeleteTenant
  <2>5. PICK w \in Requests : Step(w)
    BY <2>3, <2>4 DEF SerialNext
  <2>6. ~SaveUser(w)
    <3> SUFFICES ASSUME SaveUser(w) PROVE FALSE
      OBVIOUS
    <3>1. /\ u = req[w].id /\ users[u] = tgt[w] /\ users'[u] = UpdatedUser(w)
          /\ tgt[w] \in UserRow /\ MayUpdate(cur[w], tgt[w], req[w])
      BY <2>1, SavedSerial
    <3>2. tgt[w].type # "tenant_admin"
      BY <3>1, NoneIsNoRow
    <3> QED BY <3>1, <3>2 DEF UpdatedUser, UserRow, MayUpdate, MayAssign
  <2>7. ~RegisterUser(w) /\ ~CreateUser(w)
    <3>1. ASSUME RegisterUser(w) PROVE FALSE
      <4>1. req[w].name \in Names
        BY <3>1 DEF SerialInv, AccountInv, RequestOK, RegisterUser, Writing
      <4> QED BY <2>2, <3>1, <4>1 DEF RegisterUser, UserRow, UserTypes
    <3>2. ASSUME CreateUser(w) PROVE FALSE
      <4>1. /\ req[w].name \in Names /\ cur[w] \in UserRow
            /\ req[w].type \in {"user", "blank"}
        BY <3>2 DEF SerialInv, AccountInv, RequestOK, CreateUser, Writing, Permitted,
                    MayAssign
      <4> DEFINE row == [name |-> req[w].name,
                         type |-> IF req[w].type = "blank" THEN "user" ELSE req[w].type,
                         tenant |-> cur[w].tenant, active |-> TRUE]
      <4>2. row \in UserRow /\ row.type # "tenant_admin"
        BY <4>1 DEF UserRow, UserTypes
      <4>3. \E v \in UserIds : Insert(v, row)
        BY <3>2 DEF CreateUser
      <4> HIDE DEF row
      <4> QED BY <2>2, <4>2, <4>3
    <3> QED BY <3>1, <3>2
  <2>8. ~DeleteUser(w) /\ ~DeleteTenant(w)
    BY <2>1 DEF DeleteUser, DeleteTenant
  <2>9. CreateTenant(w)
    BY <2>1, <2>5, <2>6, <2>7, <2>8
       DEF Step, Refuse, CheckUsername, LookupFails, ReadTarget, ReadActor,
           ReadTenant, CheckTenantName, SaveTenant
  <2> QED BY <2>9 DEF CreateTenant, NextTenantId
<1> QED BY <1>1, SerialInvariant, PTL DEF SerialSpec, AdminsByTenantCreation, AdminsCreated
=============================================================================
