-------------------------- MODULE ResourceVaultProofs --------------------------
(***************************************************************************)
(* Proofs about ResourceVault, for any number of overlapping requests,     *)
(* resources, keys and restarts.                                           *)
(*                                                                         *)
(* Update and Delete write what the request read and checked earlier, the  *)
(* row perhaps deleted or saved by another request meanwhile. VaultInv     *)
(* says what still holds of the snapshot at the write: its tenant is the   *)
(* tenant of the resource, the caller may manage that tenant, and its      *)
(* secret is encrypted unless it was plain from the start.                 *)
(*                                                                         *)
(* The last parts are about requests that do not overlap, under a key that *)
(* stays the same: then the secret is the one stored last, and the table   *)
(* of cipher texts implements SecretStore.                                 *)
(***************************************************************************)
EXTENDS ResourceVault, TLAPS

\* A field that may be stored under id i.
FieldOK(i, f) ==
    f.key # None \/ f.text \in {None, Empty} \/ f = legacy[i]

\* The form of a request, and what its caller was found to be.
RequestOK(w) ==
    /\ pc[w] # "idle" => req[w].op \in {"create", "update", "delete"}
    /\ req[w].op = "create" => req[w].info # None
    /\ req[w].op \in {"update", "delete"} => req[w].id \in Ids
    /\ pc[w] = "resource" => req[w].op # "create"
    /\ pc[w] \in {"resource", "write"} => actor[w] \in Actors
    /\ pc[w] = "write" => MayManage(actor[w])

\* What the snapshot of a request still says of the resource.
SnapshotOK(w) ==
    pc[w] = "write" /\ req[w].op # "create" =>
        /\ snap[w] \in Row
        /\ MayAccess(actor[w], snap[w])
        /\ req[w].id \in used
        /\ snap[w].tenant = owner[req[w].id]
        /\ FieldOK(req[w].id, snap[w].info)

VaultInv ==
    /\ TypeOK
    /\ \A i \in Ids : rows[i] # None => i \in used
    /\ OwnerFixed
    /\ SealedAtRest
    /\ \A w \in Requests : RequestOK(w) /\ SnapshotOK(w)

-----------------------------------------------------------------------------
USE DEF dbVars, envVars, reqVars, PCs

\* What encryptSensitiveFields returns is a field without a plain secret.
LEMMA SealedIsSealed ==
  ASSUME key \in Keys, NEW t \in Texts \cup {"nofield"}
  PROVE  /\ Sealed(t) \in Field
         /\ Sealed(t).key # None \/ Sealed(t).text \in {None, Empty}
<1>1. KeyLen(key) = 32
  BY ConstantsAssumption DEF KeyLen
<1>2. CASE t = "nofield"
  BY <1>2, NoneIsNoOp DEF Sealed, Plain, Field, Texts
<1>3. CASE t = Empty
  BY <1>3, NoneIsNoOp DEF Sealed, Plain, Field, Texts
<1>4. CASE t \notin {"nofield", Empty}
  BY <1>1, <1>4, ConstantsAssumption DEF Sealed, Encrypt, Field
<1> QED BY <1>2, <1>3, <1>4

\* The script changes nothing: its key is too short for every Encrypt.
LEMMA MigrationIdle ==
  ASSUME TypeOK, Migrate
  PROVE  rows' = rows
<1>1. ASSUME NEW f, NEW short PROVE MigratedField(f, short) = f
  BY DEF MigratedField, Encrypt, KeyLen
<1>2. PICK short \in SUBSET {i \in Ids : rows[i] # None /\ rows[i].info.key # None} :
        rows' = [i \in Ids |->
                   IF rows[i] = None THEN None
                   ELSE [rows[i] EXCEPT !.info =
                           MigratedField(@, rows[i].info.key = None \/ i \in short)]]
  BY DEF Migrate
<1>3. ASSUME NEW i \in Ids PROVE rows'[i] = rows[i]
  <2>1. CASE rows[i] = None
    BY <1>2, <2>1
  <2>2. CASE rows[i] # None
    <3>1. rows[i] \in Row
      BY <2>2 DEF TypeOK
    <3>2. rows'[i] = [rows[i] EXCEPT !.info = rows[i].info]
      BY <1>1, <1>2, <2>2
    <3> QED BY <3>1, <3>2 DEF Row
  <2> QED BY <2>1, <2>2
<1>4. rows' = [i \in Ids |-> rows'[i]] /\ rows = [i \in Ids |-> rows[i]]
  BY <1>2 DEF TypeOK
<1> QED BY <1>3, <1>4

\* A step of request w that writes no table.
LEMMA LocalStep ==
  ASSUME VaultInv, NEW w \in Requests, UNCHANGED <<dbVars, envVars>>,
         \A v \in Requests \ {w} :
            /\ pc'[v] = pc[v] /\ req'[v] = req[v]
            /\ actor'[v] = actor[v] /\ snap'[v] = snap[v],
         pc' \in [Requests -> PCs], req' \in [Requests -> Request],
         actor' \in [Requests -> Actors \cup {None}],
         snap' \in [Requests -> Row \cup {None}],
         sent' \in 0..MaxRequests,
         RequestOK(w)', SnapshotOK(w)'
  PROVE  VaultInv'
<1>1. ASSUME NEW v \in Requests \ {w} PROVE RequestOK(v)' /\ SnapshotOK(v)'
  BY DEF VaultInv, RequestOK, SnapshotOK, FieldOK
<1>2. TypeOK'
  BY DEF VaultInv, TypeOK
<1> QED BY <1>1, <1>2 DEF VaultInv, OwnerFixed, SealedAtRest

\* The end of a request changes nothing of the others.
LEMMA RespondFrame ==
  ASSUME TypeOK, NEW w \in Requests, Respond(w)
  PROVE  /\ pc'[w] = "idle" /\ req'[w] = NoReq
         /\ actor'[w] = None /\ snap'[w] = None
         /\ \A v \in Requests \ {w} :
               /\ pc'[v] = pc[v] /\ req'[v] = req[v]
               /\ actor'[v] = actor[v] /\ snap'[v] = snap[v]
         /\ pc' \in [Requests -> PCs]
         /\ req' \in [Requests -> Request]
         /\ actor' \in [Requests -> Actors \cup {None}]
         /\ snap' \in [Requests -> Row \cup {None}]
         /\ sent' \in 0..MaxRequests
<1>1. NoReq \in Request
  BY DEF NoReq, Request
<1> QED BY <1>1 DEF TypeOK, Respond

\* An idle goroutine has read nothing.
LEMMA IdleNext ==
  ASSUME NEW w, pc'[w] = "idle", req'[w] = NoReq
  PROVE  RequestOK(w)' /\ SnapshotOK(w)'
  BY NoneIsNoOp DEF RequestOK, SnapshotOK, NoReq

\* A step of request w that writes the row of one resource and ends the request.
LEMMA WriteStep ==
  ASSUME VaultInv, NEW w \in Requests, Respond(w), UNCHANGED envVars,
         NEW i \in Ids, NEW row \in Row \cup {None},
         rows' = [rows EXCEPT ![i] = row],
         used' \in SUBSET Ids, used \subseteq used',
         owner' \in [Ids -> TenantIds \cup {None}],
         \A j \in Ids : j \in used => owner'[j] = owner[j],
         last' \in [Ids -> Texts \cup {None}],
         row # None => /\ i \in used'
                       /\ row.tenant = owner'[i]
                       /\ FieldOK(i, row.info)
  PROVE  VaultInv'
<1>1. TypeOK'
  BY RespondFrame DEF VaultInv, TypeOK
<1>2. ASSUME NEW v \in Requests PROVE RequestOK(v)' /\ SnapshotOK(v)'
  <2>1. CASE v = w
    BY <2>1, RespondFrame, IdleNext DEF VaultInv
  <2>2. CASE v # w
    <3>1. /\ pc'[v] = pc[v] /\ req'[v] = req[v]
          /\ actor'[v] = actor[v] /\ snap'[v] = snap[v]
      BY <2>2, RespondFrame DEF VaultInv
    <3> QED BY <3>1 DEF VaultInv, RequestOK, SnapshotOK, FieldOK, TypeOK
  <2> QED BY <2>1, <2>2
<1>3. ASSUME NEW j \in Ids, rows'[j] # None
      PROVE  j \in used' /\ rows'[j].tenant = owner'[j] /\ FieldOK(j, rows'[j].info)
  <2>1. CASE j = i
    BY <1>3, <2>1 DEF VaultInv, TypeOK
  <2>2. CASE j # i
    BY <1>3, <2>2 DEF VaultInv, TypeOK, OwnerFixed, SealedAtRest, FieldOK
  <2> QED BY <2>1, <2>2
<1>4. OwnerFixed' /\ SealedAtRest'
  BY <1>3 DEF OwnerFixed, SealedAtRest, FieldOK
<1> QED BY <1>1, <1>2, <1>3, <1>4 DEF VaultInv

-----------------------------------------------------------------------------
(* The actions *)

LEMMA InitVault == Init => VaultInv
<1> SUFFICES ASSUME Init PROVE VaultInv
  OBVIOUS
<1>1. ASSUME NEW i \in Ids, rows[i] # None
      PROVE  /\ rows[i] \in Row /\ rows[i].info \in Field
             /\ rows[i].tenant \in TenantIds \cup {None}
             /\ rows[i].info.text \in Texts
  <2>1. rows[i] \in LegacyRow
    BY <1>1 DEF Init
  <2>2. PICK t \in Secrets : rows[i].info = Plain(t)
    BY <2>1 DEF LegacyRow
  <2>3. Plain(t) \in Field /\ Plain(t).text \in Texts
    BY DEF Plain, Field, Texts
  <2> QED BY <2>1, <2>2, <2>3 DEF LegacyRow, Row
<1>2. NoReq \in Request
  BY DEF NoReq, Request
<1>3. sent \in 0..MaxRequests
  BY ConstantsAssumption DEF Init
<1>4. rows \in [Ids -> Row \cup {None}]
  BY <1>1 DEF Init
<1>5. /\ owner \in [Ids -> TenantIds \cup {None}]
      /\ legacy \in [Ids -> Field \cup {None}]
      /\ last \in [Ids -> Texts \cup {None}]
  BY <1>1 DEF Init
<1>6. TypeOK
  BY <1>2, <1>3, <1>4, <1>5 DEF Init, TypeOK
<1>7. ASSUME NEW w \in Requests PROVE RequestOK(w) /\ SnapshotOK(w)
  BY NoneIsNoOp DEF Init, RequestOK, SnapshotOK, NoReq
<1> QED BY <1>6, <1>7 DEF Init, VaultInv, OwnerFixed, SealedAtRest

LEMMA ArriveVault ==
  ASSUME VaultInv, NEW w \in Requests, NEW r \in Request, Arrive(w, r),
         r.op \in {"create", "update", "delete"},
         r.op = "create" => r.info # None,
         r.op # "create" => r.id \in Ids
  PROVE  VaultInv'
<1>1. sent' \in 0..MaxRequests
  BY ConstantsAssumption DEF VaultInv, TypeOK, Arrive
<1>2. /\ pc' \in [Requests -> PCs] /\ req' \in [Requests -> Request]
      /\ actor' = actor /\ snap' = snap
      /\ pc'[w] = "actor" /\ req'[w] = r
      /\ \A v \in Requests \ {w} : pc'[v] = pc[v] /\ req'[v] = req[v]
  BY DEF VaultInv, TypeOK, Arrive
<1>3. RequestOK(w)' /\ SnapshotOK(w)'
  BY <1>2 DEF RequestOK, SnapshotOK
<1>4. UNCHANGED <<dbVars, envVars>>
  BY DEF Arrive
<1> QED BY <1>1, <1>2, <1>3, <1>4, LocalStep DEF VaultInv, TypeOK

LEMMA BeginVault ==
  ASSUME VaultInv, NEW w \in Requests, Begin(w)
  PROVE  VaultInv'
<1> USE DEF NoReq, Request, Texts
<1>1. CASE BeginCreate(w)
  <2>1. PICK t \in Secrets \cup {Empty, "nofield"} :
          Arrive(w, [NoReq EXCEPT !.op = "create", !.info = t])
    BY <1>1 DEF BeginCreate
  <2> QED BY <2>1, ArriveVault, ConstantsAssumption, NoneIsNoOp
<1>2. CASE BeginUpdate(w)
  <2>1. PICK i \in Ids, t \in Secrets \cup {Empty, "nofield", None},
             b \in BOOLEAN \cup {None} :
          Arrive(w, [NoReq EXCEPT !.op = "update", !.id = i, !.info = t, !.active = b])
    BY <1>2 DEF BeginUpdate
  <2> QED BY <2>1, ArriveVault
<1>3. CASE BeginEdit(w)
  <2> DEFINE T(i) == IF Shown(rows[i].info).text = None THEN "nofield"
                     ELSE Shown(rows[i].info).text
  <2>1. PICK i \in Ids, b \in BOOLEAN :
          /\ rows[i] # None
          /\ Arrive(w, [op |-> "update", id |-> i, active |-> b, form |-> TRUE,
                        info |-> T(i)])
    BY <1>3 DEF BeginEdit
  <2>2. T(i) \in Texts \cup {"nofield"}
    BY DEF Shown, Plain
  <2> HIDE DEF T
  <2> QED BY <2>1, <2>2, ArriveVault
<1>4. CASE BeginDelete(w)
  <2>1. PICK i \in Ids : Arrive(w, [NoReq EXCEPT !.op = "delete", !.id = i])
    BY <1>4 DEF BeginDelete
  <2> QED BY <2>1, ArriveVault
<1> QED BY <1>1, <1>2, <1>3, <1>4 DEF Begin

LEMMA RefuseVault ==
  ASSUME VaultInv, NEW w \in Requests, Refuse(w)
  PROVE  VaultInv'
<1>1. Respond(w) /\ UNCHANGED <<dbVars, envVars>> /\ TypeOK
  BY DEF Refuse, VaultInv
<1>2. RequestOK(w)' /\ SnapshotOK(w)'
  BY <1>1, RespondFrame, IdleNext
<1> QED BY <1>1, <1>2, RespondFrame, LocalStep

LEMMA ReadActorVault ==
  ASSUME VaultInv, NEW w \in Requests, ReadActor(w)
  PROVE  VaultInv'
<1>1. PICK a \in Actors : /\ req[w].op = "create" => MayManage(a)
                          /\ actor' = [actor EXCEPT ![w] = a]
  BY DEF ReadActor
<1>2. /\ pc' \in [Requests -> PCs] /\ actor' \in [Requests -> Actors \cup {None}]
      /\ actor'[w] = a
      /\ pc'[w] = IF req[w].op = "create" THEN "write" ELSE "resource"
      /\ \A v \in Requests \ {w} : pc'[v] = pc[v] /\ actor'[v] = actor[v]
      /\ UNCHANGED <<dbVars, envVars, req, snap, sent>>
  BY <1>1 DEF VaultInv, TypeOK, ReadActor
<1>3. RequestOK(w)' /\ SnapshotOK(w)'
  BY <1>1, <1>2 DEF VaultInv, ReadActor, RequestOK, SnapshotOK
<1> QED BY <1>2, <1>3, LocalStep DEF VaultInv, TypeOK

LEMMA ReadResourceVault ==
  ASSUME VaultInv, NEW w \in Requests, ReadResource(w)
  PROVE  VaultInv'
<1> DEFINE i == req[w].id
<1>1. i \in Ids /\ req[w].op # "create" /\ RequestOK(w)
  BY DEF VaultInv, ReadResource, RequestOK
<1>2. /\ rows[i] \in Row /\ i \in used
      /\ MayAccess(actor[w], rows[i]) /\ MayManage(actor[w])
  BY <1>1 DEF VaultInv, TypeOK, ReadResource
<1>3. /\ pc' \in [Requests -> PCs] /\ snap' \in [Requests -> Row \cup {None}]
      /\ snap'[w] = rows[i] /\ pc'[w] = "write"
      /\ \A v \in Requests \ {w} : pc'[v] = pc[v] /\ snap'[v] = snap[v]
      /\ UNCHANGED <<dbVars, envVars, req, actor, sent>>
  BY <1>1, <1>2 DEF VaultInv, TypeOK, ReadResource
<1>4. RequestOK(w)'
  BY <1>1, <1>2, <1>3 DEF ReadResource, RequestOK
<1>5. rows[i].tenant = owner[i] /\ FieldOK(i, rows[i].info)
  BY <1>1, <1>2, NoneIsNoRow DEF VaultInv, OwnerFixed, SealedAtRest, FieldOK
<1>6. SnapshotOK(w)'
  BY <1>2, <1>3, <1>5 DEF SnapshotOK, FieldOK
<1> QED BY <1>3, <1>4, <1>6, LocalStep DEF VaultInv, TypeOK

\* What a request with a connection_info makes of it.
LEMMA RequestSealed ==
  ASSUME VaultInv, NEW w \in Requests, req[w].info # None
  PROVE  /\ Sealed(req[w].info) \in Field
         /\ \A i : FieldOK(i, Sealed(req[w].info))
         /\ TextOf(req[w].info) \in Texts \cup {None}
<1>1. req[w].info \in Texts \cup {"nofield"} /\ key \in Keys
  BY DEF VaultInv, TypeOK, Request
<1> QED BY <1>1, SealedIsSealed DEF FieldOK, TextOf

LEMMA CreateVault ==
  ASSUME VaultInv, NEW w \in Requests, CreateResource(w)
  PROVE  VaultInv'
<1>1. PICK i \in Ids :
        /\ FreshId(i)
        /\ rows' = [rows EXCEPT ![i] = [tenant |-> actor[w].tenant, active |-> TRUE,
                                        info |-> Sealed(req[w].info)]]
        /\ used' = used \cup {i}
        /\ owner' = [owner EXCEPT ![i] = actor[w].tenant]
        /\ last' = [last EXCEPT ![i] = TextOf(req[w].info)]
  BY DEF CreateResource
<1> DEFINE row == [tenant |-> actor[w].tenant, active |-> TRUE,
                   info |-> Sealed(req[w].info)]
<1>2. req[w].info # None /\ actor[w] \in Actors
  BY DEF VaultInv, RequestOK, CreateResource, Writing
<1>3. actor[w].tenant \in TenantIds \cup {None}
  BY <1>2 DEF Actors
<1>4. /\ row \in Row /\ FieldOK(i, row.info) /\ row.tenant = actor[w].tenant
      /\ TextOf(req[w].info) \in Texts \cup {None}
  BY <1>2, <1>3, RequestSealed DEF Row
<1>5. /\ used' \in SUBSET Ids /\ used \subseteq used' /\ i \in used'
      /\ owner' \in [Ids -> TenantIds \cup {None}] /\ owner'[i] = actor[w].tenant
      /\ \A j \in Ids : j \in used => owner'[j] = owner[j]
      /\ last' \in [Ids -> Texts \cup {None}]
  BY <1>1, <1>3, <1>4 DEF VaultInv, TypeOK, FreshId
<1>6. Respond(w) /\ UNCHANGED envVars /\ rows' = [rows EXCEPT ![i] = row]
  BY <1>1 DEF CreateResource
<1> HIDE DEF row
<1> QED BY <1>4, <1>5, <1>6, WriteStep

\* The row that an update saves: of the tenant of the resource, with no new
\* plain secret.
LEMMA UpdatedRowOK ==
  ASSUME VaultInv, NEW w \in Requests, Writing(w, "update")
  PROVE  /\ UpdatedRow(w) \in Row /\ req[w].id \in Ids \cap used
         /\ UpdatedRow(w).tenant = owner[req[w].id]
         /\ FieldOK(req[w].id, UpdatedRow(w).info)
<1>1. /\ snap[w] \in Row /\ req[w].id \in Ids \cap used
      /\ snap[w].tenant = owner[req[w].id]
      /\ FieldOK(req[w].id, snap[w].info)
  BY DEF VaultInv, RequestOK, SnapshotOK, Writing
<1>2. req[w].active \in BOOLEAN \cup {None}
  BY DEF VaultInv, TypeOK, Request
<1> DEFINE f == IF req[w].info # None THEN Sealed(req[w].info) ELSE snap[w].info
           b == IF req[w].active # None THEN req[w].active ELSE snap[w].active
<1>3. f \in Field /\ FieldOK(req[w].id, f)
  BY <1>1, RequestSealed DEF Row
<1>4. b \in BOOLEAN
  BY <1>1, <1>2 DEF Row
<1>5. UpdatedRow(w) = [snap[w] EXCEPT !.info = f, !.active = b]
  BY <1>1 DEF UpdatedRow, Row
<1> HIDE DEF f, b
<1> QED BY <1>1, <1>3, <1>4, <1>5 DEF Row

LEMMA SaveVault ==
  ASSUME VaultInv, NEW w \in Requests, SaveResource(w)
  PROVE  VaultInv'
<1> DEFINE i == req[w].id
           row == IF rows[i] # None THEN UpdatedRow(w)
                  ELSE [UpdatedRow(w) EXCEPT !.active = TRUE]
<1>1. /\ UpdatedRow(w) \in Row /\ i \in Ids \cap used
      /\ UpdatedRow(w).tenant = owner[i] /\ FieldOK(i, UpdatedRow(w).info)
  BY UpdatedRowOK DEF SaveResource
<1>2. row \in Row /\ row.tenant = owner[i] /\ FieldOK(i, row.info)
  BY <1>1 DEF Row
<1>3. rows' = [rows EXCEPT ![i] = row]
  BY <1>1 DEF SaveResource, VaultInv, TypeOK
<1>4. last' \in [Ids -> Texts \cup {None}]
  <2>1. CASE req[w].info = None
    BY <2>1 DEF SaveResource, VaultInv, TypeOK
  <2>2. CASE req[w].info # None
    BY <1>1, <2>2, RequestSealed DEF SaveResource, VaultInv, TypeOK
  <2> QED BY <2>1, <2>2
<1>5. Respond(w) /\ UNCHANGED <<used, owner, envVars>>
  BY DEF SaveResource
<1> HIDE DEF row, i
<1> QED BY <1>1, <1>2, <1>3, <1>4, <1>5, WriteStep DEF VaultInv, TypeOK

LEMMA DeleteVault ==
  ASSUME VaultInv, NEW w \in Requests, DeleteResource(w)
  PROVE  VaultInv'
<1>1. req[w].id \in Ids
  BY DEF VaultInv, RequestOK, DeleteResource, Writing
<1>2. /\ Respond(w) /\ UNCHANGED <<used, owner, last, envVars>>
      /\ rows' = [rows EXCEPT ![req[w].id] = None]
  BY DEF DeleteResource
<1> QED BY <1>1, <1>2, WriteStep DEF VaultInv, TypeOK

LEMMA EnvironmentVault ==
  ASSUME VaultInv, Environment
  PROVE  VaultInv'
<1>1. CASE Restart
  <2>1. NoReq \in Request
    BY DEF NoReq, Request
  <2>2. TypeOK'
    BY <1>1, <2>1 DEF VaultInv, TypeOK, Restart
  <2>3. ASSUME NEW w \in Requests PROVE RequestOK(w)' /\ SnapshotOK(w)'
    BY <1>1, IdleNext DEF Restart
  <2> QED BY <1>1, <2>2, <2>3 DEF Restart, VaultInv, OwnerFixed, SealedAtRest
<1>2. CASE Migrate
  <2>1. rows' = rows /\ migrated' \in BOOLEAN
        /\ UNCHANGED <<used, owner, last, key, legacy, reqVars, sent>>
    BY <1>2, MigrationIdle DEF VaultInv, Migrate
  <2>2. ASSUME NEW w \in Requests PROVE RequestOK(w)' /\ SnapshotOK(w)'
    BY <2>1 DEF VaultInv, RequestOK, SnapshotOK, FieldOK
  <2> QED BY <2>1, <2>2 DEF VaultInv, TypeOK, OwnerFixed, SealedAtRest
<1> QED BY <1>1, <1>2 DEF Environment

LEMMA StepVault == VaultInv /\ [Next]_vars => VaultInv'
<1> SUFFICES ASSUME VaultInv, [Next]_vars PROVE VaultInv'
  OBVIOUS
<1>1. CASE UNCHANGED vars
  <2>1. ASSUME NEW w \in Requests PROVE RequestOK(w)' /\ SnapshotOK(w)'
    BY <1>1 DEF vars, VaultInv, RequestOK, SnapshotOK, FieldOK
  <2> QED BY <1>1, <2>1 DEF vars, VaultInv, TypeOK, OwnerFixed, SealedAtRest
<1>2. CASE Environment
  BY <1>2, EnvironmentVault
<1>3. ASSUME NEW w \in Requests, Begin(w) \/ Step(w) PROVE VaultInv'
  BY <1>3, BeginVault, RefuseVault, ReadActorVault, ReadResourceVault, CreateVault,
     SaveVault, DeleteVault DEF Step
<1> QED BY <1>1, <1>2, <1>3 DEF Next

-----------------------------------------------------------------------------
(* Theorems *)

\* Whatever requests overlap, what a request read and checked still holds of
\* the resource when the request writes.
THEOREM VaultInvariant == Spec => []VaultInv
  BY InitVault, StepVault, PTL DEF Spec

\* The tables and the requests keep their types, a row saved from a snapshot
\* and one inserted again included.
THEOREM VaultTyped == Spec => []TypeOK
<1>1. VaultInv => TypeOK
  BY DEF VaultInv
<1> QED BY <1>1, VaultInvariant, PTL

\* encryptSensitiveFields runs before every write of a new secret: none is ever
\* stored in plain text that was not plain before.
THEOREM SecretsSealed == Spec => []SealedAtRest
<1>1. VaultInv => SealedAtRest
  BY DEF VaultInv
<1> QED BY <1>1, VaultInvariant, PTL

\* A resource keeps its tenant although Update saves every column of a row
\* that it read earlier.
THEOREM OwnersFixed == Spec => []OwnerFixed
<1>1. VaultInv => OwnerFixed
  BY DEF VaultInv
<1> QED BY <1>1, VaultInvariant, PTL

\* authorizeResourceAccess and ensureResourceManagementPermission look at what
\* was read earlier; the write still stays within the tenant of the caller.
THEOREM ResourcesIsolated == Spec => ResourceIsolation
<1> DEFINE A(w, i) ==
      (pc[w] = "write" /\ pc'[w] = "idle" /\ rows'[i] # rows[i])
      => /\ actor[w].type # "user"
         /\ actor[w].type = "tenant_admin" =>
               \A row \in {rows[i], rows'[i]} \ {None} :
                  row.tenant = actor[w].tenant
<1>1. VaultInv /\ [Next]_vars => [\A w \in Requests, i \in Ids : A(w, i)]_vars
  <2> SUFFICES ASSUME VaultInv, Next, NEW w \in Requests, NEW i \in Ids,
                      pc[w] = "write", pc'[w] = "idle", rows'[i] # rows[i]
               PROVE  /\ actor[w].type # "user"
                      /\ actor[w].type = "tenant_admin" =>
                            \A row \in {rows[i], rows'[i]} \ {None} :
                               row.tenant = actor[w].tenant
    OBVIOUS
  <2>1. MayManage(actor[w])
    BY DEF VaultInv, RequestOK
  <2>2. OwnerFixed /\ OwnerFixed'
    BY StepVault DEF VaultInv
  <2>3. CreateResource(w) \/ SaveResource(w) \/ DeleteResource(w)
    <3>1. ~Environment
      BY MigrationIdle DEF Environment, Restart, Migrate, VaultInv
    <3>2. ASSUME NEW v \in Requests, Begin(v) PROVE FALSE
      BY <3>2 DEF Begin, BeginCreate, BeginUpdate, BeginEdit, BeginDelete, Arrive
    <3>3. PICK v \in Requests : Step(v)
      BY <3>1, <3>2 DEF Next
    <3>4. CASE v = w
      BY <3>3, <3>4 DEF Step, Refuse, ReadActor, ReadResource
    <3>5. CASE v # w
      BY <3>3, <3>5, RespondFrame DEF VaultInv, TypeOK, Step, Refuse, ReadActor,
         ReadResource, CreateResource, SaveResource, DeleteResource
    <3> QED BY <3>4, <3>5
  <2>4. CASE CreateResource(w)
    <3>1. PICK j \in Ids :
            /\ FreshId(j)
            /\ rows' = [rows EXCEPT ![j] = [tenant |-> actor[w].tenant, active |-> TRUE,
                                            info |-> Sealed(req[w].info)]]
      BY <2>4 DEF CreateResource
    <3>2. i = j /\ rows[i] = None
      BY <3>1 DEF VaultInv, TypeOK, FreshId
    <3>3. rows'[i].tenant = actor[w].tenant
      BY <3>1, <3>2 DEF VaultInv, TypeOK
    <3> QED BY <2>1, <3>2, <3>3 DEF MayManage
  <2>5. CASE SaveResource(w) \/ DeleteResource(w)
    <3>1. i = req[w].id
      BY <2>5 DEF SaveResource, DeleteResource, VaultInv, TypeOK
    <3>2. MayAccess(actor[w], snap[w]) /\ snap[w].tenant = owner[i] /\ owner' = owner
      BY <2>5, <3>1 DEF SaveResource, DeleteResource, Writing, VaultInv, SnapshotOK
    <3> QED BY <2>1, <2>2, <3>2 DEF MayManage, MayAccess, OwnerFixed
  <2> QED BY <2>3, <2>4, <2>5
<1> QED BY <1>1, VaultInvariant, PTL DEF Spec, ResourceIsolation

\* A run of scripts/migrate_encrypt_resources.go changes no row, because Encrypt
\* refuses its key: what was plain before stays plain.
THEOREM MigrationWritesNothing == Spec => [][Migrate => rows' = rows]_vars
<1>1. VaultInv => [Migrate => rows' = rows]_vars
  BY MigrationIdle DEF VaultInv
<1> QED BY <1>1, VaultInvariant, PTL
-----------------------------------------------------------------------------
(* Requests that do not overlap, under one encryption key *)

OneRequest == \A v, w \in Requests : (pc[v] # "idle" /\ pc[w] # "idle") => v = w

\* The row that an update or a deletion has read is still in the table.
SnapshotCurrent(w) ==
    pc[w] = "write" /\ req[w].op # "create" => rows[req[w].id] = snap[w]

VaultSerialInv ==
    /\ VaultInv
    /\ OneRequest
    /\ RoundTrip
    /\ \A w \in Requests : SnapshotCurrent(w)

\* Decryption undoes encryption, also of what was never encrypted.
LEMMA RevealSealed ==
  ASSUME key \in Keys, NEW t \in Texts \cup {"nofield"}
  PROVE  Revealed(Sealed(t)) = Plain(TextOf(t))
<1>1. KeyLen(key) = 32 /\ key # None
  BY ConstantsAssumption DEF KeyLen
<1>2. CASE t = "nofield"
  BY <1>1, <1>2, NoneIsNoOp DEF Sealed, Revealed, Plain, TextOf, Texts
<1>3. CASE t = Empty
  BY <1>1, <1>3, NoneIsNoOp DEF Sealed, Revealed, Plain, TextOf, Texts
<1>4. CASE t \notin {"nofield", Empty}
  BY <1>1, <1>4 DEF Sealed, Encrypt, Revealed, Plain, TextOf
<1> QED BY <1>2, <1>3, <1>4

\* A step of the only request, while the key stays.
LEMMA OwnStep ==
  ASSUME VaultSerialInv, VaultInv', NEW w \in Requests, pc[w] # "idle",
         \A v \in Requests \ {w} : pc'[v] = pc[v],
         RoundTrip', SnapshotCurrent(w)'
  PROVE  VaultSerialInv'
<1>1. \A v \in Requests \ {w} : pc'[v] = "idle"
  BY DEF VaultSerialInv, OneRequest
<1> QED BY <1>1 DEF VaultSerialInv, OneRequest, SnapshotCurrent

\* A step that touches neither the rows nor the texts recorded for them.
LEMMA KeepsTexts ==
  ASSUME VaultSerialInv, UNCHANGED <<rows, last, key>>
  PROVE  RoundTrip'
  BY DEF VaultSerialInv, RoundTrip, Revealed, Plain

\* A write of one row, with the text recorded for it, leaves the others' texts.
LEMMA WriteTexts ==
  ASSUME VaultSerialInv, UNCHANGED key, NEW i \in Ids, NEW row \in Row \cup {None},
         rows' = [rows EXCEPT ![i] = row],
         \A j \in Ids \ {i} : last'[j] = last[j],
         row # None => Revealed(row.info) = Plain(last'[i])
  PROVE  RoundTrip'
<1>1. rows'[i] = row /\ \A j \in Ids \ {i} : rows'[j] = rows[j]
  BY DEF VaultSerialInv, VaultInv, TypeOK
<1>2. \A f : Revealed(f)' = Revealed(f)
  BY DEF Revealed, Plain
<1> QED BY <1>1, <1>2 DEF VaultSerialInv, RoundTrip, Revealed, Plain

\* What a creation writes.
LEMMA CreateWrites ==
  ASSUME VaultSerialInv, NEW w \in Requests, CreateResource(w)
  PROVE  \E i \in Ids \ used, row \in Row :
            /\ rows[i] = None
            /\ rows' = [rows EXCEPT ![i] = row]
            /\ used' = used \cup {i}
            /\ last' = [last EXCEPT ![i] = TextOf(req[w].info)]
            /\ Revealed(row.info) = Plain(TextOf(req[w].info))
<1>1. /\ key \in Keys /\ actor[w] \in Actors /\ req[w].info \in Texts \cup {"nofield"}
      /\ VaultInv
  BY DEF VaultSerialInv, VaultInv, TypeOK, RequestOK, CreateResource, Writing, Request
<1> DEFINE row == [tenant |-> actor[w].tenant, active |-> TRUE,
                   info |-> Sealed(req[w].info)]
<1>2. row \in Row /\ Revealed(row.info) = Plain(TextOf(req[w].info))
  BY <1>1, SealedIsSealed, RevealSealed DEF Row, Actors
<1>3. PICK i \in Ids : /\ FreshId(i) /\ rows' = [rows EXCEPT ![i] = row]
                       /\ used' = used \cup {i}
                       /\ last' = [last EXCEPT ![i] = TextOf(req[w].info)]
  BY DEF CreateResource
<1>4. i \in Ids \ used /\ rows[i] = None
  BY <1>1, <1>3 DEF FreshId, VaultInv
<1> HIDE DEF row
<1> QED BY <1>2, <1>3, <1>4

\* What an update writes: the row is there, and gets the text that history
\* records for it.
LEMMA SaveWrites ==
  ASSUME VaultSerialInv, NEW w \in Requests, SaveResource(w)
  PROVE  LET i == req[w].id IN
         /\ i \in Ids /\ rows[i] # None /\ UpdatedRow(w) \in Row
         /\ rows' = [rows EXCEPT ![i] = UpdatedRow(w)]
         /\ \A j \in Ids \ {i} : last'[j] = last[j]
         /\ last'[i] \in Texts \cup {None}
         /\ Revealed(UpdatedRow(w).info) = Plain(last'[i])
<1> DEFINE i == req[w].id
<1>1. VaultInv /\ TypeOK /\ Writing(w, "update")
  BY DEF VaultSerialInv, VaultInv, SaveResource
<1>2. i \in Ids /\ UpdatedRow(w) \in Row
  BY <1>1, UpdatedRowOK
<1>3. snap[w] \in Row /\ rows[i] = snap[w] /\ rows[i] # None
  BY <1>1, NoneIsNoRow DEF VaultSerialInv, SnapshotCurrent, Writing, VaultInv, SnapshotOK
<1>4. rows' = [rows EXCEPT ![i] = UpdatedRow(w)]
  BY <1>1, <1>2, <1>3 DEF SaveResource, TypeOK
<1>5. CASE req[w].info = None
  <2>1. last' = last /\ last[i] \in Texts \cup {None}
    BY <1>1, <1>2, <1>5 DEF SaveResource, TypeOK
  <2>2. UpdatedRow(w).info = snap[w].info
    BY <1>3, <1>5 DEF UpdatedRow, Row
  <2>3. Revealed(snap[w].info) = Plain(last[i])
    BY <1>2, <1>3 DEF VaultSerialInv, RoundTrip
  <2> QED BY <1>2, <1>3, <1>4, <2>1, <2>2, <2>3
<1>6. CASE req[w].info # None
  <2>1. req[w].info \in Texts \cup {"nofield"} /\ key \in Keys
    BY <1>1, <1>6 DEF TypeOK, Request
  <2>2. last' = [last EXCEPT ![i] = TextOf(req[w].info)]
    BY <1>6 DEF SaveResource
  <2>3. /\ last'[i] = TextOf(req[w].info) /\ last'[i] \in Texts \cup {None}
        /\ \A j \in Ids \ {i} : last'[j] = last[j]
    BY <1>1, <1>2, <2>1, <2>2 DEF TypeOK, TextOf
  <2>4. UpdatedRow(w).info = Sealed(req[w].info)
    BY <1>3, <1>6 DEF UpdatedRow, Row
  <2> QED BY <1>2, <1>3, <1>4, <2>1, <2>3, <2>4, RevealSealed
<1> QED BY <1>5, <1>6

LEMMA VaultSerialInit == Init => VaultSerialInv
<1> SUFFICES ASSUME Init PROVE VaultSerialInv
  OBVIOUS
<1>1. ASSUME NEW i \in Ids, rows[i] # None
      PROVE  Revealed(rows[i].info) = Plain(last[i])
  <2>1. PICK t \in Secrets : rows[i].info = Plain(t)
    BY <1>1 DEF Init, LegacyRow
  <2>2. last[i] = t
    BY <1>1, <2>1 DEF Init, Plain
  <2> QED BY <2>1, <2>2 DEF Revealed, Plain
<1> QED BY <1>1, InitVault DEF Init, VaultSerialInv, RoundTrip, OneRequest, SnapshotCurrent

\* Every serial step under the same key keeps the invariant.
LEMMA VaultSerialStep == VaultSerialInv /\ [SerialNext /\ UNCHANGED key]_vars => VaultSerialInv'
<1> SUFFICES ASSUME VaultSerialInv, [SerialNext /\ UNCHANGED key]_vars
             PROVE  VaultSerialInv'
  OBVIOUS
<1>1. VaultInv' /\ TypeOK /\ UNCHANGED key
  BY StepVault DEF VaultSerialInv, VaultInv, SerialNext, Next, vars
<1>2. CASE UNCHANGED vars
  BY <1>1, <1>2, KeepsTexts DEF vars, VaultSerialInv, OneRequest, SnapshotCurrent
<1>3. ASSUME NEW w \in Requests, Begin(w), \A v \in Requests : pc[v] = "idle"
      PROVE  VaultSerialInv'
  <2>1. UNCHANGED <<rows, last, key, snap>> /\ pc' = [pc EXCEPT ![w] = "actor"]
    BY <1>3 DEF Begin, BeginCreate, BeginUpdate, BeginEdit, BeginDelete, Arrive
  <2>2. OneRequest' /\ \A v \in Requests : pc'[v] \in {"idle", "actor"}
    BY <1>1, <1>3, <2>1 DEF OneRequest, TypeOK
  <2> QED BY <1>1, <2>1, <2>2, KeepsTexts DEF VaultSerialInv, SnapshotCurrent
<1>4. ASSUME NEW w \in Requests, Refuse(w) PROVE VaultSerialInv'
  <2>1. pc[w] # "idle" /\ Respond(w) /\ UNCHANGED <<rows, last, key>>
    BY <1>4 DEF Refuse
  <2> QED BY <1>1, <2>1, RespondFrame, KeepsTexts, OwnStep DEF SnapshotCurrent
<1>5. ASSUME NEW w \in Requests, ReadActor(w) \/ ReadResource(w) PROVE VaultSerialInv'
  <2>1. /\ pc[w] # "idle" /\ UNCHANGED <<rows, last, key, req>>
        /\ \A v \in Requests \ {w} : pc'[v] = pc[v]
    BY <1>1, <1>5 DEF ReadActor, ReadResource, TypeOK
  <2>2. SnapshotCurrent(w)'
    BY <1>1, <1>5, <2>1 DEF ReadActor, ReadResource, SnapshotCurrent, TypeOK
  <2> QED BY <1>1, <2>1, <2>2, KeepsTexts, OwnStep
<1>6. ASSUME NEW w \in Requests, Respond(w), pc[w] # "idle", RoundTrip'
      PROVE  VaultSerialInv'
  BY <1>1, <1>6, RespondFrame, OwnStep DEF SnapshotCurrent
<1>7. ASSUME NEW w \in Requests, CreateResource(w) PROVE VaultSerialInv'
  <2>1. PICK i \in Ids \ used, row \in Row :
          /\ rows' = [rows EXCEPT ![i] = row]
          /\ last' = [last EXCEPT ![i] = TextOf(req[w].info)]
          /\ Revealed(row.info) = Plain(TextOf(req[w].info))
    BY <1>7, CreateWrites
  <2>2. last'[i] = TextOf(req[w].info) /\ \A j \in Ids \ {i} : last'[j] = last[j]
    BY <1>1, <2>1 DEF TypeOK
  <2>3. RoundTrip'
    BY <1>1, <2>1, <2>2, WriteTexts
  <2> QED BY <1>6, <1>7, <2>3 DEF CreateResource, Writing
<1>8. ASSUME NEW w \in Requests, SaveResource(w) PROVE VaultSerialInv'
  <2>1. RoundTrip'
    BY <1>1, <1>8, SaveWrites, WriteTexts
  <2> QED BY <1>6, <1>8, <2>1 DEF SaveResource, Writing
<1>9. ASSUME NEW w \in Requests, DeleteResource(w) PROVE VaultSerialInv'
  <2>1. req[w].id \in Ids /\ rows' = [rows EXCEPT ![req[w].id] = None] /\ last' = last
    BY <1>9 DEF DeleteResource, Writing, VaultSerialInv, VaultInv, RequestOK
  <2>2. RoundTrip'
    BY <1>1, <2>1, WriteTexts
  <2> QED BY <1>6, <1>9, <2>2 DEF DeleteResource, Writing
<1>10. CASE Environment
  <2>1. UNCHANGED <<rows, last, key>>
    BY <1>1, <1>10, MigrationIdle DEF Environment, Restart, Migrate
  <2>2. \/ \A v \in Requests : pc'[v] = "idle"
        \/ UNCHANGED <<pc, req, snap>>
    BY <1>10 DEF Environment, Restart, Migrate
  <2> QED BY <1>1, <2>1, <2>2, KeepsTexts DEF VaultSerialInv, OneRequest, SnapshotCurrent
<1> QED BY <1>2, <1>3, <1>4, <1>5, <1>7, <1>8, <1>9, <1>10 DEF SerialNext, Step

\* The behaviours of a deployment that keeps its ENCRYPTION_KEY and whose
\* requests do not overlap.
OneKeySpec == SerialSpec /\ [][UNCHANGED key]_vars

\* The inductive invariant of these behaviours: what a request read is still
\* there when it writes, and every row reveals what was last stored in it.
THEOREM SerialVaultInvariant == OneKeySpec => []VaultSerialInv
<1>1. VaultSerialInv /\ [SerialNext]_vars /\ [UNCHANGED key]_vars => VaultSerialInv'
  BY VaultSerialStep
<1> QED BY <1>1, VaultSerialInit, PTL DEF OneKeySpec, SerialSpec

\* Without overlap and with one key, services receive the text that a client
\* stored last, through updates of other fields, restarts and the migration.
THEOREM SecretsRoundTrip == OneKeySpec => []RoundTrip
<1>1. VaultSerialInv => RoundTrip
  BY DEF VaultSerialInv
<1> QED BY <1>1, SerialVaultInvariant, PTL

-----------------------------------------------------------------------------
(* Refinement of SecretStore *)

\* The mapping of the state: what the services receive of every resource.
StoreSecret == [i \in Ids |-> IF rows[i] = None THEN None ELSE Revealed(rows[i].info)]
StoreValues == {Plain(t) : t \in Texts \cup {None}}

LEMMA StoreTyped ==
  ASSUME VaultSerialInv
  PROVE  /\ StoreSecret \in [Ids -> StoreValues \cup {None}]
         /\ \A i \in Ids : StoreSecret[i] = None <=> rows[i] = None
<1>1. ASSUME NEW i \in Ids, rows[i] # None
      PROVE  Revealed(rows[i].info) \in StoreValues
  <2>1. Revealed(rows[i].info) = Plain(last[i]) /\ last[i] \in Texts \cup {None}
    BY <1>1 DEF VaultSerialInv, RoundTrip, VaultInv, TypeOK
  <2> QED BY <2>1 DEF StoreValues
<1>2. \A v \in StoreValues : v # None
  <2>1. \A v \in StoreValues : v \in Field
    BY DEF StoreValues, Plain, Field
  <2> QED BY <2>1, NoneIsNoRow
<1> QED BY <1>1, <1>2 DEF StoreSecret

\* A row that is written changes the secret of its resource alone.
LEMMA StoreWrite ==
  ASSUME VaultSerialInv, UNCHANGED key, NEW i \in Ids, NEW row,
         rows' = [rows EXCEPT ![i] = row]
  PROVE  StoreSecret' = [StoreSecret EXCEPT ![i] =
                           IF row = None THEN None ELSE Revealed(row.info)]
<1>1. \A f : Revealed(f)' = Revealed(f)
  BY DEF Revealed, Plain
<1>2. rows'[i] = row /\ \A j \in Ids \ {i} : rows'[j] = rows[j]
  BY DEF VaultSerialInv, VaultInv, TypeOK
<1>3. /\ StoreSecret' = [j \in Ids |-> IF rows'[j] = None THEN None
                                      ELSE Revealed(rows'[j].info)]
      /\ StoreSecret = [j \in Ids |-> IF rows[j] = None THEN None
                                     ELSE Revealed(rows[j].info)]
  BY <1>1 DEF StoreSecret
<1> HIDE DEF StoreSecret
<1> QED BY <1>2, <1>3

\* A step of requests and process that leaves the rows and the ids alone is a
\* stuttering step of the store.
LEMMA StoreStutter ==
  ASSUME UNCHANGED <<rows, key, used>>
  PROVE  UNCHANGED <<StoreSecret, used>>
  BY DEF StoreSecret, Revealed, Plain

LEMMA StoreStep ==
  ASSUME VaultSerialInv, SerialNext, UNCHANGED key
  PROVE  Store!Next \/ UNCHANGED <<StoreSecret, used>>
<1> USE DEF StoreSecret, StoreValues
<1>1. TypeOK
  BY DEF VaultSerialInv, VaultInv
<1>2. CASE Environment
  BY <1>1, <1>2, MigrationIdle, StoreStutter DEF Environment, Restart, Migrate
<1>3. ASSUME NEW w \in Requests, Begin(w) PROVE UNCHANGED <<StoreSecret, used>>
  BY <1>3, StoreStutter
     DEF Begin, BeginCreate, BeginUpdate, BeginEdit, BeginDelete, Arrive
<1>4. ASSUME NEW w \in Requests, Refuse(w) \/ ReadActor(w) \/ ReadResource(w)
      PROVE  UNCHANGED <<StoreSecret, used>>
  BY <1>4, StoreStutter DEF Refuse, ReadActor, ReadResource
<1> HIDE DEF StoreSecret, StoreValues
<1>5. ASSUME NEW w \in Requests, CreateResource(w) PROVE \E i \in Ids : Store!Add(i)
  <2>1. PICK i \in Ids \ used, row \in Row :
          /\ rows' = [rows EXCEPT ![i] = row]
          /\ used' = used \cup {i}
          /\ Revealed(row.info) = Plain(TextOf(req[w].info))
    BY <1>5, CreateWrites
  <2>2. TextOf(req[w].info) \in Texts \cup {None}
    BY <1>1, <1>5, RequestSealed
       DEF VaultSerialInv, VaultInv, RequestOK, CreateResource, Writing
  <2>3. Revealed(row.info) \in StoreValues
    BY <2>1, <2>2 DEF StoreValues
  <2>4. StoreSecret' = [StoreSecret EXCEPT ![i] = Revealed(row.info)]
    BY <2>1, StoreWrite, NoneIsNoRow
  <2>5. Store!Add(i)
    BY <2>1, <2>3, <2>4 DEF Store!Add, StoreSecret, StoreValues
  <2> QED BY <2>5
<1>6. ASSUME NEW w \in Requests, SaveResource(w) PROVE \E i \in Ids : Store!Replace(i)
  <2>0. PICK i \in Ids : i = req[w].id
    BY <1>6, SaveWrites
  <2>1. /\ rows[i] # None /\ UpdatedRow(w) \in Row
        /\ rows' = [rows EXCEPT ![i] = UpdatedRow(w)]
        /\ Revealed(UpdatedRow(w).info) = Plain(last'[i])
        /\ last'[i] \in Texts \cup {None}
    BY <1>6, <2>0, SaveWrites
  <2>2. Revealed(UpdatedRow(w).info) \in StoreValues
    BY <2>1 DEF StoreValues
  <2>3. StoreSecret' = [StoreSecret EXCEPT ![i] = Revealed(UpdatedRow(w).info)]
    BY <2>1, StoreWrite, NoneIsNoRow
  <2>4. StoreSecret[i] # None /\ UNCHANGED used
    BY <1>6, <2>1, StoreTyped DEF SaveResource
  <2>5. Store!Replace(i)
    BY <2>2, <2>3, <2>4 DEF Store!Replace, StoreSecret, StoreValues
  <2> QED BY <2>5
<1>7. ASSUME NEW w \in Requests, DeleteResource(w) PROVE \E i \in Ids : Store!Drop(i)
  <2>0. PICK i \in Ids : i = req[w].id
    BY <1>7 DEF DeleteResource, Writing, VaultSerialInv, VaultInv, RequestOK
  <2>1. rows' = [rows EXCEPT ![i] = None] /\ UNCHANGED used
    BY <1>7, <2>0 DEF DeleteResource
  <2>2. StoreSecret' = [StoreSecret EXCEPT ![i] = None]
    BY <2>1, StoreWrite
  <2>3. Store!Drop(i)
    BY <2>1, <2>2 DEF Store!Drop, StoreSecret
  <2> QED BY <2>3
<1> QED BY <1>2, <1>3, <1>4, <1>5, <1>6, <1>7 DEF SerialNext, Step, Store!Next

\* The table of cipher texts implements the abstract store: its initial states
\* are initial states of the store, every step is one of the store or a stutter.
THEOREM VaultImplementsStore == OneKeySpec => ImplementsStore
<1>1. Init => Store!Init
  <2> SUFFICES ASSUME Init PROVE Store!Init
    OBVIOUS
  <2>1. VaultSerialInv
    BY VaultSerialInit
  <2>2. /\ StoreSecret \in [Ids -> StoreValues \cup {None}] /\ used \in SUBSET Ids
        /\ used = {i \in Ids : StoreSecret[i] # None}
    BY <2>1, StoreTyped DEF Init
  <2> QED BY <2>2 DEF Store!Init, Store!TypeOK, StoreSecret, StoreValues
<1>2. VaultSerialInv /\ [SerialNext]_vars /\ [UNCHANGED key]_vars
      => [Store!Next]_<<StoreSecret, used>>
  BY StoreStep, StoreStutter DEF vars
<1> QED BY <1>1, <1>2, SerialVaultInvariant, PTL
        DEF OneKeySpec, SerialSpec, ImplementsStore, Store!Spec, StoreSecret
=============================================================================
