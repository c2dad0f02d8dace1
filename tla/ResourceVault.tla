----------------------------- MODULE ResourceVault -----------------------------
(***************************************************************************)
(* Registered resources of the System service and their secrets            *)
(* (system/backend/internal/service/resource_service.go,                   *)
(* common/utils/encryption.go).                                            *)
(*                                                                         *)
(* connection_info is encrypted before it is stored, masked before a user  *)
(* sees it and decrypted for the other services. Every request runs in its *)
(* own goroutine; one action is one SQL statement, and the write of an     *)
(* update saves the row that was read earlier.                             *)
(*                                                                         *)
(* Abstractions: connection_info is its one sensitive field (password,     *)
(* access_key, secret_key, token and api_key are treated alike), a string  *)
(* when it is there; the name, type, description and creator of a resource *)
(* are left out. AES-GCM is ideal: a text decrypts under the key it was    *)
(* encrypted with, and under no other.                                     *)
(***************************************************************************)
EXTENDS Naturals, FiniteSets

CONSTANTS
    Requests,      \* goroutines that can handle a request at the same time
    Ids,           \* values of the id sequence of resources
    TenantIds,
    Secrets,       \* passwords
    Mask,          \* the text "******"
    Empty,         \* the empty text
    Keys,          \* the values ENCRYPTION_KEY may have when System starts
    MigrationKey,  \* the key in scripts/migrate_encrypt_resources.go
    MaxRequests,   \* bound on the requests of a behaviour
    None           \* "no row", NULL, a missing field

ASSUME ConstantsAssumption ==
    /\ Ids \subseteq Nat /\ MaxRequests \in Nat
    /\ None \notin TenantIds /\ None \notin BOOLEAN /\ None \notin Ids
    /\ None \notin Secrets \cup {Mask, Empty}
    /\ Mask \notin Secrets /\ Empty \notin Secrets /\ Mask # Empty
    /\ None \notin Keys \cup {MigrationKey}
    /\ MigrationKey \notin Keys

Texts == Secrets \cup {Mask, Empty}

\* The sensitive field of a connection_info: plain (key = None), encrypted, or
\* missing (text = None).
Field == [key : Keys \cup {MigrationKey, None}, text : Texts \cup {None}]
Plain(t) == [key |-> None, text |-> t]

Row == [tenant : TenantIds \cup {None}, active : BOOLEAN, info : Field]
ASSUME NoneIsNoRow == \A r \in Row \cup Field : r # None

\* The rows of users that send requests: a super administrator has no tenant, a
\* tenant administrator has one (see SystemAccounts).
Actors == {a \in [type : {"super_admin", "tenant_admin", "user"},
                  tenant : TenantIds \cup {None}] :
             /\ a.type = "super_admin" => a.tenant = None
             /\ a.type = "tenant_admin" => a.tenant # None}
ASSUME NoneIsNoActor == \A a \in Actors : a # None

VARIABLES
    rows,      \* table resources: id -> row or None
    used,      \* the ids given so far
    key,       \* EncryptionKey of the running process
    migrated,  \* the migration script has been run
    owner,     \* history: the tenant with which an id was inserted
    legacy,    \* history: the plain field a row had from the start, or None
    last,      \* history: the text that a client last stored under an id
    pc,        \* what each request does next
    req,       \* the fields of each request
    actor,     \* snapshot of the row of the user who sent it
    snap,      \* snapshot of the resource it is about
    sent       \* how much of MaxRequests is used up

dbVars == <<rows, used, owner, last>>
envVars == <<key, migrated, legacy>>
reqVars == <<pc, req, actor, snap>>
vars == <<dbVars, envVars, reqVars, sent>>

\* info is a text, "nofield" (a connection_info without the sensitive field) or
\* None (a request without connection_info); form: it comes from an edit form.
Request == [op : {"create", "update", "delete", None}, id : Ids \cup {None},
            info : Texts \cup {"nofield", None}, active : BOOLEAN \cup {None},
            form : BOOLEAN]
ASSUME NoneIsNoOp ==
    /\ None \notin {"create", "update", "delete", "nofield"}
    /\ "nofield" \notin Texts

NoReq == [op |-> None, id |-> None, info |-> None, active |-> None, form |-> FALSE]

PCs == {"idle", "actor", "resource", "write"}

TypeOK ==
    /\ rows \in [Ids -> Row \cup {None}]
    /\ used \in SUBSET Ids
    /\ key \in Keys
    /\ migrated \in BOOLEAN
    /\ owner \in [Ids -> TenantIds \cup {None}]
    /\ legacy \in [Ids -> Field \cup {None}]
    /\ last \in [Ids -> Texts \cup {None}]
    /\ pc \in [Requests -> PCs]
    /\ req \in [Requests -> Request]
    /\ actor \in [Requests -> Actors \cup {None}]
    /\ snap \in [Requests -> Row \cup {None}]
    /\ sent \in 0..MaxRequests

\* A resource that was registered before encryption was introduced.
LegacyRow == [tenant : TenantIds \cup {None}, active : {TRUE},
              info : {Plain(t) : t \in Secrets}]

Init ==
    /\ rows \in [Ids -> LegacyRow \cup {None}]
    /\ used = {i \in Ids : rows[i] # None}
    /\ \A i \in used, j \in Ids : j < i => j \in used
    /\ key \in Keys
    /\ migrated = FALSE
    /\ owner = [i \in Ids |-> IF rows[i] = None THEN None ELSE rows[i].tenant]
    /\ legacy = [i \in Ids |-> IF rows[i] = None THEN None ELSE rows[i].info]
    /\ last = [i \in Ids |-> IF rows[i] = None THEN None ELSE rows[i].info.text]
    /\ pc = [w \in Requests |-> "idle"]
    /\ req = [w \in Requests |-> NoReq]
    /\ actor = [w \in Requests |-> None]
    /\ snap = [w \in Requests |-> None]
    /\ sent = 0

-----------------------------------------------------------------------------
(* Encryption *)

\* Bytes of a key: loadEncryptionKey lets System start with 32 only; the key
\* in the script, "dev-encryption-key-32-bytes!", has 28.
KeyLen(k) == IF k = MigrationKey THEN 28 ELSE 32

\* Encrypt: None is its error.
Encrypt(t, k) == IF KeyLen(k) # 32 THEN None ELSE [key |-> k, text |-> t]

\* encryptSensitiveFields: a field that is missing or empty is left alone.
Sealed(t) ==
    CASE t = "nofield" -> Plain(None)
      [] t = Empty -> Plain(Empty)
      [] OTHER -> Encrypt(t, key)

\* decryptSensitiveFields: what does not decrypt is returned as it is.
Revealed(f) == IF f.key = key THEN Plain(f.text) ELSE f

\* maskSensitiveFields
Shown(f) == IF f.text = None THEN f ELSE Plain(Mask)

-----------------------------------------------------------------------------
(* The process and its surroundings *)

\* System ends and starts again, perhaps with another ENCRYPTION_KEY.
Restart ==
    /\ key' \in Keys
    /\ pc' = [w \in Requests |-> "idle"]
    /\ req' = [w \in Requests |-> NoReq]
    /\ actor' = [w \in Requests |-> None]
    /\ snap' = [w \in Requests |-> None]
    /\ UNCHANGED <<dbVars, migrated, legacy, sent>>

\* One field in the script's loop over the rows: it takes a text of less than 50
\* bytes for plain, and leaves a field as it is when its encryption fails.
MigratedField(f, short) ==
    LET sealed == Encrypt(f.text, MigrationKey) IN
    IF f.text \in {None, Empty} \/ ~short \/ sealed = None THEN f ELSE sealed

\* scripts/migrate_encrypt_resources.go is run; it writes the rows it changed.
\* A plain secret is short, a cipher text may or may not be.
Migrate ==
    /\ ~migrated
    /\ migrated' = TRUE
    /\ \E short \in SUBSET {i \in Ids : rows[i] # None /\ rows[i].info.key # None} :
          rows' = [i \in Ids |->
                     IF rows[i] = None THEN None
                     ELSE [rows[i] EXCEPT !.info =
                             MigratedField(@, rows[i].info.key = None \/ i \in short)]]
    /\ UNCHANGED <<used, owner, last, key, legacy, reqVars, sent>>

-----------------------------------------------------------------------------
(* Requests arrive *)

Arrive(w, r) ==
    /\ pc[w] = "idle" /\ sent < MaxRequests
    /\ sent' = sent + 1
    /\ req' = [req EXCEPT ![w] = r]
    /\ pc' = [pc EXCEPT ![w] = "actor"]
    /\ UNCHANGED <<dbVars, envVars, actor, snap>>

BeginCreate(w) == \E t \in Secrets \cup {Empty, "nofield"} :
    Arrive(w, [NoReq EXCEPT !.op = "create", !.info = t])

\* A client that sends the fields it wants to change.
BeginUpdate(w) ==
    \E i \in Ids, t \in Secrets \cup {Empty, "nofield", None},
       b \in BOOLEAN \cup {None} :
       Arrive(w, [NoReq EXCEPT !.op = "update", !.id = i, !.info = t, !.active = b])

\* editResource and submitForm of the front end: the form is filled with the
\* row as it is shown, and sent whole; its user changes other fields only.
BeginEdit(w) ==
    \E i \in Ids, b \in BOOLEAN :
       /\ rows[i] # None
       /\ LET f == Shown(rows[i].info) IN
          Arrive(w, [op |-> "update", id |-> i, active |-> b, form |-> TRUE,
                     info |-> IF f.text = None THEN "nofield" ELSE f.text])

BeginDelete(w) == \E i \in Ids :
    Arrive(w, [NoReq EXCEPT !.op = "delete", !.id = i])

-----------------------------------------------------------------------------
(* Steps of a request *)

Respond(w) ==
    /\ pc' = [pc EXCEPT ![w] = "idle"]
    /\ req' = [req EXCEPT ![w] = NoReq]
    /\ actor' = [actor EXCEPT ![w] = None]
    /\ snap' = [snap EXCEPT ![w] = None]
    /\ UNCHANGED sent

\* A missing row, a refused permission or a failing statement.
Refuse(w) ==
    /\ pc[w] # "idle"
    /\ Respond(w)
    /\ UNCHANGED <<dbVars, envVars>>

\* ensureResourceManagementPermission
MayManage(a) == a.type \in {"super_admin", "tenant_admin"}

\* Mutant of MayAccess: the ids are not compared.
MayAccessAny(a, row) == a.type = "super_admin" \/ (a.tenant # None /\ row.tenant # None)

\* authorizeResourceAccess
MayAccess(a, row) ==
    a.type = "super_admin" \/ (a.tenant # None /\ a.tenant = row.tenant)

\* getCurrentUser; Create checks the permission at once.
ReadActor(w) ==
    /\ pc[w] = "actor"
    /\ \E a \in Actors :
          /\ req[w].op = "create" => MayManage(a)
          /\ actor' = [actor EXCEPT ![w] = a]
    /\ pc' = [pc EXCEPT ![w] = IF req[w].op = "create" THEN "write" ELSE "resource"]
    /\ UNCHANGED <<dbVars, envVars, req, snap, sent>>

\* GetByID of the resource, and the two checks.
ReadResource(w) ==
    /\ pc[w] = "resource"
    /\ LET row == rows[req[w].id] IN
          /\ row # None
          /\ MayAccess(actor[w], row) /\ MayManage(actor[w])
          /\ snap' = [snap EXCEPT ![w] = row]
    /\ pc' = [pc EXCEPT ![w] = "write"]
    /\ UNCHANGED <<dbVars, envVars, req, actor, sent>>

Writing(w, op) == pc[w] = "write" /\ req[w].op = op

\* Mutant of FreshId: the id of a deleted row is given again.
FreshIdReused(i) == rows[i] = None /\ \A j \in Ids : j < i => rows[j] # None

\* The next value of the id sequence.
FreshId(i) == i \notin used /\ \A j \in Ids : j < i => j \in used

\* The text of a stored field, as history records it.
TextOf(t) == IF t = "nofield" THEN None ELSE t

\* Create: the resource belongs to the tenant of its creator.
CreateResource(w) ==
    /\ Writing(w, "create")
    /\ \E i \in Ids :
          /\ FreshId(i)
          /\ rows' = [rows EXCEPT ![i] = [tenant |-> actor[w].tenant, active |-> TRUE,
                                          info |-> Sealed(req[w].info)]]
          /\ used' = used \cup {i}
          /\ owner' = [owner EXCEPT ![i] = actor[w].tenant]
          /\ last' = [last EXCEPT ![i] = TextOf(req[w].info)]
    /\ Respond(w)
    /\ UNCHANGED envVars

\* Mutant of UpdatedRow: a missing is_active is stored as it is.
UpdatedRowNil(w) == [snap[w] EXCEPT !.active = req[w].active]

\* Mutant of UpdatedRow: the new connection_info is stored as it came.
UpdatedRowPlain(w) ==
    [snap[w] EXCEPT !.info = IF req[w].info # None THEN Plain(TextOf(req[w].info)) ELSE @]

\* Mutant of UpdatedRow: the resource goes over to the tenant of the caller.
UpdatedRowMoved(w) == [snap[w] EXCEPT !.tenant = actor[w].tenant]

\* Mutant of UpdatedRow: the field is cleared when the request has none.
UpdatedRowCleared(w) ==
    [snap[w] EXCEPT !.info = IF req[w].info # None THEN Sealed(req[w].info)
                             ELSE Plain(Empty)]

\* The row that Update saves: the snapshot with the fields of the request.
UpdatedRow(w) ==
    [snap[w] EXCEPT !.info = IF req[w].info # None THEN Sealed(req[w].info) ELSE @,
                    !.active = IF req[w].active # None THEN req[w].active ELSE @]

\* Update: gorm Save, an UPDATE of every column, or an INSERT of the snapshot
\* when the row is gone, in which is_active = false gives way to the default.
SaveResource(w) ==
    /\ Writing(w, "update")
    /\ LET i == req[w].id IN
          /\ rows' = [rows EXCEPT ![i] = IF @ # None THEN UpdatedRow(w)
                                         ELSE [UpdatedRow(w) EXCEPT !.active = TRUE]]
          /\ last' = IF req[w].info # None
                     THEN [last EXCEPT ![i] = TextOf(req[w].info)] ELSE last
    /\ Respond(w)
    /\ UNCHANGED <<used, owner, envVars>>

DeleteResource(w) ==
    /\ Writing(w, "delete")
    /\ rows' = [rows EXCEPT ![req[w].id] = None]
    /\ Respond(w)
    /\ UNCHANGED <<used, owner, last, envVars>>

Begin(w) == BeginCreate(w) \/ BeginUpdate(w) \/ BeginEdit(w) \/ BeginDelete(w)

Step(w) ==
    \/ Refuse(w) \/ ReadActor(w) \/ ReadResource(w)
    \/ CreateResource(w) \/ SaveResource(w) \/ DeleteResource(w)

Environment == Restart \/ Migrate

Next == (\E w \in Requests : Begin(w) \/ Step(w)) \/ Environment

Spec == Init /\ [][Next]_vars

\* The schedules in which requests do not overlap.
SerialNext ==
    \/ \E w \in Requests : Begin(w) /\ \A v \in Requests : pc[v] = "idle"
    \/ \E w \in Requests : Step(w)
    \/ Environment

SerialSpec == Init /\ [][SerialNext]_vars

-----------------------------------------------------------------------------
(* Properties *)

\* A secret is stored in plain text only where it was so from the start: no
\* overlap of updates, re-insertions and restarts writes another one.
SealedAtRest ==
    \A i \in Ids : rows[i] # None =>
        \/ rows[i].info.key # None
        \/ rows[i].info.text \in {None, Empty}
        \/ rows[i].info = legacy[i]

\* A resource never changes its tenant, although rows are saved from snapshots
\* and a deleted one may be inserted again.
OwnerFixed == \A i \in Ids : rows[i] # None => rows[i].tenant = owner[i]

\* Only administrators change resources, and a tenant administrator only those
\* of its own tenant, at the moment of the write.
ResourceIsolation ==
    [][\A w \in Requests, i \in Ids :
          (pc[w] = "write" /\ pc'[w] = "idle" /\ rows'[i] # rows[i])
          => /\ actor[w].type # "user"
             /\ actor[w].type = "tenant_admin" =>
                   \A row \in {rows[i], rows'[i]} \ {None} :
                      row.tenant = actor[w].tenant]_vars

\* Without overlap, services receive the text that a client stored last: it
\* survives updates of other fields, restarts and the migration.
RoundTrip == \A i \in Ids : rows[i] # None => Revealed(rows[i].info) = Plain(last[i])

\* Without overlap the table of cipher texts implements the abstract store: no
\* request touches a second secret or brings back a deleted one.
Store == INSTANCE SecretStore WITH
    Values <- {Plain(t) : t \in Texts \cup {None}},
    secret <- [i \in Ids |-> IF rows[i] = None THEN None ELSE Revealed(rows[i].info)]
ImplementsStore == Store!Spec

\* system/README.md: PUT /api/resources/:id encrypts the password again; so an
\* edit that leaves the password alone keeps it.
FormKeepsSecret ==
    [][\A w \in Requests :
          (/\ Writing(w, "update") /\ req[w].form /\ pc'[w] = "idle"
           /\ rows[req[w].id] # None /\ rows'[req[w].id] # None)
          => Revealed(rows'[req[w].id].info) = Revealed(rows[req[w].id].info)]_vars
=============================================================================
