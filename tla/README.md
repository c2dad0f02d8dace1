# Verification of ADDP: TLA+ models, TLC runs and TLAPS proofs

ADDP (全域数据平台) is a set of Go services around one PostgreSQL database:
System keeps users, tenants and registered data resources, Meta scans the
resources into a catalogue, Manager lets users browse them, a gateway routes
HTTP to the three. The services have no tests; most of what can go wrong in
them happens between two SQL statements of two requests, which a test would
hardly reach. This directory models those parts in TLA+, checks them with TLC
on small instances, and proves the properties that matter for every instance
with TLAPS. Paths below are relative to the repository.

## 1. Inventory

| Component | State | Operations | Hard behaviour | What makes it correct |
|---|---|---|---|---|
| Meta scans of databases (`meta/backend/internal/service/scan_service_new.go`) | `meta_resource`, `meta_node`, `meta_item`, `scan_logs` | automatic and manual scan | one autocommitted statement at a time; scans overlap; statements fail; the process dies; the scanned database changes | one node per schema, items under the right node, a status and a count that are true, every scan ends |
| Meta scans of object storage (same file, `scanner/s3_scanner.go`) | the same tables, a tree of nodes | scan of buckets and of selected paths | keys folded into a tree, rows of a bucket deleted and written again, each scan in the other's way | objects and directories where their keys say, counts that are exact, a bucket that holds what was listed |
| Meta queries (`resource_service.go`, `api/router_new.go`) | none | listings | – | what is shown is what the tables hold |
| System accounts (`system/backend/internal/service/user_service.go`, `tenant_service.go`) | `users`, `tenants` | register, create, update, delete users; create, update, delete tenants; `InitSuperAdmin` | rows are read, checked and saved later from the snapshot; gorm `Save` inserts a row that is gone; restarts | one super administrator, fixed identities, tenants isolated |
| System resources (`resource_service.go`, `common/utils/encryption.go`) | `resources` with encrypted secrets | create, update, delete, list (masked), internal list (decrypted) | masked values come back in an edit; plain text of older rows | a secret survives every round trip and is never shown |
| Audit log (`middleware/logger.go`, `log_service.go`) | `audit_logs` | one INSERT after each request, in the goroutine of the request | its error is ignored | – |
| Configuration centre (`common/config/loader.go`, `system/backend/internal/api/config_handler.go`) | the configuration of each process, from its start to its end | one request to System at the start, fall back to the environment | order of starts, a late or lost answer, restarts with other keys | who has the shared configuration can read what System encrypts |
| Manager managed tables (`manager/backend/internal/repository/metadata_repository.go`, `service/metadata_service.go`) | `managed_tables` | scan, manage, unmanage | look-up and insert in two statements; details gathered by three queries before one UPDATE | a table is listed once, its flag and its details agree and are its own |
| Manager explorer and previews (same files, `service/object_preview.go`) | none | resource tree, pages of a table, content of an object, level of a bucket | several reads while scans and users write | every entry in its place and leading to itself; a page, a content and a level are what they claim |
| Gateway (`gateway/internal/router/router.go`) | none | routing by prefix | – | every path reaches its service |
| Transfer, front ends, portal | – | – | only a configuration loader; user interface | – |

Interactions: at its start, each service asks System for the shared
configuration; Meta and Manager fetch resources from System over its internal
API; System and Meta share the database but not tables; Manager reads the tables
Meta writes, and System's resources when System does not answer. Requests share
nothing but rows: every HTTP request is a goroutine of its own, and no service
holds a lock or, except for the creation and the deletion of a tenant, opens a
transaction.

## 2. Structure

| Part of the system | Modules | Composed with |
|---|---|---|
| scans of databases | `MetaScan` | – |
| accounts | `SystemAccounts` | – |
| resources | `ResourceVault`, abstract specification `SecretStore` | – |
| scans of buckets | `ObjectScan`, over the operators of `ObjectListing` | – |
| resource tree | `DataExplorer` | a reader of the tables of `ObjectScan` while it runs |
| configuration | `ConfigCenter` | – |
| managed tables | `ManagedTables` | needs a password, as `ConfigCenter` says Manager reads it |
| previews | `DataPreview` | with `ManagedTables`, `ConfigCenter`, and the levels of `ObjectListing` |

`MC….tla` instantiates a module, or the largest of a composition, for TLC;
`…Proofs.tla` holds the theorems. Modules with theorems use recursive functions,
never `RECURSIVE` operators.

Next, in this order: the list for a whole bucket or schema in the Manager
(`previewSchemaOrBucket`), and a refinement from `ObjectScan` to a table that maps
buckets to listings.

## 3. MetaScan

**Modules.** `MetaScan.tla` is the model, `MCMetaScan.tla` with
`MetaScan*.cfg` its instances, `MetaScanProofs.tla` the proofs: first about
overlapping scans, then about scans that do not overlap.

**State.** `metaRes`, `nodeKey`, `status`, `count`, `pathed`, `items` and
`scanLog` are the columns of the four tables that the scan of a database
writes; `source` is the scanned database and `versions` the history of its table
lists, `lost` the tables that failing statements made the last scan of a node
skip; the other variables are the local variables of each request's goroutine,
`pc` the statement it executes next.

**Actions.** One per SQL statement or scanner call: `AutoScanUnscanned` and
`ScanResource` (`BeginAuto`, `BeginManual`, `FetchResources`, `NextResource`),
`ensureMetaResourceRecord` (`EnsureRead`, `EnsureCreate`), `scanResource` and
`scanResourceSchemas` (`Connect`, `NextSchema`, `CheckNode`), `upsertNode`
(`UpsertRead`, `CreateNode`, `SetPath`), `scanDatabaseSchema` (`ResetNodeState`,
`DeleteItems`, `ScanTables`, `FinalizeUnscanned`, `NextTable`, `SkipTable`,
`InsertItem`, `UpdateItem`, `FinalizeScanned`) and the log row (`FinishSuccess`,
`FinishFailed`). `StatementFails` lets any of them fail and follows the error
path of the code (`ErrorTo`); `Crash` ends every goroutine; `SourceChange` is
DDL by the users of the scanned database.

**Runs.**

| Run | Specification | Shows |
|---|---|---|
| `metascan_serial` | `SerialSpec`, one schema | scans one after another, with a crash, two failures and DDL: `UniqueTopNode`, `CatalogConsistent`, `SnapshotExact`, `WorkingNodeShown`, `AutoLeavesScanned`. The code skips a table that fails and marks the node as scanned all the same: `SnapshotExact` says that those tables and no others are missing |
| `metascan_overlap` | `OverlapSpec`, two schemas | two overlapping scans with a crash: `ItemsNeedPath`, `NoForeignItems`, `OverlapConverges` (when both scans are over the catalogue is complete), and, under fairness, `RequestsEnd` and `ScanningEnds` |
| `metascan_duplicate` | `Spec` | violated: two overlapping scans create two nodes for one schema, because `UNIQUE (res_id, name, parent_node_id)` (`scripts/init-db.sql`) does not bind rows whose parent is NULL |

**Bounds.** Two requests suffice for every pairwise interleaving, and two in
sequence for a scan that meets what an earlier one left. One schema is enough
for questions about a single node, two where nodes could be confused; two tables
let a scan be half-way. `NodeIds` has as many ids as the requests can insert
rows. `MaxCrash`, `MaxFail` and `MaxDDL` bound crashes, failing statements and
DDL; the proofs lift all of them. Tables are symmetric in the safety runs.

The overlap run starts with two tables in one schema and none in the other
(`OverlapInit`): two tables on each side add states and no new case.

**Fairness.** `OverlapSpec` has `WF_vars(Step(w))` for each request: the Go
scheduler keeps running a runnable goroutine, and a database or scanner call
returns. Nothing is assumed of clients, crashes, failures or DDL. A node that a
crash left in the state "scanning" stays there, since no code repairs it;
`ScanningEnds` excuses those.

## 4. SystemAccounts

**Modules.** `SystemAccounts.tla`, `MCSystemAccounts.tla` with `Accounts*.cfg`,
`SystemAccountsProofs.tla`.

**State.** `users` and `tenants` are the tables; `birth` and `tborn` record which
ids the sequences handed out and to whom; `req`, `cur`, `tgt`, `ttgt` are a
request's fields and the snapshots it read of the caller, the target and the
tenant; `up` says whether the process runs.

**Actions.** `Begin…` per handler; `CheckUsername`, `ReadTarget`, `ReadActor`
(which evaluates `validateCreatePermission`, `validateUpdatePermission` or the
checks of `Delete` on the snapshots), `ReadTenant`, `CheckTenantName`, `LookupFails`: one
SELECT each, in the order of the code; the writes `RegisterUser`, `CreateUser`,
`SaveUser`, `DeleteUser`, `CreateTenant`, `SaveTenant`, `DeleteTenant`; `Refuse`
for every early return and failing statement. `Saved` is what gorm `Save` does:
an UPDATE of all columns, or, when that meets no row, an INSERT in which zero
values give way to column defaults. `Start` is `InitSuperAdmin`, `Crash` the end
of the process. A caller is any user that ever existed, because
`AuthMiddleware` only checks the token. Registration is taken to be enabled
(`AllowPublicRegistration`), which only adds behaviours.

**Runs.**

| Run | Specification | Shows |
|---|---|---|
| `accounts_overlap` | `Spec`, two goroutines, four requests, two tenants | `SuperAdminUnique`, `IdentityFixed`, `TenantIsolation`: decisions taken on snapshots that are stale at the write never cross these lines |
| `accounts_serial` | `SerialSpec`, five requests, every user type asked for | `UserTenantExists`, `AdminHasTenant`, `OrdinaryKeepsFlags`, `AdminsByTenantCreation` |
| `accounts_orphan` | `Spec` | violated: a user is created, or saved again, in a tenant that is being deleted, and outlives it |

**Bounds.** `UserIds` = {1, 2, 3} holds SuperAdmin, a tenant administrator and one
more user; `TenantIds` = {1, 2} a second tenant; `MaxRequests` = 4 lets a tenant
be created and two requests overlap around a third (the overlapping runs ask for
type `user` only, since any other is refused by `validateCreatePermission`, as
the serial run shows); 5 in sequence lets two tenants be populated and one be
deleted. A process that has used up its requests can still be restarted, so no
state is a deadlock.

## 5. ResourceVault

**Modules.** `SecretStore.tla` is the abstract specification, `ResourceVault.tla`
the model, `MCResourceVault.tla` with `Vault*.cfg` its instances,
`ResourceVaultProofs.tla` the proofs.

**State.** `rows` is the table `resources`, of which a row keeps its tenant,
`is_active` and one sensitive field of `connection_info`: a text, plain or
encrypted under a key, or nothing. `key` is the `ENCRYPTION_KEY` of the running
process. `owner`, `legacy` and `last` are history: the tenant of an id, what was
plain from the start, what a client stored last. `pc`, `req`, `actor` and `snap`
are the local variables of each request.

**Actions.** `BeginCreate`, `BeginUpdate` and `BeginDelete` are the handlers;
`BeginEdit` is the edit form of the front end, which sends the masked row back.
`ReadActor` and `ReadResource` are the two SELECTs with the checks that follow
them; `CreateResource`, `SaveResource` and `DeleteResource` the writes, where
`Save` inserts a row that is gone. `Refuse` is every early return or failing
statement. `Restart` ends the process and starts it, perhaps with another key;
`Migrate` is `scripts/migrate_encrypt_resources.go`. AES-GCM is ideal: a text
decrypts under its own key only. What the sender of a request is, is taken from
any row `SystemAccounts` allows, since accounts change independently.

**Runs.**

| Run | Specification | Shows |
|---|---|---|
| `vault_overlap` | `Spec`, two goroutines, three requests, two tenants | `SealedAtRest`, `OwnerFixed`, `ResourceIsolation` |
| `vault_serial` | `SerialSpec`, three requests, two resources, one key | `RoundTrip`, and `ImplementsStore`: the table refines `SecretStore` under `secret[i] <- decryptSensitiveFields(row i)` |
| `vault_form` | `SerialSpec` | violated: saving the edit form stores `******` as the password |

**Bounds.** One resource is enough for overlap, because no request touches two;
two tenants let a stranger appear; three requests let two overlap around a third,
such as a deletion between the read and the write of an update. Passwords,
tenants and goroutines are symmetric there. The serial run has two resources and
two passwords, so that secrets could be mixed up. With one key `Restart` only
drops requests: under a second one `RoundTrip` would fail, since
`decryptSensitiveFields` returns a text that does not decrypt as it is and no
code encrypts the rows again. `Restart` is always possible, so no state is a
deadlock.

## 6. ObjectListing, ObjectScan and DataExplorer

**Modules.** `ObjectListing.tla` has the operators on keys, `ObjectScan.tla` the
scans, `DataExplorer.tla` the reader; `MCDataExplorer.tla` with
`ObjectsExplorer.cfg` is the instance; `ObjectListingProofs.tla` and
`DataExplorerProofs.tla` hold the proofs.

**State.** `store` is the object store, `node` and `items` the two tables, `req`
the progress of each request (`scanObjectStoragePaths`, `persistObjectMetas`:
paths still to scan, directories and objects still to write, the chain of parent
ids, the aggregates), `view` what a reader of the tables holds between its
SELECTs. `listed` and `overlap` are history. A key is the sequence of its
segments; `ObjectListing` has the folding of keys into levels as operators, one
per program that does it: `ScanBucket` (the scan), `ListNodes` (the browser of
Meta), `ImmediateChildren` (the preview of Manager), `TreeLevel` (a level of what
a scan has written).

**Actions.** `BeginAuto`, `BeginManual` and `NextPath` drive a request;
`ScanPath` lists the store, with `StatObject` and listings that may fail;
`UpsertRead`, `UpsertCreate` and `UpsertUpdate` are `upsertNode`;
`ResetBucket`, `DeleteDescendants` and `DeleteBucketItems` clear the bucket;
`NextMeta`, `ItemRead`, `InsertItem` and `UpdateItem` write the rows;
`Finalize` sets status and counts. `StatementFails` follows the error path,
`Crash` ends all requests, `StoreChange` is the clients of the store. Parents are
deleted with ON DELETE CASCADE; the unique constraint holds for rows that have a
parent. In `DataExplorer`, `ReadTops`, `ReadNodes` and `ReadItems` are the three
SELECTs of `ListScannedNodesAndItems`; `ObjectPath`, `ItemsAt`, `NodesAt` and
`PreviewType` say what a click on an entry finds.

**Run.** `objects_explorer`: two requests, for a whole bucket or for one of its
directories, with one failure or crash and one change of the store, and a reader;
a second bucket may hold a directory of the same name.

| Property | Says |
|---|---|
| `ItemsInPlace`, `TreeSound` | with overlap: no object is filed under another directory; a path leads to one row |
| `CountsExact` | without overlap, after failures and crashes too: counts are those of the rows |
| `BucketExact` | undisturbed: a scanned bucket holds what was listed, no rest of an older scan |
| `ClickOpens` | an object that is shown leads to its own row and to no other; a directory to its own row and, in its bucket, to no row of another directory. Rows of other buckets with the same path are found too, and nothing is claimed of them |
| `TreeInPlace`, `TreeCounts` | what a reader builds from three SELECTs of different moments has every entry in its place; if no scan disturbs it, or left something behind, counts agree with what is shown |

**Bounds.** One object at the top and one in a directory make every kind of row;
six ids let two requests write all rows anew, since an id comes back only when
nothing refers to it. The run starts with a full bucket and a second one that is
empty or holds the same directory (`FullInit`), and reads the tree only while the
store has not changed (`ReaderBound`): a reader sees rows, and a change shows in
rows through a later scan, whose results the invariants check. For the same reason the tree is read
amid overlapping scans only as long as nothing failed, and scans overlap with a
fault or a change, not with both; the proofs have no such bound. What happens in one
bucket does not depend on another; only the look-up of a path sees both. So the
second bucket has objects and rows only in behaviours without overlap, faults and
changes, and an empty one is looked at last.

**A path is not unique.** `GetObjectMetadataNode`
(`metadata_repository.go:431-454`) gets the name of the bucket and uses it only for
the bucket itself: a directory is looked up by its path in any bucket of the
resource. If two buckets hold a directory of one name, `First` takes the row with
the lower id, and the preview of the one may show the size and the count of the
other (`object_preview.go:126-128`); the entries are listed from the right bucket.
In the run's instance with two buckets this happens, and `ClickOpens` is stated so
that it does not hide in it: it says what is found in the directory's own bucket.
Nor does it say more of a directory whose path begins with the name of its bucket,
because that name is then cut off as if it were the bucket.

## 7. ConfigCenter, ManagedTables and DataPreview

**State.** `sys` and `mod` are the processes of System, Manager and Meta with the
keys they hold, `row` the stored secret of a resource; `table` is
`managed_tables` (a row's `listed` stands for what the last listing told of the
table), `source` the tables of the resource with a version of their content; `call` the progress of each request of the Manager; `lines`, `object`
and `bucket` what previews are taken of.

**Actions.** `SystemStart` (`loadEncryptionKey`, a malformed key ends the
process), `ModuleStart`, `LoadConfig` and `LoadTimeout` (`LoadSharedConfig`, which
System answers if `InternalAPIMiddleware` admits it, else `LoadLocalConfig`),
stops at any time. `ManagerReads` and `MetaReads` are the passwords that
`getResource` with `decryptSensitiveFields`, and `GetResourceByID`, may come
up with. In `ManagedTables` every request begins with `Fetch`, which takes one of
`ManagerReads`: without the plain password it ends there. `ListTables`,
`LookUp`, `InsertRow`, `UpdateRow` are a scan; `ReadRow`, `ReadColumns`,
`CountRows`, `ReadSample`, `MarkManaged` the management of a table, `Unmanage` its
release; `CallFails` any error, `ManagerStop` the end of the process with all its
requests. In `DataPreview`, `CountLines` and `SelectLines` are
`QueryTablePreview`, `StatObject` and `GetObject` the preview of an object,
`ListLevel` that of a directory; `DataChange` may come between any two.

**Runs.**

| Run | Shows |
|---|---|
| `manager` | `ManagerOpens`, `MetaOpens`: who has the shared configuration can read passwords. `TableListedOnce` (scans that do not overlap). `ManagementKept` (any overlap): no step of a scan changes the flag or the details of a row, and whatever changes them leaves both or neither. `DetailsOwn` (any overlap). `PageExact`, `ShownWhole` (data that changes between two calls), `LevelsAgree` (the preview, the browser and a scan show the same) |
| `config_bootstrap` | violated, `CentreServes`: a service that has no INTERNAL_API_KEY is refused the configuration that `docs/CONFIG_CENTER.md:593` says brings it the key |

**Bounds.** Two requests at once and four in all allow a scan, a management and
a release to meet, and a scan to follow a disturbed one, three of them also when
the resource changes (`FourUnchanged`); three ids let a table be listed twice. Two tables, one whose unquoted name is the other, let details be
mixed up. Sizes from 0 to 4 lie below, at and above a limit of 1 and of 2; pages
0 to 3 of 1 or 2 rows and at most 3 rows shown reach the first, a cut, and an
empty page; keys have up to three levels. The product of all this is cut by `Bounds` in
`MCManager`, each part of which separates what the code does not connect:
services do not talk to each other (`ServicesApart`); no request reads two of the
four kinds of data (`DataApart`); a preview leaves nothing (`PreviewAlone`); every
combination of settings, starts and stops is looked at without requests
(`AllSettings`), and requests in the one setting where Manager has the shared
configuration or a key too short and System comes and goes (`OneSetting`). The
proofs have none of these bounds.

**Fairness.** None: no property of these modules is a liveness property. A
process that is not started serves nobody, and the code does not try again.

## 8. What is proved

All theorems hold for every value of the constants under their named
assumptions: ids are natural numbers, `None` (no row) and `Absent` differ from
all values they stand beside, bounds are natural numbers, and `Tables` is finite.

*Overlapping scans* (`MetaScanProofs`): `TypeCorrect`, `PathBeforeItems`,
`ItemsOfOwnSchema`. The properties are not inductive: whether an item may be
inserted depends on what the request learned several statements ago. `SafeInv`
adds `LocalOK`, the meaning of a request's variables at each control point (its
node is the row of its schema and has a path; the tables it still has to write
come from a recorded version), which survives other requests because rows of
`meta_node` never change their key and never lose their path.

Of overlapping scans in which nothing failed or changed, `OverlapsConverge` shows
that they complete the catalogue. `ConvergeInv` adds `NothingLost` to `SafeInv`: a
table that is missing from a node that is scanned, or being rewritten, is still
to be written by some request. The request that deletes the rows takes it upon
itself to write them all, so the invariant has to speak of all requests at once.

*Scans that do not overlap* (the same module): `SerialUnique`,
`SerialConsistent`, `SerialSnapshot`, `SerialShown`, `SerialAutoLeavesScanned`,
from `SerialInv` on top of `SafeInv`: at most one request is active, and what it
counted and has still to write is exactly what separates the rows of its node
from a complete table list, less the tables it had to skip (`lost`).

*Accounts* (`SystemAccountsProofs`): `AccountsTyped`, `OneSuperAdmin`,
`IdentitiesFixed`, `AdminsHaveTenants`, `TenantsIsolated`. The invariant
`AccountInv` says what of a snapshot cannot go stale: the name and the tenant of
the id (`SnapshotOK`, by `birth`), and, in every row and every snapshot
(`RowOK`), that the type is `super_admin` exactly for the name SuperAdmin, which
has no tenant, and that a tenant administrator has one. `RequestOK` carries the
permission check from the read to the write. From these, tenant isolation
follows at the moment of the write, not only at the moment of the check. Of
requests that do not overlap, `TenantsOfUsersExist`, `OrdinaryUsersKeepFlags` and
`AdminsOnlyByTenantCreation`: `SerialInv` adds that one request is active and that
what it has read is still in the tables, which is just what overlap takes away.

*Resources* (`ResourceVaultProofs`): `VaultTyped`, `SecretsSealed`, `OwnersFixed`,
`ResourcesIsolated`. None of the three safety properties is inductive, because
`Save` writes a snapshot over, or in place of, whatever the row has become.
`VaultInv` adds `SnapshotOK`: the tenant of the snapshot is still the tenant of
the id (the sequence never gives an id twice), the caller may access it, and its
secret may be stored. `MigrationWritesNothing` shows that the migration script
has no effect: its key (`dev-encryption-key-32-bytes!`) has 28 bytes, so every
`Encrypt` fails, although the script says that it encrypts the fields. The proofs assume that `MigrationKey` is none of the `Keys` System starts with: by
its length, System would refuse it. `SecretsRoundTrip` and the refinement
`VaultImplementsStore` are about `OneKeySpec`, requests that do not overlap under
one encryption key: restarts keep the key, as those of a deployment that is not
reconfigured do, and as the run has it. `VaultSerialInv` adds `RoundTrip` itself
and, for the one active request, that the row it has read is still there. Each
step then maps to an `Add`, a `Replace`, a `Drop` or a stutter of `SecretStore`.

*Levels of a bucket* (`ObjectListingProofs`): `BrowsersAgree`, `TreeAgrees`. For
every set of keys and every prefix, the three programs have the same entries,
if reserved names are at the first level only (for the tree: outside of them).
No induction: an entry of a level is a key that goes through it, in all three.

*Object scans and their reader* (`DataExplorerProofs`, over `ExplorerSpec`, with any
overlap): `TreeIsSound`, `ItemsStayInPlace`, `TreeStaysInPlace`, `ClicksOpen`. The
inductive invariant `ScanInv` has, beside types, the forest that `meta_node` is
(`Forest`: parents exist, siblings differ in name, and going up ends), what a
request knows of the nodes it holds (`Informed`: each is gone, or it is where the
entry in work puts it), the place of the items, and what a reader holds
(`ViewSound`). `Informed` survives other requests because a row never moves, and
because an id that a request holds is not given out again (`FreshIds`), as with a
BIGSERIAL. `OneRowPerBucket`, for scans that do not overlap, is what keeps the
tree from showing an object twice. The place of a row is a recursive function
of the rows above it. `TreeRecursion` shows, for any tree in which going up ends,
that the function exists, by the least element of the set of heights at which it
might not; `SegmentsExist`, `IdPathExists` and `ShownExists` are its instances, and
say once that the three functions satisfy their definitions. The same least
element serves as induction in the few places where one is needed. `ClicksOpen`
assumes `KeysApart`, that no key is the name of a bucket with another key below
it. Otherwise a path with the bucket and a path without it may be equal, and
`GetObjectMetadataItem`, which accepts both, may find two objects. For directories
it rests on `OneRowPerBucket` and on `SegmentsDiffer`: without overlap, rows with
the same segments are one row.

*Counts of scans that do not overlap* (`DataExplorerProofs`): `CountsAreExact`, with
any failures, crashes, lost listings and changes of the store. It assumes
`SelectedOnce`: no two paths of one selection give two objects of a bucket one
name (`Rels`). Otherwise the second path finds the row of the first
(`updateitem`) and counts it again: there the count of the code is wrong, which is
why `CountsExact` speaks of requests that select each object once. The run's
selections satisfy the hypothesis, since each has one path per bucket.
`CountsExact` is not inductive: a count is written long after the rows it counts.
`CountInv` says what ties them. Only rows whose path is written have anything
below them (`Written`, `HeldWritten`), so that clearing a bucket, which goes by
the path column, misses nothing (`Clearing`). From then on, the statistics of the
request are the cardinalities of the rows below each node (`Tally`); its chain is
the whole way up from where it writes (`Chained`); and nothing it has still to
list (`Ahead`) or to write (`Queued`) is there already, so every INSERT adds one.

*Scans that neither overlap nor are disturbed* (`DataExplorerProofs`):
`TreeCountsRight`, again under `SelectedOnce`, and `BucketsAreExact`, under
`SimpleSelections`, which implies it: a selection has at most one path in a
bucket, and a selected path that is the key of an object is no marker and has no
key below it. The last clause is needed, because `ScanPath` answers for such a
path with the object alone and leaves out what is below it; the run's selections
satisfy all of it. `WorkInv` adds to `CountInv` that a request finds the rows it
needs (`Standing`), so that no statement is refused; that every row which is not
scanned is one that the request has still to finalize (`Final`); that the keys
stored since the bucket was cleared, with those still to write, are the keys
found (`Loaded`); and that the other buckets stay as they were (`Others`). When no
request is left, all rows are scanned and each bucket holds what a path had
(`Settled`). `TopsNamed`, that the rows without a parent are buckets of the
store, is what carries this to every such row. For the tree, `AllShown` says that
the reader then shows all rows, `AboveByName` that one row is above another just
when its segments come first, and `EntriesBelow` matches entries with items.

*Manager* (`ConfigCenterProofs`, `ManagedTablesProofs`, `DataPreviewProofs`):
`PasswordsOpen`, `NoMaskForMeta`, `ListedOnce`, `ScansKeepManagement`,
`ManagedHasDetails`, `DetailsOfOneTable`, `PagesExact`, `ContentWhole`, `PreviewsAgree`, about the
composition of the three modules. The inductive invariant `Inv` has a part per
module. `ConfigInv`: a process with the shared configuration has the keys of the
start of System it names, as long as that start is the last. `TablesInv`: what a
request has gathered at each control point is about its own row and table, and,
without overlap, the rows it found missing are missing still. It has the agreement
of flag and details (`DetailsIffManaged`) as a part: a scan's UPDATE names its
columns and an INSERT meets a free id, so a row's flag and details change by
management and release only, which write all of them. `PreviewOK`: the
window is that of the number counted, the size that of an earlier moment. The
properties follow from arithmetic on windows and sizes, and from `BrowsersAgree`
and `TreeAgrees`.

*Only model-checked*: `RequestsEnd` and `ScanningEnds` (liveness under fairness, which
is out of the prover's reach). All other properties of the passing runs are
stated by a theorem, some under the hypotheses named above.

## 9. What is not modelled

- The audit log is one INSERT after each request whose error is ignored; nothing
  reads it but a listing. The queries of Meta are single SELECTs. The gateway is a
  table of prefixes and a reverse proxy, without state. (It has no entry for
  `/api/data-explorer`, `/api/tables` and `/api/tenants`, which clients reach at
  the services themselves.) The transfer service is a configuration loader, the
  front ends have no state that two actors share.
- In the Manager: the entries shown for a whole schema or bucket
  (`previewSchemaOrBucket`), the tree of database resources, and the decoding of
  files. `row_count`, which a release leaves, ages; columns, count and sample of
  a table are read in three statements and may be of different moments;
  `resource_type` must be inside `connection_info` for a scan, and the model has
  resources with it and without; of a table name with a dot only the last part
  is used; a directory is looked up by its path without its bucket; an empty image
  is reported as too large. No document promises otherwise, and no property says
  more.
- Read-only requests, e-mail, passwords and names shown to people, field lists,
  sizes and timestamps. Sensitive fields are strings, and a resource whose tenant
  is deleted stays.
- A statement that reports an error is taken to have had no effect.
  PostgreSQL's isolation inside the two transactions of `tenant_service.go` is
  taken as atomic. The order of rows without ORDER BY is taken as stable.
- A fall-back to the local configuration with a reachable database of another
  installation (System reads `POSTGRES_*`, the other services `DB_*`).
