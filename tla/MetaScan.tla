------------------------------- MODULE MetaScan -------------------------------
(***************************************************************************)
(* The database-scanning half of the Meta service                          *)
(* (meta/backend/internal/service/scan_service_new.go): HTTP requests that *)
(* read the schemas and tables of a registered database and write them to  *)
(* meta_resource, meta_node, meta_item and scan_logs.                      *)
(*                                                                         *)
(* Every request runs in its own goroutine and issues one autocommitted    *)
(* SQL statement at a time: no transaction and no lock spans two of them.  *)
(* One action below is one such statement (a read whose result is used     *)
(* later is a step of its own), so requests interleave between statements, *)
(* any statement may fail, and the process may die between any two.        *)
(*                                                                         *)
(* Abstractions: one tenant; a resource's name, engine and config, field   *)
(* lists, sizes and timestamps are left out; the schema names of a request *)
(* are a set, taken in any order; a statement that reports an error had no *)
(* effect.                                                                 *)
(***************************************************************************)
EXTENDS Naturals, FiniteSets

CONSTANTS
    Requests,   \* the scan requests of a behaviour, each handled once
    Resources,  \* registered databases
    Schemas,    \* schema names
    Tables,     \* table names
    NodeIds,    \* ids that the meta_node BIGSERIAL column can hand out
    Absent,     \* source value of a schema that does not exist
    None,       \* "no row" / "not set"
    MaxCrash,   \* bound on process crashes
    MaxFail,    \* bound on failing statements
    MaxDDL      \* bound on changes of the scanned databases

ASSUME ConstantsAssumption ==
    /\ NodeIds \subseteq Nat
    /\ IsFiniteSet(Tables)
    /\ \A ts \in SUBSET Tables : ts # Absent
    /\ None \notin NodeIds /\ None \notin Resources \X Schemas
    /\ None \notin Resources /\ None \notin Schemas /\ None \notin Tables
    /\ MaxCrash \in Nat /\ MaxFail \in Nat /\ MaxDDL \in Nat

VARIABLES
    \* the database of the Meta service
    metaRes,    \* resources that have a meta_resource row
    nodeKey,    \* meta_node: id -> <<resource, schema name>>, or None: no row
    status,     \* meta_node.scan_status
    count,      \* meta_node.item_count
    pathed,     \* ids whose path and full_name columns are filled in
    items,      \* meta_item: names of the table rows with node_id = id
    scanLog,    \* scan_logs.status of the request's log row
    \* the scanned databases, outside the service
    source,     \* resource -> schema -> its tables, or Absent
    versions,   \* history: every table list that a schema ever had
    lost,       \* history: tables that a failure left out of a node's last scan
    \* the request goroutines
    pc, kind, resTodo, res, todo, schema, node, tabs, tab, cnt,
    \* how much of each bound is used up
    crashes, fails, ddls

dbVars == <<metaRes, nodeKey, status, count, pathed, items, scanLog>>
envVars == <<source, versions, lost, ddls>>
reqVars == <<kind, resTodo, res, todo, schema, node, tabs, tab, cnt>>
vars == <<dbVars, envVars, pc, reqVars, crashes, fails>>

\* The three values of meta_node.scan_status.
Unscanned == "unscanned"
Scanning == "scanning"
Scanned == "scanned"

\* Control points of a request: the statement it executes next.
SchemaPCs == {"upsert", "create", "path", "reset", "delete", "tables",
              "unscanned", "table", "insert", "update", "finalize"}
ActivePCs == {"fetch", "nextres", "ensure", "ensurecreate", "connect",
              "schema", "check", "finish", "logfail"} \cup SchemaPCs
PCs == {"idle", "done", "dead"} \cup ActivePCs

Active(w) == pc[w] \in ActivePCs

TypeOK ==
    /\ metaRes \in SUBSET Resources
    /\ nodeKey \in [NodeIds -> (Resources \X Schemas) \cup {None}]
    /\ status \in [NodeIds -> {Unscanned, Scanning, Scanned}]
    /\ count \in [NodeIds -> Nat]
    /\ pathed \in SUBSET NodeIds
    /\ items \in [NodeIds -> SUBSET Tables]
    /\ scanLog \in [Requests -> {None, "running", "success", "failed"}]
    /\ source \in [Resources -> [Schemas -> {Absent} \cup SUBSET Tables]]
    /\ versions \in [Resources -> [Schemas -> SUBSET SUBSET Tables]]
    /\ lost \in [NodeIds -> SUBSET Tables]
    /\ pc \in [Requests -> PCs]
    /\ kind \in [Requests -> {None, "auto", "manual"}]
    /\ resTodo \in [Requests -> SUBSET Resources]
    /\ res \in [Requests -> Resources \cup {None}]
    /\ todo \in [Requests -> SUBSET Schemas]
    /\ schema \in [Requests -> Schemas \cup {None}]
    /\ node \in [Requests -> NodeIds \cup {None}]
    /\ tabs \in [Requests -> SUBSET Tables]
    /\ tab \in [Requests -> Tables \cup {None}]
    /\ cnt \in [Requests -> Nat]
    /\ crashes \in 0..MaxCrash /\ fails \in 0..MaxFail /\ ddls \in 0..MaxDDL

-----------------------------------------------------------------------------
(* The scanned databases, as the Scanner interface shows them. *)

\* ListSchemas
SchemasOf(r) == {s \in Schemas : source[r][s] # Absent}

\* ScanTables: a schema that does not exist has no tables, which is no error.
TablesOf(r, s) == IF source[r][s] = Absent THEN {} ELSE source[r][s]

Init ==
    /\ metaRes = {}
    /\ nodeKey = [n \in NodeIds |-> None]
    /\ status = [n \in NodeIds |-> Unscanned]
    /\ count = [n \in NodeIds |-> 0]
    /\ pathed = {}
    /\ items = [n \in NodeIds |-> {}]
    /\ scanLog = [w \in Requests |-> None]
    /\ source \in [Resources -> [Schemas -> {Absent} \cup SUBSET Tables]]
    /\ versions = [r \in Resources |-> [s \in Schemas |-> {TablesOf(r, s)}]]
    /\ lost = [n \in NodeIds |-> {}]
    /\ pc = [w \in Requests |-> "idle"]
    /\ kind = [w \in Requests |-> None]
    /\ resTodo = [w \in Requests |-> {}]
    /\ res = [w \in Requests |-> None]
    /\ todo = [w \in Requests |-> {}]
    /\ schema = [w \in Requests |-> None]
    /\ node = [w \in Requests |-> None]
    /\ tabs = [w \in Requests |-> {}]
    /\ tab = [w \in Requests |-> None]
    /\ cnt = [w \in Requests |-> 0]
    /\ crashes = 0 /\ fails = 0 /\ ddls = 0

\* Somebody runs DDL on a scanned database: a schema appears, disappears or
\* has other tables.
SourceChange(r, s) ==
    /\ ddls < MaxDDL
    /\ \E new \in {Absent} \cup SUBSET Tables :
          /\ new # source[r][s]
          /\ source' = [source EXCEPT ![r][s] = new]
          /\ versions' = [versions EXCEPT ![r][s] =
                            @ \cup {IF new = Absent THEN {} ELSE new}]
    /\ ddls' = ddls + 1
    /\ UNCHANGED <<dbVars, lost, pc, reqVars, crashes, fails>>

-----------------------------------------------------------------------------
(* Requests *)

\* Moves request w to control point p.
Goto(w, p) == pc' = [pc EXCEPT ![w] = p]

\* POST /scan/auto: AutoScanUnscanned creates its log row first.
BeginAuto(w) ==
    /\ pc[w] = "idle"
    /\ kind' = [kind EXCEPT ![w] = "auto"]
    /\ scanLog' = [scanLog EXCEPT ![w] = "running"]
    /\ Goto(w, "fetch")
    /\ UNCHANGED <<metaRes, nodeKey, status, count, pathed, items, envVars,
                   resTodo, res, todo, schema, node, tabs, tab, cnt, crashes, fails>>

\* POST /scan/resource: ScanResource looks the resource up, then creates its
\* log row. An empty set of names stands for "all schemas".
BeginManual(w) ==
    /\ pc[w] = "idle"
    /\ \E r \in Resources, names \in SUBSET Schemas :
          /\ res' = [res EXCEPT ![w] = r]
          /\ todo' = [todo EXCEPT ![w] = names]
    /\ kind' = [kind EXCEPT ![w] = "manual"]
    /\ scanLog' = [scanLog EXCEPT ![w] = "running"]
    /\ Goto(w, "ensure")
    /\ UNCHANGED <<metaRes, nodeKey, status, count, pathed, items, envVars,
                   resTodo, schema, node, tabs, tab, cnt, crashes, fails>>

\* GetResourcesByTenant: the active resources of the tenant, from System.
FetchResources(w) ==
    /\ pc[w] = "fetch"
    /\ \E rs \in SUBSET Resources : resTodo' = [resTodo EXCEPT ![w] = rs]
    /\ Goto(w, "nextres")
    /\ UNCHANGED <<dbVars, envVars, kind, res, todo, schema, node, tabs, tab,
                   cnt, crashes, fails>>

\* The loop over the resources of an automatic scan.
NextResource(w) ==
    /\ pc[w] = "nextres"
    /\ \/ /\ resTodo[w] = {}
          /\ Goto(w, "finish")
          /\ UNCHANGED <<resTodo, res, todo>>
       \/ \E r \in resTodo[w] :
             /\ resTodo' = [resTodo EXCEPT ![w] = @ \ {r}]
             /\ res' = [res EXCEPT ![w] = r]
             /\ todo' = [todo EXCEPT ![w] = {}]
             /\ Goto(w, "ensure")
    /\ UNCHANGED <<dbVars, envVars, kind, schema, node, tabs, tab, cnt,
                   crashes, fails>>

\* What an error outside the loop over the schemas leads to: an automatic scan
\* goes on with its next resource, a manual one marks its log row as failed.
AbortTo(w) == IF kind[w] = "auto" THEN "nextres" ELSE "logfail"

\* ensureMetaResourceRecord, its SELECT ...
EnsureRead(w) ==
    /\ pc[w] = "ensure"
    /\ Goto(w, IF res[w] \in metaRes THEN "connect" ELSE "ensurecreate")
    /\ UNCHANGED <<dbVars, envVars, reqVars, crashes, fails>>

\* ... and its INSERT, which UNIQUE (tenant_id, resource_id) refuses when
\* another request inserted the row in between.
EnsureCreate(w) ==
    /\ pc[w] = "ensurecreate"
    /\ \/ /\ res[w] \in metaRes
          /\ Goto(w, AbortTo(w))
          /\ UNCHANGED metaRes
       \/ /\ res[w] \notin metaRes
          /\ metaRes' = metaRes \cup {res[w]}
          /\ Goto(w, "connect")
    /\ UNCHANGED <<nodeKey, status, count, pathed, items, scanLog, envVars,
                   reqVars, crashes, fails>>

\* NewScanner, and ListSchemas unless the request names its schemas.
Connect(w) ==
    /\ pc[w] = "connect"
    /\ todo' = [todo EXCEPT ![w] = IF @ = {} THEN SchemasOf(res[w]) ELSE @]
    /\ Goto(w, "schema")
    /\ UNCHANGED <<dbVars, envVars, kind, resTodo, res, schema, node, tabs, tab,
                   cnt, crashes, fails>>

\* The loops over the schemas, in scanResource and in scanResourceSchemas.
NextSchema(w) ==
    /\ pc[w] = "schema"
    /\ \/ /\ todo[w] = {}
          /\ Goto(w, IF kind[w] = "auto" THEN "nextres" ELSE "finish")
          /\ UNCHANGED <<todo, schema>>
       \/ \E s \in todo[w] :
             /\ todo' = [todo EXCEPT ![w] = @ \ {s}]
             /\ schema' = [schema EXCEPT ![w] = s]
             /\ Goto(w, IF kind[w] = "auto" THEN "check" ELSE "upsert")
    /\ UNCHANGED <<dbVars, envVars, kind, resTodo, res, node, tabs, tab, cnt,
                   crashes, fails>>

\* The top-level nodes that request w's queries by name select.
Matching(w) == {n \in NodeIds : nodeKey[n] = <<res[w], schema[w]>>}

\* Mutant of CheckNode: the result of the look-up is ignored.
CheckNodeIgnored(w) ==
    /\ pc[w] = "check"
    /\ Goto(w, "upsert")
    /\ UNCHANGED <<dbVars, envVars, reqVars, crashes, fails>>

\* scanResource scans a schema only when it has no node yet.
CheckNode(w) ==
    /\ pc[w] = "check"
    /\ Goto(w, IF Matching(w) = {} THEN "upsert" ELSE "schema")
    /\ UNCHANGED <<dbVars, envVars, reqVars, crashes, fails>>

\* Mutant of UpsertRead: every scan creates a node.
UpsertReadNever(w) ==
    /\ pc[w] = "upsert"
    /\ Goto(w, "create")
    /\ UNCHANGED <<dbVars, envVars, reqVars, crashes, fails>>

\* Mutant of UpsertRead: an existing row is taken as it is, without a repair.
UpsertReadNoRepair(w) ==
    /\ pc[w] = "upsert"
    /\ \/ Matching(w) = {} /\ Goto(w, "create") /\ UNCHANGED node
       \/ \E n \in Matching(w) :
             /\ \A m \in Matching(w) : n <= m
             /\ node' = [node EXCEPT ![w] = n]
             /\ Goto(w, "reset")
    /\ UNCHANGED <<dbVars, envVars, kind, resTodo, res, todo, schema, tabs, tab,
                   cnt, crashes, fails>>

\* Mutant of UpsertRead: the query does not restrict the name.
UpsertReadAnyName(w) ==
    /\ pc[w] = "upsert"
    /\ LET found == {n \in NodeIds : nodeKey[n] # None}
       IN  \/ found = {} /\ Goto(w, "create") /\ UNCHANGED node
           \/ \E n \in found :
                 /\ \A m \in found : n <= m
                 /\ node' = [node EXCEPT ![w] = n]
                 /\ Goto(w, IF n \in pathed THEN "reset" ELSE "path")
    /\ UNCHANGED <<dbVars, envVars, kind, resTodo, res, todo, schema, tabs, tab,
                   cnt, crashes, fails>>

\* upsertNode, its SELECT: First takes the row with the least id. A row whose
\* path is missing is repaired by an UPDATE.
UpsertRead(w) ==
    /\ pc[w] = "upsert"
    /\ \/ /\ Matching(w) = {}
          /\ Goto(w, "create")
          /\ UNCHANGED node
       \/ \E n \in Matching(w) :
             /\ \A m \in Matching(w) : n <= m
             /\ node' = [node EXCEPT ![w] = n]
             /\ Goto(w, IF n \in pathed THEN "reset" ELSE "path")
    /\ UNCHANGED <<dbVars, envVars, kind, resTodo, res, todo, schema, tabs, tab,
                   cnt, crashes, fails>>

\* Mutant of CreateNode: the row is inserted but its id is not read back.
CreateNodeNoId(w) ==
    /\ pc[w] = "create"
    /\ \E n \in NodeIds :
          /\ nodeKey[n] = None
          /\ nodeKey' = [nodeKey EXCEPT ![n] = <<res[w], schema[w]>>]
    /\ Goto(w, "path")
    /\ UNCHANGED <<metaRes, status, count, pathed, items, scanLog, envVars,
                   reqVars, crashes, fails>>

\* The next value of the meta_node id sequence.
FreshId(n) ==
    /\ nodeKey[n] = None
    /\ \A m \in NodeIds : (m < n) = (nodeKey[m] # None)

\* upsertNode, its INSERT. UNIQUE (res_id, name, parent_node_id) accepts every
\* top-level row, because their parent_node_id is NULL and NULLs are distinct.
CreateNode(w) ==
    /\ pc[w] = "create"
    /\ \E n \in NodeIds :
          /\ FreshId(n)
          /\ nodeKey' = [nodeKey EXCEPT ![n] = <<res[w], schema[w]>>]
          /\ node' = [node EXCEPT ![w] = n]
    /\ Goto(w, "path")
    /\ UNCHANGED <<metaRes, status, count, pathed, items, scanLog, envVars,
                   kind, resTodo, res, todo, schema, tabs, tab, cnt, crashes, fails>>

\* upsertNode, the UPDATE of path and full_name.
SetPath(w) ==
    /\ pc[w] = "path"
    /\ pathed' = pathed \cup {node[w]}
    /\ Goto(w, "reset")
    /\ UNCHANGED <<metaRes, nodeKey, status, count, items, scanLog, envVars,
                   reqVars, crashes, fails>>

\* Mutant of ResetNodeState: the node keeps its status during the scan.
ResetNodeStateNoop(w) ==
    /\ pc[w] = "reset"
    /\ Goto(w, "delete")
    /\ UNCHANGED <<dbVars, envVars, reqVars, crashes, fails>>

\* resetNodeState
ResetNodeState(w) ==
    /\ pc[w] = "reset"
    /\ status' = [status EXCEPT ![node[w]] = Scanning]
    /\ Goto(w, "delete")
    /\ UNCHANGED <<metaRes, nodeKey, count, pathed, items, scanLog, envVars,
                   reqVars, crashes, fails>>

\* Mutant of DeleteItems: only the rows of a node that counts any are deleted.
DeleteItemsCounted(w) ==
    /\ pc[w] = "delete"
    /\ items' = [items EXCEPT ![node[w]] = IF count[node[w]] > 0 THEN {} ELSE @]
    /\ lost' = [lost EXCEPT ![node[w]] = {}]
    /\ Goto(w, "tables")
    /\ UNCHANGED <<metaRes, nodeKey, status, count, pathed, scanLog, source,
                   versions, ddls, reqVars, crashes, fails>>

\* hardDeleteItemsByNode
DeleteItems(w) ==
    /\ pc[w] = "delete"
    /\ items' = [items EXCEPT ![node[w]] = {}]
    /\ lost' = [lost EXCEPT ![node[w]] = {}]
    /\ Goto(w, "tables")
    /\ UNCHANGED <<metaRes, nodeKey, status, count, pathed, scanLog, source,
                   versions, ddls, reqVars, crashes, fails>>

\* ScanTables succeeds.
ScanTables(w) ==
    /\ pc[w] = "tables"
    /\ tabs' = [tabs EXCEPT ![w] = TablesOf(res[w], schema[w])]
    /\ cnt' = [cnt EXCEPT ![w] = 0]
    /\ Goto(w, "table")
    /\ UNCHANGED <<dbVars, envVars, kind, resTodo, res, todo, schema, node, tab,
                   crashes, fails>>

\* finalizeNodeState after ScanTables failed; its own error is ignored.
FinalizeUnscanned(w) ==
    /\ pc[w] = "unscanned"
    /\ status' = [status EXCEPT ![node[w]] = Unscanned]
    /\ count' = [count EXCEPT ![node[w]] = 0]
    /\ Goto(w, "schema")
    /\ UNCHANGED <<metaRes, nodeKey, pathed, items, scanLog, envVars, reqVars,
                   crashes, fails>>

\* Mutant of NextTable: a table that has its row already ends the loop.
NextTableBreak(w) ==
    /\ pc[w] = "table"
    /\ \/ tabs[w] = {} /\ Goto(w, "finalize") /\ UNCHANGED <<tabs, tab>>
       \/ \E t \in tabs[w] :
             /\ tabs' = [tabs EXCEPT ![w] = @ \ {t}]
             /\ tab' = [tab EXCEPT ![w] = t]
             /\ Goto(w, IF t \in items[node[w]] THEN "finalize" ELSE "insert")
    /\ UNCHANGED <<dbVars, envVars, kind, resTodo, res, todo, schema, node, cnt,
                   crashes, fails>>

\* The loop over the tables: ScanFields, then the SELECT of upsertItem.
NextTable(w) ==
    /\ pc[w] = "table"
    /\ \/ /\ tabs[w] = {}
          /\ Goto(w, "finalize")
          /\ UNCHANGED <<tabs, tab>>
       \/ \E t \in tabs[w] :
             /\ tabs' = [tabs EXCEPT ![w] = @ \ {t}]
             /\ tab' = [tab EXCEPT ![w] = t]
             /\ Goto(w, IF t \in items[node[w]] THEN "update" ELSE "insert")
    /\ UNCHANGED <<dbVars, envVars, kind, resTodo, res, todo, schema, node, cnt,
                   crashes, fails>>

\* Mutant of SkipTable: the failure of one table ends the loop.
SkipTableBreak(w) ==
    /\ pc[w] = "table"
    /\ fails < MaxFail
    /\ \E t \in tabs[w] :
          /\ tabs' = [tabs EXCEPT ![w] = {}]
          /\ lost' = [lost EXCEPT ![node[w]] = @ \cup {t}]
    /\ fails' = fails + 1
    /\ UNCHANGED <<dbVars, source, versions, ddls, pc, kind, resTodo, res, todo,
                   schema, node, tab, cnt, crashes>>

\* ScanFields or the SELECT of upsertItem fails: the table is skipped.
SkipTable(w) ==
    /\ pc[w] = "table"
    /\ fails < MaxFail
    /\ \E t \in tabs[w] :
          /\ tabs' = [tabs EXCEPT ![w] = @ \ {t}]
          /\ lost' = [lost EXCEPT ![node[w]] = @ \cup {t}]
    /\ fails' = fails + 1
    /\ UNCHANGED <<dbVars, source, versions, ddls, pc, kind, resTodo, res, todo,
                   schema, node, tab, cnt, crashes>>

\* Mutant of InsertItem: a refused INSERT is tried again.
InsertItemRetry(w) ==
    /\ pc[w] = "insert"
    /\ \/ tab[w] \in items[node[w]] /\ UNCHANGED <<items, cnt, pc>>
       \/ /\ tab[w] \notin items[node[w]]
          /\ items' = [items EXCEPT ![node[w]] = @ \cup {tab[w]}]
          /\ cnt' = [cnt EXCEPT ![w] = @ + 1]
          /\ Goto(w, "table")
    /\ UNCHANGED <<metaRes, nodeKey, status, count, pathed, scanLog, envVars,
                   kind, resTodo, res, todo, schema, node, tabs, tab, crashes, fails>>

\* upsertItem, its INSERT: UNIQUE (node_id, name) refuses a row that another
\* request inserted in between, and the table is then not counted.
InsertItem(w) ==
    /\ pc[w] = "insert"
    /\ \/ /\ tab[w] \in items[node[w]]
          /\ UNCHANGED <<items, cnt>>
       \/ /\ tab[w] \notin items[node[w]]
          /\ items' = [items EXCEPT ![node[w]] = @ \cup {tab[w]}]
          /\ cnt' = [cnt EXCEPT ![w] = @ + 1]
    /\ Goto(w, "table")
    /\ UNCHANGED <<metaRes, nodeKey, status, count, pathed, scanLog, envVars,
                   kind, resTodo, res, todo, schema, node, tabs, tab, crashes, fails>>

\* upsertItem, its UPDATE by id: no error when the row is gone meanwhile.
UpdateItem(w) ==
    /\ pc[w] = "update"
    /\ cnt' = [cnt EXCEPT ![w] = @ + 1]
    /\ Goto(w, "table")
    /\ UNCHANGED <<dbVars, envVars, kind, resTodo, res, todo, schema, node, tabs,
                   tab, crashes, fails>>

\* Mutant of FinalizeScanned: a schema without tables is not finalized.
FinalizeScannedNonEmpty(w) ==
    /\ pc[w] = "finalize"
    /\ status' = [status EXCEPT ![node[w]] = IF cnt[w] > 0 THEN Scanned ELSE @]
    /\ count' = [count EXCEPT ![node[w]] = cnt[w]]
    /\ Goto(w, "schema")
    /\ UNCHANGED <<metaRes, nodeKey, pathed, items, scanLog, envVars, reqVars,
                   crashes, fails>>

\* finalizeNodeState at the end of scanDatabaseSchema
FinalizeScanned(w) ==
    /\ pc[w] = "finalize"
    /\ status' = [status EXCEPT ![node[w]] = Scanned]
    /\ count' = [count EXCEPT ![node[w]] = cnt[w]]
    /\ Goto(w, "schema")
    /\ UNCHANGED <<metaRes, nodeKey, pathed, items, scanLog, envVars, reqVars,
                   crashes, fails>>

\* The log row of a request that ran to its end is saved as a success,
\* whatever happened to single schemas.
FinishSuccess(w) ==
    /\ pc[w] = "finish"
    /\ scanLog' = [scanLog EXCEPT ![w] = "success"]
    /\ Goto(w, "done")
    /\ UNCHANGED <<metaRes, nodeKey, status, count, pathed, items, envVars,
                   reqVars, crashes, fails>>

\* updateScanLogFailed
FinishFailed(w) ==
    /\ pc[w] = "logfail"
    /\ scanLog' = [scanLog EXCEPT ![w] = "failed"]
    /\ Goto(w, "done")
    /\ UNCHANGED <<metaRes, nodeKey, status, count, pathed, items, envVars,
                   reqVars, crashes, fails>>

\* Where the error of a failing statement takes request w.
ErrorTo(w) ==
    CASE pc[w] = "fetch" -> "logfail"
      [] pc[w] \in {"ensure", "ensurecreate", "connect"} -> AbortTo(w)
      [] pc[w] \in {"check", "upsert", "create", "path", "reset", "delete",
                    "unscanned", "finalize"} -> "schema"
      [] pc[w] = "tables" -> "unscanned"
      [] pc[w] \in {"insert", "update"} -> "table"
      [] OTHER -> "done"

\* A statement, a call to System or a call of the scanner fails. The error of
\* saving a log row is ignored: the request ends and its row stays "running".
\* A table whose row cannot be written is left out of the node.
StatementFails(w) ==
    /\ pc[w] \in ActivePCs \ {"nextres", "schema", "table"}
    /\ fails < MaxFail
    /\ fails' = fails + 1
    /\ Goto(w, ErrorTo(w))
    /\ lost' = IF pc[w] \in {"insert", "update"}
               THEN [lost EXCEPT ![node[w]] = @ \cup {tab[w]}]
               ELSE lost
    /\ UNCHANGED <<dbVars, source, versions, ddls, reqVars, crashes>>

\* The Meta process dies and is restarted: every request in progress is lost,
\* and nothing in the start-up code repairs what it left behind.
Crash ==
    /\ crashes < MaxCrash
    /\ \E w \in Requests : Active(w)
    /\ crashes' = crashes + 1
    /\ pc' = [w \in Requests |-> IF Active(w) THEN "dead" ELSE pc[w]]
    /\ UNCHANGED <<dbVars, envVars, reqVars, fails>>

Begin(w) == BeginAuto(w) \/ BeginManual(w)

\* A step of the goroutine of a request in progress.
Step(w) ==
    \/ FetchResources(w) \/ NextResource(w) \/ EnsureRead(w) \/ EnsureCreate(w)
    \/ Connect(w) \/ NextSchema(w) \/ CheckNode(w) \/ UpsertRead(w)
    \/ CreateNode(w) \/ SetPath(w) \/ ResetNodeState(w) \/ DeleteItems(w)
    \/ ScanTables(w) \/ FinalizeUnscanned(w) \/ NextTable(w) \/ InsertItem(w)
    \/ UpdateItem(w) \/ FinalizeScanned(w) \/ FinishSuccess(w) \/ FinishFailed(w)

\* Steps that are not a request's own progress.
Environment ==
    \/ \E w \in Requests : SkipTable(w) \/ StatementFails(w)
    \/ \E r \in Resources, s \in Schemas : SourceChange(r, s)
    \/ Crash

\* All requests are over: the service is idle.
Idle == (\A w \in Requests : pc[w] \in {"done", "dead"}) /\ UNCHANGED vars

Next == (\E w \in Requests : Begin(w) \/ Step(w)) \/ Environment \/ Idle

\* The code as it is: requests overlap freely.
Spec == Init /\ [][Next]_vars

\* The schedules in which a request starts only when no other one is running:
\* a client that waits for its response, or the lock meta/DESIGN.md asks for.
SerialNext ==
    \/ \E w \in Requests : Begin(w) /\ \A v \in Requests : ~Active(v)
    \/ \E w \in Requests : Step(w)
    \/ Environment
    \/ Idle

SerialSpec == Init /\ [][SerialNext]_vars

-----------------------------------------------------------------------------
(* Properties *)

\* The request works on the content of node[w]: it is past resetNodeState and
\* not yet past finalizeNodeState (scanDatabaseSchema).
Working(w) == pc[w] \in {"delete", "tables", "unscanned", "table", "insert",
                         "update", "finalize"}

\* A node never has items while its path and full_name columns are empty, even
\* when the request that created it died, failed or is still between its two
\* statements: the full_name of an item is composed from its node's columns.
ItemsNeedPath == \A n \in NodeIds : items[n] # {} => n \in pathed

\* Every item of a node is a table that the node's own schema had at some time:
\* overlapping scans of several schemas never file a table under a wrong node.
NoForeignItems ==
    \A n \in NodeIds :
        /\ nodeKey[n] = None => items[n] = {}
        /\ \A r \in Resources, s \in Schemas :
              nodeKey[n] = <<r, s>> => items[n] \subseteq UNION versions[r][s]

\* At most one top-level node per schema of a resource, as the constraint
\* UNIQUE (res_id, name, parent_node_id) of scripts/init-db.sql intends.
UniqueTopNode ==
    \A m, n \in NodeIds : (nodeKey[m] # None /\ nodeKey[m] = nodeKey[n]) => m = n

\* What GetSchemasByResource tells of a schema that is not being scanned is what
\* meta_item holds: the table count of a scanned one is exact, and one that is
\* not scanned is empty - after crashes, failures and rescans too.
CatalogConsistent ==
    \A n \in NodeIds :
        /\ status[n] = Scanned => count[n] = Cardinality(items[n])
        /\ status[n] = Unscanned => count[n] = 0 /\ items[n] = {}

\* The items of a scanned node are one table list that the schema really had,
\* not a mixture of two, although nodes are rewritten table by table. A scan
\* skips a table whose fields cannot be read or whose row cannot be written and
\* still marks the node as scanned: those tables, and no others, are missing. In
\* particular a crash never leaves a scanned node with part of its tables.
SnapshotExact ==
    \A n \in NodeIds, r \in Resources, s \in Schemas :
        (nodeKey[n] = <<r, s>> /\ status[n] = Scanned)
        => /\ items[n] \cup lost[n] \in versions[r][s]
           /\ items[n] \cap lost[n] = {}

\* docs/design.md: a schema is shown as being scanned from the start of its scan
\* to its end; so no reader takes a half-written node for a finished one.
WorkingNodeShown == \A w \in Requests : Working(w) => status[node[w]] = Scanning

\* An automatic scan never takes a finished node back into scanning: it only
\* fills in what is missing (CheckNode is what has to guarantee it).
AutoLeavesScanned ==
    [][\A w \in Requests, n \in NodeIds :
          (kind[w] = "auto" /\ pc'[w] # pc[w] /\ status[n] = Scanned)
          => status'[n] = Scanned]_vars

\* However scans of the same schema overlap, once all are over and nothing
\* failed or changed meanwhile, every scanned node holds the whole table list.
OverlapConverges ==
    ((\A w \in Requests : pc[w] = "done") /\ fails = 0 /\ ddls = 0) =>
        \A n \in NodeIds, r \in Resources, s \in Schemas :
            (nodeKey[n] = <<r, s>> /\ status[n] = Scanned)
            => items[n] = TablesOf(r, s)

\* Every request that started ends or dies with the process; unless saving the
\* log row failed, the row of one that ended is marked.
RequestsEnd ==
    \A w \in Requests :
        Active(w) ~> \/ pc[w] = "dead"
                     \/ pc[w] = "done" /\ (fails = 0 => scanLog[w] # "running")

\* No node stays in the state of being scanned, unless the process died or a
\* statement failed.
ScanningEnds ==
    \A n \in NodeIds :
        (status[n] = Scanning) ~> (status[n] # Scanning \/ crashes > 0 \/ fails > 0)
=============================================================================
