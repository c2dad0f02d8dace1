---------------------------- MODULE ManagedTables ----------------------------
(***************************************************************************)
(* The managed tables of the Manager: requests that list the tables of a   *)
(* PostgreSQL resource into manager.managed_tables, take a table under     *)
(* management with its details, or release it                              *)
(* (manager/backend/internal/service/metadata_service.go and               *)
(* repository/metadata_repository.go). Each begins by reading the resource,*)
(* for which the Manager depends on ConfigCenter.                          *)
(*                                                                         *)
(* One action is one statement; requests interleave between them, any      *)
(* statement may fail, and the process may die between any two.            *)
(*                                                                         *)
(* Abstractions: one resource; the content of a table is a version number; *)
(* what a listing tells of a table (size, type, comment) is the number of  *)
(* the version that it saw; times are left out.                            *)
(***************************************************************************)
EXTENDS Sequences, FiniteSets, ConfigCenter

CONSTANTS
    Requests,   \* goroutines of the Manager's HTTP server
    Tables,     \* names of tables in the resource's database
    Folded,     \* name -> the table that PostgreSQL takes it for if not quoted
    TableIds,   \* ids of managed_tables rows
    None,       \* no row, no value
    MaxCall,    \* bound on requests
    MaxChange   \* bound on changes in the resource

\* What a query of a table returns: whose content, and which version of it.
Answers == [tab : Tables, version : Nat]

\* Rows of managed_tables. Management fills in managed, columns, count and
\* sample; listed stands for table_size, table_type and comment.
TableRows ==
    [tab : Tables, listed : Nat, managed : BOOLEAN, columns : Answers \cup {None},
     count : Answers \cup {None}, sample : Answers \cup {None}]

ASSUME TablesAssumption ==
    /\ Folded \in [Tables -> Tables]
    /\ TableIds \subseteq Nat /\ 0 \notin TableIds
    /\ None \notin Tables \cup Answers \cup TableRows
    /\ MaxCall \in Nat /\ MaxChange \in Nat

VARIABLES
    source,    \* the resource: table -> version of its content, 0 if absent
    typed,     \* connection_info has the entry resource_type
    table,     \* managed_tables: id -> row or None
    call,      \* goroutine -> the request it handles
    calls,     \* number of requests begun
    changes,   \* number of changes of the resource
    overlap    \* history: two scans were in progress at once

tableVars == <<source, typed, table, call, calls, changes, overlap>>
world == <<source, typed, changes>>

Idle == [op |-> "none", pc |-> "idle", id |-> 0, tab |-> None, todo |-> {}, got |-> <<>>]

TablesInit ==
    /\ source \in [Tables -> {0, 1}]
    /\ typed \in BOOLEAN
    /\ table = [n \in TableIds |-> None]
    /\ call = [w \in Requests |-> Idle]
    /\ calls = 0 /\ changes = 0 /\ overlap = FALSE

-----------------------------------------------------------------------------
Rows == {n \in TableIds : table[n] # None}
RowsOf(t) == {n \in Rows : table[n].tab = t}

\* First: the row with the lowest id.
Lowest(ids) == CHOOSE n \in ids : \A m \in ids : n <= m

Set(w, c) == call' = [call EXCEPT ![w] = c]
Finish(w) == Set(w, Idle)

\* A goroutine takes a request c, while the process runs.
Begin(w, c) ==
    /\ mod[Manager].pc = "running"
    /\ call[w].pc = "idle" /\ calls < MaxCall
    /\ Set(w, c)
    /\ calls' = calls + 1

\* ScanResource
BeginScan(w) ==
    /\ Begin(w, [Idle EXCEPT !.op = "scan", !.pc = "fetch"])
    /\ overlap' = (overlap \/ \E v \in Requests : call[v].op = "scan")
    /\ UNCHANGED <<world, table>>

\* ManageTable, up to its look-up of the row.
BeginManage(w) ==
    /\ \E n \in Rows : Begin(w, [Idle EXCEPT !.op = "manage", !.pc = "fetch", !.id = n])
    /\ UNCHANGED <<world, table, overlap>>

\* UnmanageTable: one UPDATE, which leaves the row count.
Unmanage(w) ==
    /\ \E n \in Rows :
          /\ Begin(w, Idle)
          /\ table' = [table EXCEPT ![n].managed = FALSE, ![n].columns = None, ![n].sample = None]
    /\ UNCHANGED <<world, overlap>>

\* What comes after the resource is there.
AfterFetch(op) == CASE op = "scan" -> "list" [] op = "manage" -> "row" [] OTHER -> op

\* getResource and the connection, which needs the password; ScanDatabaseTables
\* needs an entry resource_type in the connection info, too.
Fetch(w) ==
    /\ call[w].pc = "fetch"
    /\ \E text \in ManagerReads :
          IF text = Plain /\ (call[w].op = "scan" => typed)
          THEN Set(w, [call[w] EXCEPT !.pc = AfterFetch(call[w].op)])
          ELSE Finish(w)
    /\ UNCHANGED <<world, table, calls, overlap>>

-----------------------------------------------------------------------------
\* What a query tells of table t, under the name that the query has for it: the
\* table that answers and its version.
Answer(t) == [tab |-> t, version |-> source[t]]

-----------------------------------------------------------------------------
(* Scan *)

\* ScanDatabaseTables, its query.
ListTables(w) ==
    /\ call[w].pc = "list"
    /\ Set(w, [call[w] EXCEPT !.pc = "look",
                           !.todo = {Answer(t) : t \in {u \in Tables : source[u] # 0}}])
    /\ UNCHANGED <<world, table, calls, overlap>>

\* Mutant of LookUp: the row is never found.
LookUpNever(w) ==
    /\ call[w].pc = "look"
    /\ \/ call[w].todo = {} /\ Finish(w)
       \/ \E a \in call[w].todo :
             Set(w, [call[w] EXCEPT !.todo = @ \ {a}, !.tab = a.tab, !.got = <<a>>,
                                    !.pc = "insert"])
    /\ UNCHANGED <<world, table, calls, overlap>>

\* SaveOrUpdateTables, its loop and its SELECT; at the end the answer.
LookUp(w) ==
    /\ call[w].pc = "look"
    /\ \/ call[w].todo = {} /\ Finish(w)
       \/ \E a \in call[w].todo :
             LET c == [call[w] EXCEPT !.todo = @ \ {a}, !.tab = a.tab, !.got = <<a>>]
             IN  IF RowsOf(a.tab) = {} THEN Set(w, [c EXCEPT !.pc = "insert"])
                 ELSE Set(w, [c EXCEPT !.pc = "update", !.id = Lowest(RowsOf(a.tab))])
    /\ UNCHANGED <<world, table, calls, overlap>>

\* The row that a scan makes of a listed table a.
NewRow(a) ==
    [tab |-> a.tab, listed |-> a.version, managed |-> FALSE, columns |-> None,
     count |-> None, sample |-> None]

\* Its INSERT; no constraint forbids a second row of one table.
InsertRow(w) ==
    /\ call[w].pc = "insert"
    /\ \E n \in TableIds \ Rows :
          /\ \A m \in TableIds \ Rows : n <= m
          /\ table' = [table EXCEPT ![n] = NewRow(call[w].got[1])]
    /\ Set(w, [call[w] EXCEPT !.pc = "look"])
    /\ UNCHANGED <<world, calls, overlap>>

\* Mutant of UpdateRow: the row is saved as a new one would be.
UpdateRowWhole(w) ==
    /\ call[w].pc = "update"
    /\ table' = [table EXCEPT ![call[w].id] = NewRow(call[w].got[1])]
    /\ Set(w, [call[w] EXCEPT !.pc = "look"])
    /\ UNCHANGED <<world, calls, overlap>>

\* Its UPDATE, by the id found, of what the listing tells and of nothing else.
UpdateRow(w) ==
    /\ call[w].pc = "update"
    /\ table' = [table EXCEPT ![call[w].id].listed = call[w].got[1].version]
    /\ Set(w, [call[w] EXCEPT !.pc = "look"])
    /\ UNCHANGED <<world, calls, overlap>>

-----------------------------------------------------------------------------
(* Management: MarkTableAsManaged and extractTableMetadata *)

\* Mutant of ReadRow: the row is read without its id.
ReadRowAny(w) ==
    /\ call[w].pc = "row"
    /\ Set(w, [call[w] EXCEPT !.pc = "columns", !.tab = table[Lowest(Rows)].tab])
    /\ UNCHANGED <<world, table, calls, overlap>>

ReadRow(w) ==
    /\ call[w].pc = "row"
    /\ Set(w, [call[w] EXCEPT !.pc = "columns", !.tab = table[call[w].id].tab])
    /\ UNCHANGED <<world, table, calls, overlap>>

\* The query of information_schema has the name as a parameter, and no error if
\* there is no such table.
ReadColumns(w) ==
    /\ call[w].pc = "columns"
    /\ Set(w, [call[w] EXCEPT !.pc = "count", !.got = <<Answer(call[w].tab)>>])
    /\ UNCHANGED <<world, table, calls, overlap>>

\* SELECT COUNT and the sample name the table without quotes.
CountRows(w) ==
    /\ call[w].pc = "count"
    /\ LET t == Folded[call[w].tab]
       IN  IF source[t] = 0 THEN Finish(w)
           ELSE Set(w, [call[w] EXCEPT !.pc = "sample", !.got = Append(@, Answer(t))])
    /\ UNCHANGED <<world, table, calls, overlap>>

ReadSample(w) ==
    /\ call[w].pc = "sample"
    /\ LET t == Folded[call[w].tab]
       IN  IF source[t] = 0 THEN Finish(w)
           ELSE Set(w, [call[w] EXCEPT !.pc = "mark", !.got = Append(@, Answer(t))])
    /\ UNCHANGED <<world, table, calls, overlap>>

\* The UPDATE, by id.
MarkManaged(w) ==
    /\ call[w].pc = "mark"
    /\ table' = [table EXCEPT ![call[w].id] =
          [@ EXCEPT !.managed = TRUE, !.columns = call[w].got[1], !.count = call[w].got[2],
                    !.sample = call[w].got[3]]]
    /\ Finish(w)
    /\ UNCHANGED <<world, calls, overlap>>

-----------------------------------------------------------------------------
\* A statement of a request fails, or the connection to the resource does.
CallFails(w) ==
    /\ call[w].pc # "idle"
    /\ Finish(w)
    /\ UNCHANGED <<world, table, calls, overlap>>

\* The Manager process ends and takes its requests with it.
ManagerStop ==
    /\ ModuleStop(Manager)
    /\ call' = [w \in Requests |-> Idle]
    /\ UNCHANGED <<world, table, calls, overlap>>

\* Users of the resource create, change or drop a table.
TableChange ==
    /\ changes < MaxChange
    /\ \E t \in Tables, v \in {0, changes + 2} :
          /\ v # source[t]
          /\ source' = [source EXCEPT ![t] = v]
    /\ changes' = changes + 1
    /\ UNCHANGED <<typed, table, call, calls, overlap>>

TableStep(w) ==
    \/ Fetch(w) \/ ListTables(w) \/ LookUp(w) \/ InsertRow(w) \/ UpdateRow(w)
    \/ ReadRow(w) \/ ReadColumns(w) \/ CountRows(w) \/ ReadSample(w) \/ MarkManaged(w)
    \/ CallFails(w)

TableNext ==
    \/ \E w \in Requests : BeginScan(w) \/ BeginManage(w) \/ Unmanage(w) \/ TableStep(w)
    \/ TableChange

\* Requests proceed while the services start, stop and read their settings.
TablesNext ==
    \/ TableNext /\ UNCHANGED configVars
    \/ (ConfigStep \/ ModuleStop(Meta)) /\ UNCHANGED tableVars
    \/ ManagerStop

TablesSpec == ConfigInit /\ TablesInit /\ [][TablesNext]_<<configVars, tableVars>>

-----------------------------------------------------------------------------
(* Properties *)

TablesTypeOK ==
    /\ source \in [Tables -> Nat] /\ typed \in BOOLEAN
    /\ table \in [TableIds -> TableRows \cup {None}]
    /\ calls \in Nat /\ changes \in Nat /\ overlap \in BOOLEAN

\* As long as no two scans were in progress at once, every table of a resource
\* is listed once: however scans fail half-way, die with the process, or follow
\* each other while tables come and go (SaveOrUpdateTables).
TableListedOnce ==
    ~overlap => \A n, m \in Rows : table[n].tab = table[m].tab => n = m

\* The flag of a row and the deep metadata.
Management(n) ==
    <<table[n].managed, table[n].columns, table[n].count, table[n].sample>>

\* Flag and details agree. (A released row keeps its count.)
DetailsAgree(n) ==
    /\ table[n].managed <=> table[n].columns # None
    /\ table[n].managed <=> table[n].sample # None
    /\ table[n].managed => table[n].count # None

\* Rows stay, and keep their table. A step that changes the flag or a detail of
\* a row is no step of a scan, and leaves the two in agreement.
KeepsManagement ==
    \A n \in Rows :
        /\ table'[n] # None /\ table'[n].tab = table[n].tab
        /\ Management(n)' # Management(n) =>
              /\ DetailsAgree(n)'
              /\ \A w \in Requests : call[w].op = "scan" => call'[w] = call[w]

\* A scan never changes the flag or the details of a row, also if other requests
\* have managed or released the table since the scan looked the row up ("without
\* overwriting IsManaged and the deep metadata", SaveOrUpdateTables). The steps
\* that do change them, of whatever requests overlap or fail, leave a row with
\* the flag and all of its details, or with neither.
ManagementKept == [][KeepsManagement]_<<table, call>>

\* The columns of a managed table are its own, also if other requests manage
\* other tables at the same time; so are its row count and its sample if its
\* name needs no quotes. (A name with capitals is queried without quotes, and
\* gets the numbers of the table with the folded name.)
DetailsOwn ==
    \A n \in Rows : table[n].managed =>
        /\ table[n].columns.tab = table[n].tab
        /\ Folded[table[n].tab] = table[n].tab =>
              table[n].count.tab = table[n].tab /\ table[n].sample.tab = table[n].tab
=============================================================================
