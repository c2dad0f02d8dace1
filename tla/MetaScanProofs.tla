---------------------------- MODULE MetaScanProofs ----------------------------
(***************************************************************************)
(* Proofs about MetaScan, for any number of requests, resources, schemas,  *)
(* tables, failures, crashes and DDL steps.                                *)
(*                                                                         *)
(* SafeInv is inductive for Spec, in which requests overlap freely: what   *)
(* holds of the code as it is. ConvergeInv adds to it what overlapping     *)
(* scans of one schema still owe its node, from which they converge.       *)
(* SerialInv is about SerialSpec, in which a request starts only when no   *)
(* other one runs: it says of each one what it has still to write.         *)
(***************************************************************************)
EXTENDS MetaScan, TLAPS, FiniteSetTheorems

\* Control points at which a request's variables hold a resource, a schema
\* name, a node, and a node whose path is set.
NodePCs == {"path", "reset", "delete", "tables", "unscanned", "table",
            "insert", "update", "finalize"}
PathedPCs == NodePCs \ {"path"}
SchemaVarPCs == NodePCs \cup {"check", "upsert", "create"}
ResVarPCs == SchemaVarPCs \cup {"ensure", "ensurecreate", "connect", "schema"}
TablePCs == {"table", "insert", "update", "finalize"}

\* What the local variables of a request mean at each of its control points.
LocalOK(w) ==
    /\ pc[w] \in ResVarPCs => res[w] \in Resources
    /\ pc[w] \in SchemaVarPCs => schema[w] \in Schemas
    /\ pc[w] \in NodePCs =>
          node[w] \in NodeIds /\ nodeKey[node[w]] = <<res[w], schema[w]>>
    /\ pc[w] \in PathedPCs => node[w] \in pathed
    /\ pc[w] \in TablePCs => tabs[w] \subseteq UNION versions[res[w]][schema[w]]
    /\ pc[w] \in {"insert", "update"} =>
          tab[w] \in Tables /\ tab[w] \in UNION versions[res[w]][schema[w]]

\* ScanTables returns one of the recorded versions.
SourceRecorded ==
    \A r \in Resources, s \in Schemas : TablesOf(r, s) \in versions[r][s]

\* The inductive invariant of Spec.
SafeInv ==
    /\ TypeOK
    /\ \A w \in Requests : LocalOK(w)
    /\ SourceRecorded
    /\ ItemsNeedPath
    /\ NoForeignItems

\* Control points and variable tuples are expanded everywhere.
USE DEF Goto, PCs, ActivePCs, SchemaPCs, NodePCs, PathedPCs, SchemaVarPCs,
        ResVarPCs, TablePCs, dbVars, envVars, reqVars,
        Unscanned, Scanning, Scanned

\* The key of a meta_node row is not the mark of a missing row.
LEMMA KeyIsNotNone ==
  ASSUME NEW r \in Resources, NEW s \in Schemas PROVE <<r, s>> # None
<1>1. <<r, s>> \in Resources \X Schemas
  OBVIOUS
<1> QED BY <1>1, ConstantsAssumption DEF ConstantsAssumption

\* The row that a request works on exists.
LEMMA NodeExists ==
  ASSUME SafeInv, NEW v \in Requests, pc[v] \in NodePCs
  PROVE  nodeKey[node[v]] # None
<1>1. /\ res[v] \in Resources /\ schema[v] \in Schemas
      /\ nodeKey[node[v]] = <<res[v], schema[v]>>
  BY DEF SafeInv, LocalOK
<1> QED BY ONLY <1>1, KeyIsNotNone

\* BeginAuto preserves SafeInv.
LEMMA SafeBeginAuto == ASSUME SafeInv, NEW w \in Requests, BeginAuto(w) PROVE SafeInv'
<1>1. TypeOK'
  BY DEF SafeInv, LocalOK, TypeOK, BeginAuto
<1>2. ASSUME NEW v \in Requests PROVE LocalOK(v)'
  BY DEF SafeInv, LocalOK, TypeOK, BeginAuto
<1>3. SourceRecorded' /\ ItemsNeedPath' /\ NoForeignItems'
  BY DEF SafeInv, LocalOK, TypeOK, SourceRecorded, TablesOf, ItemsNeedPath,
      NoForeignItems, BeginAuto
<1> QED BY <1>1, <1>2, <1>3 DEF SafeInv

\* BeginManual preserves SafeInv.
LEMMA SafeBeginManual == ASSUME SafeInv, NEW w \in Requests, BeginManual(w) PROVE SafeInv'
<1>1. TypeOK'
  BY DEF SafeInv, LocalOK, TypeOK, BeginManual
<1>2. ASSUME NEW v \in Requests PROVE LocalOK(v)'
  BY DEF SafeInv, LocalOK, TypeOK, BeginManual
<1>3. SourceRecorded' /\ ItemsNeedPath' /\ NoForeignItems'
  BY DEF SafeInv, LocalOK, TypeOK, SourceRecorded, TablesOf, ItemsNeedPath,
      NoForeignItems, BeginManual
<1> QED BY <1>1, <1>2, <1>3 DEF SafeInv

\* FetchResources preserves SafeInv.
LEMMA SafeFetchResources == ASSUME SafeInv, NEW w \in Requests, FetchResources(w) PROVE SafeInv'
<1>1. TypeOK'
  BY DEF SafeInv, LocalOK, TypeOK, FetchResources
<1>2. ASSUME NEW v \in Requests PROVE LocalOK(v)'
  BY DEF SafeInv, LocalOK, TypeOK, FetchResources
<1>3. SourceRecorded' /\ ItemsNeedPath' /\ NoForeignItems'
  BY DEF SafeInv, LocalOK, TypeOK, SourceRecorded, TablesOf, ItemsNeedPath,
      NoForeignItems, FetchResources
<1> QED BY <1>1, <1>2, <1>3 DEF SafeInv

\* NextResource preserves SafeInv.
LEMMA SafeNextResource == ASSUME SafeInv, NEW w \in Requests, NextResource(w) PROVE SafeInv'
<1>1. TypeOK'
  <2>1. CASE resTodo[w] = {} /\ Goto(w, "finish") /\ UNCHANGED <<resTodo, res, todo>>
    BY <2>1 DEF SafeInv, TypeOK, NextResource
  <2>2. ASSUME NEW r \in resTodo[w],
               resTodo' = [resTodo EXCEPT ![w] = @ \ {r}],
               res' = [res EXCEPT ![w] = r],
               todo' = [todo EXCEPT ![w] = {}],
               Goto(w, "ensure")
        PROVE  TypeOK'
    <3>1. r \in Resources /\ resTodo[w] \ {r} \in SUBSET Resources
      BY DEF SafeInv, TypeOK
    <3> QED BY <2>2, <3>1 DEF SafeInv, TypeOK, NextResource
  <2> QED BY <2>1, <2>2 DEF NextResource
<1>2. ASSUME NEW v \in Requests PROVE LocalOK(v)'
  BY DEF SafeInv, LocalOK, TypeOK, NextResource
<1>3. SourceRecorded' /\ ItemsNeedPath' /\ NoForeignItems'
  BY DEF SafeInv, LocalOK, TypeOK, SourceRecorded, TablesOf, ItemsNeedPath,
      NoForeignItems, NextResource
<1> QED BY <1>1, <1>2, <1>3 DEF SafeInv

\* EnsureRead preserves SafeInv.
LEMMA SafeEnsureRead == ASSUME SafeInv, NEW w \in Requests, EnsureRead(w) PROVE SafeInv'
<1>1. TypeOK'
  BY DEF SafeInv, LocalOK, TypeOK, EnsureRead
<1>2. ASSUME NEW v \in Requests PROVE LocalOK(v)'
  BY DEF SafeInv, LocalOK, TypeOK, EnsureRead
<1>3. SourceRecorded' /\ ItemsNeedPath' /\ NoForeignItems'
  BY DEF SafeInv, LocalOK, TypeOK, SourceRecorded, TablesOf, ItemsNeedPath,
      NoForeignItems, EnsureRead
<1> QED BY <1>1, <1>2, <1>3 DEF SafeInv

\* EnsureCreate preserves SafeInv.
LEMMA SafeEnsureCreate == ASSUME SafeInv, NEW w \in Requests, EnsureCreate(w) PROVE SafeInv'
<1>1. TypeOK'
  BY DEF SafeInv, LocalOK, TypeOK, EnsureCreate, AbortTo
<1>2. ASSUME NEW v \in Requests PROVE LocalOK(v)'
  BY DEF SafeInv, LocalOK, TypeOK, EnsureCreate, AbortTo
<1>3. SourceRecorded' /\ ItemsNeedPath' /\ NoForeignItems'
  BY DEF SafeInv, LocalOK, TypeOK, SourceRecorded, TablesOf, ItemsNeedPath,
      NoForeignItems, EnsureCreate, AbortTo
<1> QED BY <1>1, <1>2, <1>3 DEF SafeInv

\* Connect preserves SafeInv.
LEMMA SafeConnect == ASSUME SafeInv, NEW w \in Requests, Connect(w) PROVE SafeInv'
<1>1. TypeOK'
  BY DEF SafeInv, LocalOK, TypeOK, Connect, SchemasOf
<1>2. ASSUME NEW v \in Requests PROVE LocalOK(v)'
  BY DEF SafeInv, LocalOK, TypeOK, Connect, SchemasOf
<1>3. SourceRecorded' /\ ItemsNeedPath' /\ NoForeignItems'
  BY DEF SafeInv, LocalOK, TypeOK, SourceRecorded, TablesOf, ItemsNeedPath,
      NoForeignItems, Connect, SchemasOf
<1> QED BY <1>1, <1>2, <1>3 DEF SafeInv

\* NextSchema preserves SafeInv.
LEMMA SafeNextSchema == ASSUME SafeInv, NEW w \in Requests, NextSchema(w) PROVE SafeInv'
<1>1. TypeOK'
  <2>1. CASE todo[w] = {} /\ UNCHANGED <<todo, schema>>
    BY <2>1 DEF SafeInv, TypeOK, NextSchema
  <2>2. ASSUME NEW s \in todo[w],
               todo' = [todo EXCEPT ![w] = @ \ {s}],
               schema' = [schema EXCEPT ![w] = s],
               Goto(w, IF kind[w] = "auto" THEN "check" ELSE "upsert")
        PROVE  TypeOK'
    <3>1. s \in Schemas /\ todo[w] \ {s} \in SUBSET Schemas
      BY DEF SafeInv, TypeOK
    <3> QED BY <2>2, <3>1 DEF SafeInv, TypeOK, NextSchema
  <2> QED BY <2>1, <2>2 DEF NextSchema
<1>2. ASSUME NEW v \in Requests PROVE LocalOK(v)'
  BY DEF SafeInv, LocalOK, TypeOK, NextSchema
<1>3. SourceRecorded' /\ ItemsNeedPath' /\ NoForeignItems'
  BY DEF SafeInv, LocalOK, TypeOK, SourceRecorded, TablesOf, ItemsNeedPath,
      NoForeignItems, NextSchema
<1> QED BY <1>1, <1>2, <1>3 DEF SafeInv

\* CheckNode preserves SafeInv.
LEMMA SafeCheckNode == ASSUME SafeInv, NEW w \in Requests, CheckNode(w) PROVE SafeInv'
<1>1. TypeOK'
  BY DEF SafeInv, LocalOK, TypeOK, CheckNode
<1>2. ASSUME NEW v \in Requests PROVE LocalOK(v)'
  BY DEF SafeInv, LocalOK, TypeOK, CheckNode
<1>3. SourceRecorded' /\ ItemsNeedPath' /\ NoForeignItems'
  BY DEF SafeInv, LocalOK, TypeOK, SourceRecorded, TablesOf, ItemsNeedPath,
      NoForeignItems, CheckNode
<1> QED BY <1>1, <1>2, <1>3 DEF SafeInv

\* UpsertRead preserves SafeInv.
LEMMA SafeUpsertRead == ASSUME SafeInv, NEW w \in Requests, UpsertRead(w) PROVE SafeInv'
<1>1. TypeOK'
  <2>1. CASE Goto(w, "create") /\ UNCHANGED node
    BY <2>1 DEF SafeInv, TypeOK, UpsertRead
  <2>2. ASSUME NEW n \in NodeIds,
               node' = [node EXCEPT ![w] = n],
               Goto(w, IF n \in pathed THEN "reset" ELSE "path")
        PROVE  TypeOK'
    BY <2>2 DEF SafeInv, TypeOK, UpsertRead
  <2> QED BY <2>1, <2>2 DEF UpsertRead, Matching
<1>2. ASSUME NEW v \in Requests PROVE LocalOK(v)'
  BY DEF SafeInv, LocalOK, TypeOK, UpsertRead, Matching
<1>3. SourceRecorded' /\ ItemsNeedPath' /\ NoForeignItems'
  BY DEF SafeInv, LocalOK, TypeOK, SourceRecorded, TablesOf, ItemsNeedPath,
      NoForeignItems, UpsertRead, Matching
<1> QED BY <1>1, <1>2, <1>3 DEF SafeInv

\* CreateNode preserves SafeInv.
LEMMA SafeCreateNode == ASSUME SafeInv, NEW w \in Requests, CreateNode(w) PROVE SafeInv'
<1>1. TypeOK'
  BY DEF SafeInv, LocalOK, TypeOK, CreateNode
<1>2. ASSUME NEW v \in Requests PROVE LocalOK(v)'
  <2> PICK n \in NodeIds :
           /\ FreshId(n)
           /\ nodeKey' = [nodeKey EXCEPT ![n] = <<res[w], schema[w]>>]
           /\ node' = [node EXCEPT ![w] = n]
    BY DEF CreateNode
  <2>1. \A m \in NodeIds : nodeKey[m] # None => nodeKey'[m] = nodeKey[m]
    BY DEF SafeInv, TypeOK, FreshId
  <2>2. CASE v = w
    BY <2>2 DEF SafeInv, LocalOK, TypeOK, CreateNode
  <2>3. CASE v # w
    <3>1. pc'[v] = pc[v] /\ node'[v] = node[v]
      BY <2>3 DEF SafeInv, TypeOK, CreateNode
    <3>2. ASSUME pc[v] \in NodePCs PROVE nodeKey[node[v]] # None
      BY <3>2, NodeExists
    <3>3. pc[v] \in NodePCs => nodeKey'[node[v]] = nodeKey[node[v]]
      BY <2>1, <3>2 DEF SafeInv, LocalOK
    <3>4. UNCHANGED <<pathed, res, schema, tabs, tab, versions>> /\ LocalOK(v)
      BY DEF SafeInv, CreateNode
    <3> HIDE DEF NodePCs, SchemaVarPCs, ResVarPCs, PathedPCs, TablePCs
    <3> QED BY ONLY <3>1, <3>3, <3>4 DEF LocalOK
  <2> QED BY <2>2, <2>3
<1>3. SourceRecorded' /\ ItemsNeedPath' /\ NoForeignItems'
  <2> PICK n \in NodeIds :
           /\ FreshId(n)
           /\ nodeKey' = [nodeKey EXCEPT ![n] = <<res[w], schema[w]>>]
    BY DEF CreateNode
  <2>1. \A m \in NodeIds \ {n} : nodeKey'[m] = nodeKey[m]
    BY DEF SafeInv, TypeOK
  <2>2. items[n] = {}
    BY DEF SafeInv, NoForeignItems, FreshId
  <2>3. NoForeignItems'
    BY <2>1, <2>2 DEF SafeInv, NoForeignItems, CreateNode
  <2> QED BY <2>3 DEF SafeInv, SourceRecorded, TablesOf, ItemsNeedPath, CreateNode
<1> QED BY <1>1, <1>2, <1>3 DEF SafeInv

\* SetPath preserves SafeInv.
LEMMA SafeSetPath == ASSUME SafeInv, NEW w \in Requests, SetPath(w) PROVE SafeInv'
<1>1. TypeOK'
  BY DEF SafeInv, LocalOK, TypeOK, SetPath
<1>2. ASSUME NEW v \in Requests PROVE LocalOK(v)'
  BY DEF SafeInv, LocalOK, TypeOK, SetPath
<1>3. SourceRecorded' /\ ItemsNeedPath' /\ NoForeignItems'
  BY DEF SafeInv, LocalOK, TypeOK, SourceRecorded, TablesOf, ItemsNeedPath,
      NoForeignItems, SetPath
<1> QED BY <1>1, <1>2, <1>3 DEF SafeInv

\* ResetNodeState preserves SafeInv.
LEMMA SafeResetNodeState == ASSUME SafeInv, NEW w \in Requests, ResetNodeState(w) PROVE SafeInv'
<1>1. TypeOK'
  BY DEF SafeInv, LocalOK, TypeOK, ResetNodeState
<1>2. ASSUME NEW v \in Requests PROVE LocalOK(v)'
  BY DEF SafeInv, LocalOK, TypeOK, ResetNodeState
<1>3. SourceRecorded' /\ ItemsNeedPath' /\ NoForeignItems'
  BY DEF SafeInv, LocalOK, TypeOK, SourceRecorded, TablesOf, ItemsNeedPath,
      NoForeignItems, ResetNodeState
<1> QED BY <1>1, <1>2, <1>3 DEF SafeInv

\* DeleteItems preserves SafeInv.
LEMMA SafeDeleteItems == ASSUME SafeInv, NEW w \in Requests, DeleteItems(w) PROVE SafeInv'
<1>1. TypeOK'
  BY DEF SafeInv, LocalOK, TypeOK, DeleteItems
<1>2. ASSUME NEW v \in Requests PROVE LocalOK(v)'
  BY DEF SafeInv, LocalOK, TypeOK, DeleteItems
<1>3. SourceRecorded' /\ ItemsNeedPath' /\ NoForeignItems'
  <2>1. \A n \in NodeIds : items'[n] = items[n] \/ items'[n] = {}
    BY DEF SafeInv, TypeOK, DeleteItems
  <2> QED BY <2>1 DEF SafeInv, SourceRecorded, TablesOf, ItemsNeedPath,
             NoForeignItems, DeleteItems
<1> QED BY <1>1, <1>2, <1>3 DEF SafeInv

\* ScanTables preserves SafeInv.
LEMMA SafeScanTables == ASSUME SafeInv, NEW w \in Requests, ScanTables(w) PROVE SafeInv'
<1>1. TypeOK'
  BY DEF SafeInv, LocalOK, TypeOK, ScanTables, TablesOf
<1>2. ASSUME NEW v \in Requests PROVE LocalOK(v)'
  <2>1. CASE v = w
    <3>1. tabs'[w] = TablesOf(res[w], schema[w])
      BY DEF SafeInv, TypeOK, ScanTables
    <3>2. TablesOf(res[w], schema[w]) \in versions[res[w]][schema[w]]
      BY DEF SafeInv, LocalOK, SourceRecorded, ScanTables
    <3>3. tabs'[w] \subseteq UNION versions[res[w]][schema[w]]
      BY <3>1, <3>2
    <3> QED BY <2>1, <3>3 DEF SafeInv, LocalOK, TypeOK, ScanTables
  <2>2. CASE v # w
    BY <2>2 DEF SafeInv, LocalOK, TypeOK, ScanTables
  <2> QED BY <2>1, <2>2
<1>3. SourceRecorded' /\ ItemsNeedPath' /\ NoForeignItems'
  BY DEF SafeInv, LocalOK, TypeOK, SourceRecorded, TablesOf, ItemsNeedPath,
      NoForeignItems, ScanTables
<1> QED BY <1>1, <1>2, <1>3 DEF SafeInv

\* FinalizeUnscanned preserves SafeInv.
LEMMA SafeFinalizeUnscanned == ASSUME SafeInv, NEW w \in Requests, FinalizeUnscanned(w) PROVE SafeInv'
<1>1. TypeOK'
  BY DEF SafeInv, LocalOK, TypeOK, FinalizeUnscanned
<1>2. ASSUME NEW v \in Requests PROVE LocalOK(v)'
  BY DEF SafeInv, LocalOK, TypeOK, FinalizeUnscanned
<1>3. SourceRecorded' /\ ItemsNeedPath' /\ NoForeignItems'
  BY DEF SafeInv, LocalOK, TypeOK, SourceRecorded, TablesOf, ItemsNeedPath,
      NoForeignItems, FinalizeUnscanned
<1> QED BY <1>1, <1>2, <1>3 DEF SafeInv

\* NextTable preserves SafeInv.
LEMMA SafeNextTable == ASSUME SafeInv, NEW w \in Requests, NextTable(w) PROVE SafeInv'
<1>1. TypeOK'
  <2>1. CASE tabs[w] = {} /\ Goto(w, "finalize") /\ UNCHANGED <<tabs, tab>>
    BY <2>1 DEF SafeInv, TypeOK, NextTable
  <2>2. ASSUME NEW t \in tabs[w],
               tabs' = [tabs EXCEPT ![w] = @ \ {t}],
               tab' = [tab EXCEPT ![w] = t],
               Goto(w, IF t \in items[node[w]] THEN "update" ELSE "insert")
        PROVE  TypeOK'
    <3>1. t \in Tables /\ tabs[w] \ {t} \in SUBSET Tables
      BY DEF SafeInv, TypeOK
    <3> QED BY <2>2, <3>1 DEF SafeInv, TypeOK, NextTable
  <2> QED BY <2>1, <2>2 DEF NextTable
<1>2. ASSUME NEW v \in Requests PROVE LocalOK(v)'
  BY DEF SafeInv, LocalOK, TypeOK, NextTable
<1>3. SourceRecorded' /\ ItemsNeedPath' /\ NoForeignItems'
  BY DEF SafeInv, LocalOK, TypeOK, SourceRecorded, TablesOf, ItemsNeedPath,
      NoForeignItems, NextTable
<1> QED BY <1>1, <1>2, <1>3 DEF SafeInv

\* SkipTable preserves SafeInv.
LEMMA SafeSkipTable == ASSUME SafeInv, NEW w \in Requests, SkipTable(w) PROVE SafeInv'
<1>1. TypeOK'
  <2>1. PICK t \in tabs[w] : /\ tabs' = [tabs EXCEPT ![w] = @ \ {t}]
                              /\ lost' = [lost EXCEPT ![node[w]] = @ \cup {t}]
    BY DEF SkipTable
  <2>2. tabs[w] \ {t} \in SUBSET Tables
    BY DEF SafeInv, TypeOK
  <2>4. lost' \in [NodeIds -> SUBSET Tables]
    <3>1. t \in Tables
      BY DEF SafeInv, TypeOK
    <3>2. lost[node[w]] \cup {t} \in SUBSET Tables \/ node[w] \notin NodeIds
      BY <3>1 DEF SafeInv, TypeOK
    <3> QED BY <2>1, <3>2 DEF SafeInv, TypeOK
  <2>3. fails' \in 0..MaxFail
    BY ConstantsAssumption DEF SafeInv, TypeOK, SkipTable
  <2> QED BY <2>1, <2>2, <2>3, <2>4 DEF SafeInv, TypeOK, SkipTable
<1>2. ASSUME NEW v \in Requests PROVE LocalOK(v)'
  BY DEF SafeInv, LocalOK, TypeOK, SkipTable
<1>3. SourceRecorded' /\ ItemsNeedPath' /\ NoForeignItems'
  BY DEF SafeInv, LocalOK, TypeOK, SourceRecorded, TablesOf, ItemsNeedPath,
      NoForeignItems, SkipTable
<1> QED BY <1>1, <1>2, <1>3 DEF SafeInv

\* InsertItem preserves SafeInv.
LEMMA SafeInsertItem == ASSUME SafeInv, NEW w \in Requests, InsertItem(w) PROVE SafeInv'
<1>1. TypeOK'
  <2>1. CASE UNCHANGED <<items, cnt>>
    BY <2>1 DEF SafeInv, TypeOK, InsertItem
  <2>2. CASE /\ items' = [items EXCEPT ![node[w]] = @ \cup {tab[w]}]
             /\ cnt' = [cnt EXCEPT ![w] = @ + 1]
    <3>1. node[w] \in NodeIds /\ tab[w] \in Tables
      BY DEF SafeInv, LocalOK, InsertItem
    <3>2. items[node[w]] \cup {tab[w]} \in SUBSET Tables
      BY <3>1 DEF SafeInv, TypeOK
    <3> QED BY <2>2, <3>1, <3>2 DEF SafeInv, TypeOK, InsertItem
  <2> QED BY <2>1, <2>2 DEF InsertItem
<1>2. ASSUME NEW v \in Requests PROVE LocalOK(v)'
  BY DEF SafeInv, LocalOK, TypeOK, InsertItem
<1>3. SourceRecorded' /\ ItemsNeedPath' /\ NoForeignItems'
  <2>1. node[w] \in pathed /\ node[w] \in NodeIds
    BY DEF SafeInv, LocalOK, InsertItem
  <2>2. ASSUME NEW n \in NodeIds, NEW t \in items'[n]
        PROVE  t \in items[n] \/ (n = node[w] /\ t = tab[w])
    BY DEF SafeInv, TypeOK, InsertItem
  <2>3. ItemsNeedPath'
    BY <2>1, <2>2 DEF SafeInv, ItemsNeedPath, InsertItem
  <2>4. nodeKey[node[w]] = <<res[w], schema[w]>> /\ nodeKey[node[w]] # None
    BY NodeExists DEF SafeInv, LocalOK, InsertItem
  <2>5. tab[w] \in UNION versions[res[w]][schema[w]]
    BY DEF SafeInv, LocalOK, InsertItem
  <2>6. res[w] \in Resources /\ schema[w] \in Schemas
    BY DEF SafeInv, LocalOK, InsertItem
  <2>7. UNCHANGED <<nodeKey, versions>>
    BY DEF InsertItem
  <2>8. ASSUME NEW n \in NodeIds, nodeKey[n] = None PROVE items'[n] = {}
    BY <2>2, <2>4, <2>8 DEF SafeInv, NoForeignItems
  <2>9. ASSUME NEW n \in NodeIds, NEW r \in Resources, NEW s \in Schemas,
               nodeKey[n] = <<r, s>>, NEW t \in items'[n]
        PROVE  t \in UNION versions[r][s]
    <3>1. CASE t \in items[n]
      BY <2>9, <3>1 DEF SafeInv, NoForeignItems
    <3>2. CASE n = node[w] /\ t = tab[w]
      <4>1. r = res[w] /\ s = schema[w]
        BY <2>4, <2>9, <3>2
      <4> QED BY <2>5, <3>2, <4>1
    <3> QED BY <2>2, <3>1, <3>2
  <2>10. NoForeignItems'
    BY <2>7, <2>8, <2>9 DEF NoForeignItems
  <2> QED BY <2>3, <2>10 DEF SafeInv, SourceRecorded, TablesOf, InsertItem
<1> QED BY <1>1, <1>2, <1>3 DEF SafeInv

\* UpdateItem preserves SafeInv.
LEMMA SafeUpdateItem == ASSUME SafeInv, NEW w \in Requests, UpdateItem(w) PROVE SafeInv'
<1>1. TypeOK'
  BY DEF SafeInv, LocalOK, TypeOK, UpdateItem
<1>2. ASSUME NEW v \in Requests PROVE LocalOK(v)'
  BY DEF SafeInv, LocalOK, TypeOK, UpdateItem
<1>3. SourceRecorded' /\ ItemsNeedPath' /\ NoForeignItems'
  BY DEF SafeInv, LocalOK, TypeOK, SourceRecorded, TablesOf, ItemsNeedPath,
      NoForeignItems, UpdateItem
<1> QED BY <1>1, <1>2, <1>3 DEF SafeInv

\* FinalizeScanned preserves SafeInv.
LEMMA SafeFinalizeScanned == ASSUME SafeInv, NEW w \in Requests, FinalizeScanned(w) PROVE SafeInv'
<1>1. TypeOK'
  BY DEF SafeInv, LocalOK, TypeOK, FinalizeScanned
<1>2. ASSUME NEW v \in Requests PROVE LocalOK(v)'
  BY DEF SafeInv, LocalOK, TypeOK, FinalizeScanned
<1>3. SourceRecorded' /\ ItemsNeedPath' /\ NoForeignItems'
  BY DEF SafeInv, LocalOK, TypeOK, SourceRecorded, TablesOf, ItemsNeedPath,
      NoForeignItems, FinalizeScanned
<1> QED BY <1>1, <1>2, <1>3 DEF SafeInv

\* FinishSuccess preserves SafeInv.
LEMMA SafeFinishSuccess == ASSUME SafeInv, NEW w \in Requests, FinishSuccess(w) PROVE SafeInv'
<1>1. TypeOK'
  BY DEF SafeInv, LocalOK, TypeOK, FinishSuccess
<1>2. ASSUME NEW v \in Requests PROVE LocalOK(v)'
  BY DEF SafeInv, LocalOK, TypeOK, FinishSuccess
<1>3. SourceRecorded' /\ ItemsNeedPath' /\ NoForeignItems'
  BY DEF SafeInv, LocalOK, TypeOK, SourceRecorded, TablesOf, ItemsNeedPath,
      NoForeignItems, FinishSuccess
<1> QED BY <1>1, <1>2, <1>3 DEF SafeInv

\* FinishFailed preserves SafeInv.
LEMMA SafeFinishFailed == ASSUME SafeInv, NEW w \in Requests, FinishFailed(w) PROVE SafeInv'
<1>1. TypeOK'
  BY DEF SafeInv, LocalOK, TypeOK, FinishFailed
<1>2. ASSUME NEW v \in Requests PROVE LocalOK(v)'
  BY DEF SafeInv, LocalOK, TypeOK, FinishFailed
<1>3. SourceRecorded' /\ ItemsNeedPath' /\ NoForeignItems'
  BY DEF SafeInv, LocalOK, TypeOK, SourceRecorded, TablesOf, ItemsNeedPath,
      NoForeignItems, FinishFailed
<1> QED BY <1>1, <1>2, <1>3 DEF SafeInv

\* StatementFails preserves SafeInv.
LEMMA SafeStatementFails == ASSUME SafeInv, NEW w \in Requests, StatementFails(w) PROVE SafeInv'
<1>1. TypeOK'
  <2>1. ErrorTo(w) \in PCs
    BY DEF ErrorTo, AbortTo
  <2>2. fails' \in 0..MaxFail
    BY ConstantsAssumption DEF SafeInv, TypeOK, StatementFails
  <2>3. lost' \in [NodeIds -> SUBSET Tables]
    <3>1. CASE pc[w] \in {"insert", "update"}
      <4>1. tab[w] \in Tables /\ node[w] \in NodeIds
        BY <3>1 DEF SafeInv, TypeOK, LocalOK
      <4>2. lost[node[w]] \cup {tab[w]} \in SUBSET Tables
        BY <4>1 DEF SafeInv, TypeOK
      <4> QED BY <3>1, <4>2 DEF SafeInv, TypeOK, StatementFails
    <3>2. CASE pc[w] \notin {"insert", "update"}
      BY <3>2 DEF SafeInv, TypeOK, StatementFails
    <3> QED BY <3>1, <3>2
  <2> QED BY <2>1, <2>2, <2>3 DEF SafeInv, TypeOK, StatementFails
<1>2. ASSUME NEW v \in Requests PROVE LocalOK(v)'
  BY DEF SafeInv, LocalOK, TypeOK, StatementFails, ErrorTo, AbortTo
<1>3. SourceRecorded' /\ ItemsNeedPath' /\ NoForeignItems'
  BY DEF SafeInv, LocalOK, TypeOK, SourceRecorded, TablesOf, ItemsNeedPath,
      NoForeignItems, StatementFails, ErrorTo, AbortTo
<1> QED BY <1>1, <1>2, <1>3 DEF SafeInv

\* SourceChange preserves SafeInv.
LEMMA SafeSourceChange ==
  ASSUME SafeInv, NEW r \in Resources, NEW s \in Schemas, SourceChange(r, s)
  PROVE  SafeInv'
<1> PICK new \in {Absent} \cup SUBSET Tables :
       /\ source' = [source EXCEPT ![r][s] = new]
       /\ versions' = [versions EXCEPT ![r][s] =
                         @ \cup {IF new = Absent THEN {} ELSE new}]
  BY DEF SourceChange
<1>1. /\ source' \in [Resources -> [Schemas -> {Absent} \cup SUBSET Tables]]
      /\ versions' \in [Resources -> [Schemas -> SUBSET SUBSET Tables]]
  BY DEF SafeInv, TypeOK
<1>2. ddls' \in 0..MaxDDL
  BY ConstantsAssumption DEF SafeInv, TypeOK, SourceChange
<1>3. TypeOK'
  BY <1>1, <1>2 DEF SafeInv, TypeOK, SourceChange
<1>4. \A p \in Resources, q \in Schemas : versions[p][q] \subseteq versions'[p][q]
  BY DEF SafeInv, TypeOK
<1>5. ASSUME NEW v \in Requests PROVE LocalOK(v)'
  BY <1>4 DEF SafeInv, LocalOK, SourceChange
<1>6. SourceRecorded'
  BY DEF SafeInv, TypeOK, SourceRecorded, TablesOf
<1>7. ItemsNeedPath' /\ NoForeignItems'
  BY <1>4 DEF SafeInv, ItemsNeedPath, NoForeignItems, SourceChange
<1> QED BY <1>3, <1>5, <1>6, <1>7 DEF SafeInv

\* Crash preserves SafeInv.
LEMMA SafeCrash == ASSUME SafeInv, Crash PROVE SafeInv'
<1>1. crashes' \in 0..MaxCrash
  BY ConstantsAssumption DEF SafeInv, TypeOK, Crash
<1>2. TypeOK'
  BY <1>1 DEF SafeInv, TypeOK, Crash
<1>3. ASSUME NEW v \in Requests PROVE LocalOK(v)'
  BY DEF SafeInv, LocalOK, Crash, Active
<1> QED BY <1>2, <1>3 DEF SafeInv, SourceRecorded, TablesOf, ItemsNeedPath,
           NoForeignItems, Crash

\* A stuttering step preserves SafeInv.
LEMMA SafeUnchanged == ASSUME SafeInv, UNCHANGED vars PROVE SafeInv'
  BY DEF SafeInv, TypeOK, LocalOK, SourceRecorded, TablesOf, ItemsNeedPath,
         NoForeignItems, vars

\* SafeInv holds initially.
LEMMA SafeInit == Init => SafeInv
<1> SUFFICES ASSUME Init PROVE SafeInv
  OBVIOUS
<1>1. \A r \in Resources, s \in Schemas : TablesOf(r, s) \in SUBSET Tables
  BY DEF Init, TablesOf
<1>2. TypeOK
  BY <1>1, ConstantsAssumption DEF Init, TypeOK
<1>3. SourceRecorded
  BY DEF Init, SourceRecorded
<1> QED BY <1>2, <1>3 DEF Init, SafeInv, LocalOK, ItemsNeedPath, NoForeignItems

\* Every step of a request preserves SafeInv.
LEMMA SafeStep == ASSUME SafeInv, NEW w \in Requests, Step(w) PROVE SafeInv'
  BY SafeFetchResources, SafeNextResource, SafeEnsureRead, SafeEnsureCreate,
     SafeConnect, SafeNextSchema, SafeCheckNode, SafeUpsertRead, SafeCreateNode,
     SafeSetPath, SafeResetNodeState, SafeDeleteItems, SafeScanTables,
     SafeFinalizeUnscanned, SafeNextTable, SafeInsertItem, SafeUpdateItem,
     SafeFinalizeScanned, SafeFinishSuccess, SafeFinishFailed DEF Step

\* Every step of the environment preserves SafeInv.
LEMMA SafeEnvironment == ASSUME SafeInv, Environment PROVE SafeInv'
  BY SafeSkipTable, SafeStatementFails, SafeSourceChange, SafeCrash
  DEF Environment

\* Every step preserves SafeInv.
LEMMA SafeNext == SafeInv /\ [Next]_vars => SafeInv'
<1> SUFFICES ASSUME SafeInv, [Next]_vars PROVE SafeInv'
  OBVIOUS
<1>1. ASSUME NEW w \in Requests, Begin(w) PROVE SafeInv'
  BY <1>1, SafeBeginAuto, SafeBeginManual DEF Begin
<1>2. ASSUME NEW w \in Requests, Step(w) PROVE SafeInv'
  BY <1>2, SafeStep
<1>3. CASE Environment
  BY <1>3, SafeEnvironment
<1>4. CASE UNCHANGED vars
  BY <1>4, SafeUnchanged
<1> QED BY <1>1, <1>2, <1>3, <1>4 DEF Next, Idle

\* SafeInv holds in every state of every behaviour of Spec.
THEOREM SafeInvariant == Spec => []SafeInv
  BY SafeInit, SafeNext, PTL DEF Spec

\* Every variable keeps its type, whatever overlaps, fails or crashes. (The
\* inductive argument needs LocalOK: what is written is a local variable whose
\* type depends on the control point.)
THEOREM TypeCorrect == Spec => []TypeOK
<1>1. SafeInv => TypeOK
  BY DEF SafeInv
<1> QED BY <1>1, SafeInvariant, PTL

\* Items are written only under a node whose path is filled in: upsertNode
\* repairs a row that a dead or slower request left without one.
THEOREM PathBeforeItems == Spec => []ItemsNeedPath
<1>1. SafeInv => ItemsNeedPath
  BY DEF SafeInv
<1> QED BY <1>1, SafeInvariant, PTL

\* Every item belongs to the schema of the node it is filed under.
THEOREM ItemsOfOwnSchema == Spec => []NoForeignItems
<1>1. SafeInv => NoForeignItems
  BY DEF SafeInv
<1> QED BY <1>1, SafeInvariant, PTL

-----------------------------------------------------------------------------
(* Overlapping scans of one schema converge *)

\* Nothing has failed, died or changed so far.
Calm == fails = 0 /\ ddls = 0 /\ \A w \in Requests : pc[w] # "dead"

\* Request w has yet to write the row of table t of node n.
Pending(w, n, t) ==
    /\ node[w] = n
    /\ \/ pc[w] = "tables"
       \/ pc[w] \in {"table", "insert", "update"} /\ t \in tabs[w]
       \/ pc[w] = "insert" /\ t = tab[w]

\* Node n is scanned, or some request is writing its rows.
Filled(n) ==
    status[n] = Scanned \/ \E w \in Requests : pc[w] \in TablePCs /\ node[w] = n

\* A table that a filled node lacks is still to be written by some request: the
\* one that deleted the rows comes to the table later.
NothingLost ==
    Calm => \A n \in NodeIds, r \in Resources, s \in Schemas :
        nodeKey[n] = <<r, s>> /\ Filled(n) =>
            \A t \in TablesOf(r, s) \ items[n] : \E w \in Requests : Pending(w, n, t)

\* A missing row is not scanned, and a schema that never changed has one version.
Bookkeeping ==
    /\ \A n \in NodeIds : nodeKey[n] = None => status[n] # Scanned
    /\ ddls = 0 => \A r \in Resources, s \in Schemas : versions[r][s] = {TablesOf(r, s)}

ConvergeInv == SafeInv /\ NothingLost /\ Bookkeeping

\* What has failed, died or changed stays so.
LEMMA CalmBefore ==
  ASSUME SafeInv, [Next]_vars, Calm'
  PROVE  Calm /\ ~Environment
<1>1. fails \in Nat /\ ddls \in Nat
  BY ConstantsAssumption DEF SafeInv, TypeOK
<1>2. UNCHANGED vars => Calm
  BY DEF vars, Calm
<1>3. ASSUME NEW w \in Requests, Begin(w) PROVE Calm
  <2>1. /\ UNCHANGED <<ddls, fails>> /\ pc[w] # "dead"
        /\ \A v \in Requests \ {w} : pc'[v] = pc[v]
    BY <1>3 DEF Begin, BeginAuto, BeginManual, SafeInv, TypeOK
  <2> QED BY <2>1 DEF Calm
<1>4. ASSUME NEW w \in Requests, Step(w) PROVE Calm
  <2>1. /\ UNCHANGED <<ddls, fails>> /\ pc[w] # "dead"
        /\ \A v \in Requests \ {w} : pc'[v] = pc[v]
    BY <1>4 DEF Step, FetchResources, NextResource, EnsureRead, EnsureCreate, Connect,
       NextSchema, CheckNode, UpsertRead, CreateNode, SetPath, ResetNodeState,
       DeleteItems, ScanTables, FinalizeUnscanned, NextTable, InsertItem, UpdateItem,
       FinalizeScanned, FinishSuccess, FinishFailed, SafeInv, TypeOK
  <2> QED BY <2>1 DEF Calm
<1>5. ~Environment
  <2>1. ASSUME NEW w \in Requests, SkipTable(w) \/ StatementFails(w) PROVE FALSE
    BY <1>1, <2>1 DEF SkipTable, StatementFails, Calm
  <2>2. ASSUME NEW r \in Resources, NEW s \in Schemas, SourceChange(r, s) PROVE FALSE
    BY <1>1, <2>2 DEF SourceChange, Calm
  <2>3. ASSUME Crash PROVE FALSE
    BY <2>3 DEF Crash, Calm
  <2> QED BY <2>1, <2>2, <2>3 DEF Environment
<1> QED BY <1>2, <1>3, <1>4, <1>5 DEF Next, Idle

\* A step of w outside the rewriting of a node: nothing is lost by it.
LEMMA OutsideWork ==
  ASSUME SafeInv, NothingLost, Calm, NEW w \in Requests,
         UNCHANGED <<source, nodeKey, items>>,
         pc[w] \notin TablePCs \cup {"tables"}, pc'[w] \notin TablePCs,
         \A n \in NodeIds : status'[n] = Scanned => status[n] = Scanned,
         \A v \in Requests \ {w} : /\ pc'[v] = pc[v] /\ node'[v] = node[v]
                                   /\ tabs'[v] = tabs[v] /\ tab'[v] = tab[v]
  PROVE  NothingLost'
<1>1. ASSUME NEW n \in NodeIds, Filled(n)' PROVE Filled(n)
  BY <1>1 DEF Filled
<1>2. ASSUME NEW v \in Requests, NEW n, NEW t, Pending(v, n, t) PROVE Pending(v, n, t)'
  BY <1>2 DEF Pending
<1>3. \A r, s : TablesOf(r, s)' = TablesOf(r, s)
  BY DEF TablesOf
<1> QED BY <1>1, <1>2, <1>3 DEF NothingLost

\* A step of w on its own node: what it owes after it covers what the node lacks.
LEMMA OnOwnNode ==
  ASSUME SafeInv, NothingLost, Calm, NEW w \in Requests,
         UNCHANGED <<source, nodeKey, node>>, pc[w] \in NodePCs,
         \A n \in NodeIds \ {node[w]} : items'[n] = items[n] /\ status'[n] = status[n],
         \A v \in Requests \ {w} : /\ pc'[v] = pc[v]
                                   /\ tabs'[v] = tabs[v] /\ tab'[v] = tab[v],
         Filled(node[w])' =>
            \A t \in TablesOf(res[w], schema[w]) \ items'[node[w]] :
               \E v \in Requests : Pending(v, node[w], t)'
  PROVE  NothingLost'
<1>1. /\ node[w] \in NodeIds /\ nodeKey[node[w]] = <<res[w], schema[w]>>
  BY DEF SafeInv, LocalOK
<1>2. \A r, s : TablesOf(r, s)' = TablesOf(r, s)
  BY DEF TablesOf
<1>3. ASSUME NEW n \in NodeIds, NEW r \in Resources, NEW s \in Schemas,
             nodeKey[n] = <<r, s>>, Filled(n)', NEW t \in TablesOf(r, s) \ items'[n]
      PROVE  \E v \in Requests : Pending(v, n, t)'
  <2>1. CASE n = node[w]
    BY <1>1, <1>3, <2>1
  <2>2. CASE n # node[w]
    <3>1. Filled(n) /\ t \in TablesOf(r, s) \ items[n]
      BY <1>3, <2>2 DEF Filled
    <3>2. PICK v \in Requests : Pending(v, n, t)
      BY <1>3, <3>1 DEF NothingLost
    <3>3. v # w
      BY <2>2, <3>2 DEF Pending
    <3> QED BY <3>2, <3>3 DEF Pending
  <2> QED BY <2>1, <2>2
<1> QED BY <1>2, <1>3 DEF NothingLost

\* The steps that rewrite a node.
LEMMA WorkKeeps ==
  ASSUME SafeInv, NothingLost, Calm, NEW w \in Requests,
         \/ DeleteItems(w) \/ ScanTables(w) \/ NextTable(w) \/ InsertItem(w)
         \/ UpdateItem(w) \/ FinalizeScanned(w)
  PROVE  NothingLost'
<1> DEFINE n == node[w]
           Lacks == TablesOf(res[w], schema[w]) \ items[n]
<1>1. /\ TypeOK /\ LocalOK(w) /\ pc[w] \in NodePCs
      /\ UNCHANGED <<source, nodeKey, node>>
      /\ \A v \in Requests \ {w} : /\ pc'[v] = pc[v]
                                   /\ tabs'[v] = tabs[v] /\ tab'[v] = tab[v]
  BY DEF SafeInv, TypeOK, DeleteItems, ScanTables, NextTable, InsertItem, UpdateItem,
         FinalizeScanned
<1>2. /\ n \in NodeIds /\ res[w] \in Resources /\ schema[w] \in Schemas
      /\ nodeKey[n] = <<res[w], schema[w]>>
  BY <1>1 DEF LocalOK
<1>3. \A m \in NodeIds \ {n} : items'[m] = items[m] /\ status'[m] = status[m]
  BY <1>1 DEF TypeOK, DeleteItems, ScanTables, NextTable, InsertItem, UpdateItem,
              FinalizeScanned
<1>4. pc[w] \in TablePCs => \A t \in Lacks : \E v \in Requests : Pending(v, n, t)
  BY <1>2 DEF NothingLost, Filled
<1>5. ASSUME NEW v \in Requests, NEW t, Pending(v, n, t), v # w
      PROVE  Pending(v, n, t)'
  BY <1>1, <1>5 DEF Pending
<1>6. CASE DeleteItems(w)
  <2>1. pc'[w] = "tables" /\ node'[w] = n
    BY <1>1, <1>6 DEF DeleteItems, TypeOK
  <2>2. \A t : Pending(w, n, t)'
    BY <2>1 DEF Pending
  <2> QED BY <1>1, <1>3, <2>2, OnOwnNode
<1>7. CASE ScanTables(w)
  <2>1. pc'[w] = "table" /\ tabs'[w] = TablesOf(res[w], schema[w]) /\ node'[w] = n
    BY <1>1, <1>7 DEF ScanTables, TypeOK
  <2>2. \A t \in TablesOf(res[w], schema[w]) : Pending(w, n, t)'
    BY <2>1 DEF Pending
  <2> QED BY <1>1, <1>3, <2>2, OnOwnNode
<1>8. CASE NextTable(w)
  <2>1. /\ items' = items /\ pc[w] = "table" /\ node'[w] = n
        /\ \/ tabs[w] = {}
           \/ \E t \in tabs[w] :
                 /\ tabs'[w] = tabs[w] \ {t} /\ tab'[w] = t
                 /\ pc'[w] = IF t \in items[n] THEN "update" ELSE "insert"
    BY <1>1, <1>8 DEF NextTable, TypeOK
  <2>2. ASSUME NEW t \in Lacks, Pending(w, n, t) PROVE Pending(w, n, t)'
    BY <2>1, <2>2 DEF Pending
  <2> QED BY <1>1, <1>3, <1>4, <1>5, <2>1, <2>2, OnOwnNode
<1>9. CASE InsertItem(w)
  <2>1. /\ items'[n] = items[n] \cup {tab[w]} /\ pc[w] = "insert" /\ pc'[w] = "table"
        /\ node'[w] = n /\ tabs'[w] = tabs[w]
    BY <1>1, <1>2, <1>9 DEF InsertItem, TypeOK
  <2>2. ASSUME NEW t \in Lacks \ {tab[w]}, Pending(w, n, t) PROVE Pending(w, n, t)'
    BY <2>1, <2>2 DEF Pending
  <2> QED BY <1>1, <1>3, <1>4, <1>5, <2>1, <2>2, OnOwnNode
<1>10. CASE UpdateItem(w)
  <2>1. /\ items' = items /\ pc[w] = "update" /\ pc'[w] = "table"
        /\ node'[w] = n /\ tabs'[w] = tabs[w]
    BY <1>1, <1>10 DEF UpdateItem, TypeOK
  <2>2. ASSUME NEW t \in Lacks, Pending(w, n, t) PROVE Pending(w, n, t)'
    BY <2>1, <2>2 DEF Pending
  <2> QED BY <1>1, <1>3, <1>4, <1>5, <2>1, <2>2, OnOwnNode
<1>11. CASE FinalizeScanned(w)
  <2>1. items' = items /\ pc[w] = "finalize"
    BY <1>1, <1>11 DEF FinalizeScanned, TypeOK
  <2>2. \A t : ~Pending(w, n, t)
    BY <2>1 DEF Pending
  <2> QED BY <1>1, <1>3, <1>4, <1>5, <2>1, <2>2, OnOwnNode
<1> QED BY <1>6, <1>7, <1>8, <1>9, <1>10, <1>11

\* A new node is neither scanned nor worked on.
LEMMA CreateKeeps ==
  ASSUME SafeInv, NothingLost, Bookkeeping, Calm, NEW w \in Requests, CreateNode(w)
  PROVE  NothingLost'
<1>1. PICK n \in NodeIds :
        /\ nodeKey[n] = None
        /\ nodeKey' = [nodeKey EXCEPT ![n] = <<res[w], schema[w]>>]
        /\ node' = [node EXCEPT ![w] = n]
  BY DEF CreateNode, FreshId
<1>2. /\ pc[w] = "create" /\ pc'[w] = "path" /\ UNCHANGED <<source, status, items, tabs, tab>>
      /\ \A v \in Requests \ {w} : pc'[v] = pc[v] /\ node'[v] = node[v]
      /\ \A m \in NodeIds \ {n} : nodeKey'[m] = nodeKey[m]
  BY <1>1 DEF CreateNode, SafeInv, TypeOK
<1>3. ~Filled(n)'
  <2>1. status'[n] # Scanned
    BY <1>1, <1>2 DEF Bookkeeping
  <2>2. ASSUME NEW v \in Requests, pc'[v] \in TablePCs PROVE node'[v] # n
    <3>1. v # w
      BY <1>2, <2>2
    <3> QED BY <1>1, <1>2, <2>2, <3>1, NodeExists
  <2> QED BY <2>1, <2>2 DEF Filled
<1>4. ASSUME NEW m \in NodeIds \ {n}, Filled(m)' PROVE Filled(m)
  BY <1>2, <1>4 DEF Filled
<1>5. ASSUME NEW v \in Requests, NEW m, NEW t, Pending(v, m, t) PROVE Pending(v, m, t)'
  BY <1>2, <1>5 DEF Pending
<1>6. \A r, s : TablesOf(r, s)' = TablesOf(r, s)
  BY <1>2 DEF TablesOf
<1> QED BY <1>2, <1>3, <1>4, <1>5, <1>6 DEF NothingLost

\* The steps before and after the rewriting of a node.
LEMMA OutsideKeeps ==
  ASSUME SafeInv, NothingLost, Calm, NEW w \in Requests,
         \/ Begin(w) \/ FetchResources(w) \/ NextResource(w) \/ EnsureRead(w)
         \/ EnsureCreate(w) \/ Connect(w) \/ NextSchema(w) \/ CheckNode(w)
         \/ UpsertRead(w) \/ SetPath(w) \/ ResetNodeState(w) \/ FinalizeUnscanned(w)
         \/ FinishSuccess(w) \/ FinishFailed(w)
  PROVE  NothingLost'
<1>1. TypeOK
  BY DEF SafeInv
<1>2. /\ UNCHANGED <<source, nodeKey, items>>
      /\ pc[w] \notin TablePCs \cup {"tables"} /\ pc'[w] \notin TablePCs
      /\ \A v \in Requests \ {w} : /\ pc'[v] = pc[v] /\ node'[v] = node[v]
                                   /\ tabs'[v] = tabs[v] /\ tab'[v] = tab[v]
  BY <1>1 DEF TypeOK, Begin, BeginAuto, BeginManual, FetchResources, NextResource, EnsureRead,
     EnsureCreate, AbortTo, Connect, NextSchema, CheckNode, UpsertRead, SetPath,
     ResetNodeState, FinalizeUnscanned, FinishSuccess, FinishFailed
<1>3. \A n \in NodeIds : status'[n] = Scanned => status[n] = Scanned
  BY <1>1 DEF TypeOK, Begin, BeginAuto, BeginManual, FetchResources, NextResource, EnsureRead,
     EnsureCreate, Connect, NextSchema, CheckNode, UpsertRead, SetPath,
     ResetNodeState, FinalizeUnscanned, FinishSuccess, FinishFailed
<1> QED BY <1>2, <1>3, OutsideWork

\* Only existing rows are finalized, and no row disappears.
LEMMA RowsFinalized ==
  ASSUME SafeInv, Bookkeeping, NEW w \in Requests, Begin(w) \/ Step(w),
         NEW n \in NodeIds, nodeKey'[n] = None
  PROVE  status'[n] # Scanned
<1>1. TypeOK
  BY DEF SafeInv
<1>2. CASE CreateNode(w)
  <2>1. PICK m \in NodeIds : nodeKey' = [nodeKey EXCEPT ![m] = <<res[w], schema[w]>>]
    BY <1>2 DEF CreateNode
  <2>2. <<res[w], schema[w]>> # None
    <3>1. res[w] \in Resources /\ schema[w] \in Schemas
      BY <1>2 DEF SafeInv, LocalOK, CreateNode
    <3> QED BY ONLY <3>1, KeyIsNotNone
  <2>3. nodeKey[n] = None /\ UNCHANGED status
    BY <1>1, <1>2, <2>1, <2>2 DEF CreateNode, TypeOK
  <2> QED BY <2>3 DEF Bookkeeping
<1>3. CASE FinalizeScanned(w)
  <2>1. pc[w] = "finalize" /\ UNCHANGED nodeKey
        /\ status' = [status EXCEPT ![node[w]] = Scanned]
    BY <1>3 DEF FinalizeScanned
  <2>2. n # node[w]
    BY <2>1, NodeExists
  <2> QED BY <1>1, <2>1, <2>2 DEF Bookkeeping, TypeOK
<1>4. CASE ~CreateNode(w) /\ ~FinalizeScanned(w)
  <2>1. UNCHANGED nodeKey /\ (status'[n] = Scanned => status[n] = Scanned)
    BY <1>1, <1>4 DEF Begin, Step, BeginAuto, BeginManual, FetchResources, NextResource,
       EnsureRead, EnsureCreate, Connect, NextSchema, CheckNode, UpsertRead, SetPath,
       ResetNodeState, DeleteItems, ScanTables, FinalizeUnscanned, NextTable, InsertItem,
       UpdateItem, FinishSuccess, FinishFailed, TypeOK
  <2> QED BY <2>1 DEF Bookkeeping
<1> QED BY <1>2, <1>3, <1>4

\* A step of a request leaves the scanned databases alone.
LEMMA SourceUntouched ==
  ASSUME NEW w \in Requests, Begin(w) \/ Step(w) PROVE UNCHANGED <<source, versions, ddls>>
  BY DEF Begin, Step, BeginAuto, BeginManual, FetchResources, NextResource,
     EnsureRead, EnsureCreate, Connect, NextSchema, CheckNode, UpsertRead, CreateNode,
     SetPath, ResetNodeState, DeleteItems, ScanTables, FinalizeUnscanned, NextTable,
     InsertItem, UpdateItem, FinalizeScanned, FinishSuccess, FinishFailed

\* Bookkeeping is preserved.
LEMMA BookkeepingKept == ASSUME SafeInv, Bookkeeping, [Next]_vars PROVE Bookkeeping'
<1>1. CASE UNCHANGED <<nodeKey, status, source, versions, ddls>>
  BY <1>1 DEF Bookkeeping, TablesOf
<1>2. ASSUME NEW w \in Requests, Begin(w) \/ Step(w) PROVE Bookkeeping'
  <2>1. \A n \in NodeIds : nodeKey'[n] = None => status'[n] # Scanned
    BY <1>2, RowsFinalized
  <2>2. UNCHANGED <<source, versions, ddls>>
    BY <1>2, SourceUntouched
  <2> QED BY <2>1, <2>2 DEF Bookkeeping, TablesOf
<1>3. ASSUME NEW r \in Resources, NEW s \in Schemas, SourceChange(r, s) PROVE Bookkeeping'
  <2>1. ddls' # 0 /\ UNCHANGED <<nodeKey, status>>
    BY <1>3, ConstantsAssumption DEF SourceChange, SafeInv, TypeOK, ConstantsAssumption
  <2> QED BY <2>1 DEF Bookkeeping
<1>4. CASE Environment
  BY <1>1, <1>3, <1>4 DEF Environment, SkipTable, StatementFails, Crash
<1>5. CASE UNCHANGED vars
  BY <1>1, <1>5 DEF vars
<1> QED BY <1>2, <1>4, <1>5 DEF Next, Idle

\* The initial states satisfy ConvergeInv.
LEMMA ConvergeInit == Init => ConvergeInv
<1> SUFFICES ASSUME Init PROVE ConvergeInv
  OBVIOUS
<1>1. NothingLost
  BY DEF Init, NothingLost, Filled
<1>2. Bookkeeping
  BY DEF Init, Bookkeeping
<1> QED BY <1>1, <1>2, SafeInit DEF ConvergeInv

\* Every step preserves ConvergeInv.
LEMMA ConvergeNext == ConvergeInv /\ [Next]_vars => ConvergeInv'
<1> SUFFICES ASSUME ConvergeInv, [Next]_vars PROVE ConvergeInv'
  OBVIOUS
<1>1. SafeInv /\ NothingLost /\ Bookkeeping
  BY DEF ConvergeInv
<1>2. SafeInv' /\ Bookkeeping'
  BY <1>1, SafeNext, BookkeepingKept
<1>3. ASSUME Calm' PROVE NothingLost'
  <2>1. Calm /\ ~Environment
    BY <1>1, <1>3, CalmBefore
  <2>2. ASSUME NEW w \in Requests, Begin(w) \/ Step(w) PROVE NothingLost'
    BY <1>1, <2>1, <2>2, OutsideKeeps, CreateKeeps, WorkKeeps DEF Step
  <2>3. CASE UNCHANGED vars
    BY <1>1, <2>3 DEF vars, NothingLost, Calm, Filled, Pending, TablesOf
  <2> QED BY <2>1, <2>2, <2>3 DEF Next, Idle
<1>4. NothingLost'
  BY <1>3 DEF NothingLost
<1> QED BY <1>2, <1>4 DEF ConvergeInv

\* ConvergeInv holds in every state of every behaviour of Spec.
THEOREM ConvergeInvariant == Spec => []ConvergeInv
  BY ConvergeInit, ConvergeNext, PTL DEF Spec

\* When all requests are over, nothing is pending and no node is being written.
LEMMA Converged == ConvergeInv => OverlapConverges
<1> SUFFICES ASSUME ConvergeInv, \A w \in Requests : pc[w] = "done", fails = 0, ddls = 0,
                    NEW n \in NodeIds, NEW r \in Resources, NEW s \in Schemas,
                    nodeKey[n] = <<r, s>>, status[n] = Scanned
             PROVE  items[n] = TablesOf(r, s)
  BY DEF OverlapConverges
<1>1. SafeInv /\ NothingLost /\ Bookkeeping
  BY DEF ConvergeInv
<1>2. Calm /\ \A w \in Requests : \A t : ~Pending(w, n, t)
  BY DEF Calm, Pending
<1>3. TablesOf(r, s) \subseteq items[n]
  BY <1>1, <1>2 DEF NothingLost, Filled
<1>4. items[n] \subseteq UNION versions[r][s] /\ versions[r][s] = {TablesOf(r, s)}
  BY <1>1 DEF SafeInv, NoForeignItems, Bookkeeping
<1> QED BY <1>3, <1>4

\* However scans of the same schema overlap, once all are over and nothing failed
\* or changed meanwhile, every scanned node holds the whole table list. (The
\* inductive argument needs NothingLost: what one scan deletes from a node is on
\* the list of a scan that has still to write it.)
THEOREM OverlapsConverge == Spec => []OverlapConverges
  BY ConvergeInvariant, Converged, PTL

-----------------------------------------------------------------------------
(* Scans that do not overlap: SerialInv, on top of SafeInv *)

\* What a request that nobody disturbs knows of its node.
SerialLocal(w) ==
    /\ pc[w] # "update"
    /\ pc[w] = "create" => Matching(w) = {}
    /\ pc[w] \in {"tables", "unscanned"} =>
          items[node[w]] = {} /\ lost[node[w]] = {}
    /\ pc[w] \in TablePCs =>
          /\ cnt[w] = Cardinality(items[node[w]])
          /\ items[node[w]] \cap tabs[w] = {}
          /\ lost[node[w]] \cap tabs[w] = {}
          /\ items[node[w]] \cap lost[node[w]] = {}
    /\ pc[w] = "insert" =>
          tab[w] \notin items[node[w]] \cup lost[node[w]] \cup tabs[w]
    /\ pc[w] = "finalize" => tabs[w] = {}
    /\ pc[w] \in {"table", "finalize"} =>
          items[node[w]] \cup lost[node[w]] \cup tabs[w]
             \in versions[res[w]][schema[w]]
    /\ pc[w] = "insert" =>
          items[node[w]] \cup lost[node[w]] \cup tabs[w] \cup {tab[w]}
             \in versions[res[w]][schema[w]]

\* An automatic scan creates the node it writes to, or writes to one that is
\* not finished.
AutoLocal(w) ==
    kind[w] = "auto" =>
        /\ pc[w] = "upsert" => Matching(w) = {}
        /\ pc[w] \in {"path", "reset"} => status[node[w]] # Scanned

OneActive == \A v, w \in Requests : Active(v) /\ Active(w) => v = w

\* A row that does not exist yet has the column values of an INSERT.
FreshRows ==
    \A n \in NodeIds : nodeKey[n] = None => status[n] = Unscanned

\* The part of the serial invariant that is about the tables of the database ...
RowsOK == FreshRows /\ UniqueTopNode /\ CatalogConsistent /\ SnapshotExact

\* ... and the part that is about one request.
RequestOK(w) ==
    /\ SerialLocal(w)
    /\ AutoLocal(w)
    /\ Working(w) => status[node[w]] = Scanning

\* The inductive invariant of SerialSpec, on top of SafeInv.
SerialInv == OneActive /\ RowsOK /\ \A w \in Requests : RequestOK(w)

-----------------------------------------------------------------------------
\* A step of the one active request leaves nothing to show of the others.
LEMMA Alone ==
  ASSUME SafeInv, SerialInv, NEW w \in Requests, pc[w] \in ActivePCs,
         UNCHANGED pc \/ \E p \in PCs : Goto(w, p), RowsOK', RequestOK(w)'
  PROVE  SerialInv'
<1>1. \A v \in Requests \ {w} : pc'[v] = pc[v] /\ pc[v] \notin ActivePCs
  BY DEF SafeInv, TypeOK, SerialInv, OneActive, Active
<1>2. OneActive'
  BY <1>1 DEF OneActive, Active
<1>3. ASSUME NEW v \in Requests \ {w} PROVE RequestOK(v)'
  BY <1>1 DEF RequestOK, SerialLocal, AutoLocal, Working
<1> QED BY <1>2, <1>3 DEF SerialInv

\* A step that writes no row of meta_node or meta_item.
LEMMA RowsKept ==
  ASSUME SerialInv, UNCHANGED <<nodeKey, status, count, items, versions, lost>>
  PROVE  RowsOK'
  BY DEF SerialInv, RowsOK, FreshRows, UniqueTopNode, CatalogConsistent,
         SnapshotExact

\* A step after which a scanned node is one that was scanned before, with the
\* same rows, keeps SnapshotExact.
LEMMA SnapshotKept ==
  ASSUME SnapshotExact,
         \A m \in NodeIds : status'[m] = Scanned =>
            /\ nodeKey'[m] = nodeKey[m] /\ status[m] = Scanned
            /\ items'[m] = items[m] /\ lost'[m] = lost[m],
         \A p \in Resources, q \in Schemas : versions[p][q] \subseteq versions'[p][q]
  PROVE  SnapshotExact'
<1>1. ASSUME NEW m \in NodeIds, NEW p \in Resources, NEW q \in Schemas,
             nodeKey'[m] = <<p, q>>, status'[m] = Scanned
      PROVE  /\ items'[m] \cup lost'[m] \in versions'[p][q]
             /\ items'[m] \cap lost'[m] = {}
  <2>1. /\ nodeKey[m] = <<p, q>> /\ status[m] = Scanned
        /\ items'[m] = items[m] /\ lost'[m] = lost[m]
    BY <1>1
  <2>2. items[m] \cup lost[m] \in versions[p][q] /\ items[m] \cap lost[m] = {}
    BY <2>1 DEF SnapshotExact
  <2> QED BY <2>1, <2>2
<1> QED BY <1>1 DEF SnapshotExact

\* FetchResources preserves SerialInv.
LEMMA SerialFetchResources ==
  ASSUME SafeInv, SerialInv, NEW w \in Requests, FetchResources(w) PROVE SerialInv'
<1>1. RowsOK'
  BY RowsKept DEF FetchResources, SafeInv, TypeOK
<1>2. RequestOK(w)'
  BY DEF SafeInv, TypeOK, LocalOK, SerialInv, RequestOK, SerialLocal, AutoLocal,
      Working, FetchResources
<1> QED BY <1>1, <1>2, Alone DEF FetchResources

\* NextResource preserves SerialInv.
LEMMA SerialNextResource ==
  ASSUME SafeInv, SerialInv, NEW w \in Requests, NextResource(w) PROVE SerialInv'
<1>1. RowsOK'
  BY RowsKept DEF NextResource, SafeInv, TypeOK
<1>2. RequestOK(w)'
  BY DEF SafeInv, TypeOK, LocalOK, SerialInv, RequestOK, SerialLocal, AutoLocal,
      Working, NextResource
<1> QED BY <1>1, <1>2, Alone DEF NextResource

\* EnsureRead preserves SerialInv.
LEMMA SerialEnsureRead ==
  ASSUME SafeInv, SerialInv, NEW w \in Requests, EnsureRead(w) PROVE SerialInv'
<1>1. RowsOK'
  BY RowsKept DEF EnsureRead, SafeInv, TypeOK
<1>2. RequestOK(w)'
  BY DEF SafeInv, TypeOK, LocalOK, SerialInv, RequestOK, SerialLocal, AutoLocal,
      Working, EnsureRead
<1> QED BY <1>1, <1>2, Alone DEF EnsureRead

\* EnsureCreate preserves SerialInv.
LEMMA SerialEnsureCreate ==
  ASSUME SafeInv, SerialInv, NEW w \in Requests, EnsureCreate(w) PROVE SerialInv'
<1>1. RowsOK'
  BY RowsKept DEF EnsureCreate, SafeInv, TypeOK
<1>2. RequestOK(w)'
  BY DEF SafeInv, TypeOK, LocalOK, SerialInv, RequestOK, SerialLocal, AutoLocal,
      Working, EnsureCreate, AbortTo
<1> QED BY <1>1, <1>2, Alone DEF EnsureCreate, AbortTo

\* Connect preserves SerialInv.
LEMMA SerialConnect ==
  ASSUME SafeInv, SerialInv, NEW w \in Requests, Connect(w) PROVE SerialInv'
<1>1. RowsOK'
  BY RowsKept DEF Connect, SafeInv, TypeOK
<1>2. RequestOK(w)'
  BY DEF SafeInv, TypeOK, LocalOK, SerialInv, RequestOK, SerialLocal, AutoLocal,
      Working, Connect
<1> QED BY <1>1, <1>2, Alone DEF Connect

\* NextSchema preserves SerialInv.
LEMMA SerialNextSchema ==
  ASSUME SafeInv, SerialInv, NEW w \in Requests, NextSchema(w) PROVE SerialInv'
<1>1. RowsOK'
  BY RowsKept DEF NextSchema, SafeInv, TypeOK
<1>2. RequestOK(w)'
  BY DEF SafeInv, TypeOK, LocalOK, SerialInv, RequestOK, SerialLocal, AutoLocal,
      Working, NextSchema
<1> QED BY <1>1, <1>2, Alone DEF NextSchema

\* CheckNode preserves SerialInv.
LEMMA SerialCheckNode ==
  ASSUME SafeInv, SerialInv, NEW w \in Requests, CheckNode(w) PROVE SerialInv'
<1>1. RowsOK'
  BY RowsKept DEF CheckNode, SafeInv, TypeOK
<1>2. RequestOK(w)'
  BY DEF SafeInv, TypeOK, LocalOK, SerialInv, RequestOK, SerialLocal, AutoLocal,
      Working, CheckNode, Matching
<1> QED BY <1>1, <1>2, Alone DEF CheckNode

\* UpsertRead preserves SerialInv.
LEMMA SerialUpsertRead ==
  ASSUME SafeInv, SerialInv, NEW w \in Requests, UpsertRead(w) PROVE SerialInv'
<1>1. RowsOK'
  BY RowsKept DEF UpsertRead, SafeInv, TypeOK
<1>2. RequestOK(w)'
  <2>1. CASE Matching(w) = {} /\ Goto(w, "create") /\ UNCHANGED node
    <3>1. pc'[w] = "create" /\ Matching(w)' = {}
      BY <2>1 DEF SafeInv, TypeOK, UpsertRead, Matching
    <3> QED BY <3>1 DEF RequestOK, SerialLocal, AutoLocal, Working
  <2>2. ASSUME NEW n \in Matching(w),
               node' = [node EXCEPT ![w] = n],
               Goto(w, IF n \in pathed THEN "reset" ELSE "path")
        PROVE  RequestOK(w)'
    <3>1. pc'[w] \in {"reset", "path"}
      BY <2>2 DEF SafeInv, TypeOK
    <3>2. pc[w] = "upsert" /\ kind' = kind
      BY DEF UpsertRead
    <3>3. kind[w] # "auto"
      BY <3>2 DEF SerialInv, RequestOK, AutoLocal
    <3> QED BY <3>1, <3>2, <3>3 DEF RequestOK, SerialLocal, AutoLocal, Working
  <2> QED BY <2>1, <2>2 DEF UpsertRead
<1> QED BY <1>1, <1>2, Alone DEF UpsertRead

\* SetPath preserves SerialInv.
LEMMA SerialSetPath ==
  ASSUME SafeInv, SerialInv, NEW w \in Requests, SetPath(w) PROVE SerialInv'
<1>1. RowsOK'
  BY RowsKept DEF SetPath, SafeInv, TypeOK
<1>2. RequestOK(w)'
  <2>1. pc[w] = "path" /\ pc'[w] = "reset" /\ UNCHANGED <<kind, node, status>>
    BY DEF SafeInv, TypeOK, SetPath
  <2> QED BY <2>1 DEF SerialInv, RequestOK, SerialLocal, AutoLocal, Working
<1> QED BY <1>1, <1>2, Alone DEF SetPath

\* ScanTables preserves SerialInv.
LEMMA SerialScanTables ==
  ASSUME SafeInv, SerialInv, NEW w \in Requests, ScanTables(w) PROVE SerialInv'
<1>1. RowsOK'
  BY RowsKept DEF ScanTables, SafeInv, TypeOK
<1>2. RequestOK(w)'
  <2>1. pc[w] = "tables" /\ pc'[w] = "table"
    BY DEF SafeInv, TypeOK, ScanTables
  <2>2. items[node[w]] = {} /\ lost[node[w]] = {} /\ status[node[w]] = Scanning
    BY <2>1 DEF SerialInv, RequestOK, SerialLocal, Working
  <2>3. cnt'[w] = 0 /\ tabs'[w] = TablesOf(res[w], schema[w])
    BY DEF SafeInv, TypeOK, ScanTables
  <2>4. tabs'[w] \in versions[res[w]][schema[w]]
    <3>1. res[w] \in Resources /\ schema[w] \in Schemas
      BY <2>1 DEF SafeInv, LocalOK
    <3> QED BY <2>3, <3>1 DEF SafeInv, SourceRecorded
  <2>5. UNCHANGED <<items, lost, node, status, versions, res, schema>>
    BY DEF ScanTables, envVars
  <2>6. Cardinality(items[node[w]]) = 0
    BY <2>2, FS_EmptySet
  <2>7. items[node[w]] \cup lost[node[w]] \cup tabs'[w] = tabs'[w]
    BY <2>2
  <2> QED BY <2>1, <2>2, <2>3, <2>4, <2>5, <2>6, <2>7
          DEF RequestOK, SerialLocal, AutoLocal, Working
<1> QED BY <1>1, <1>2, Alone DEF ScanTables

\* NextTable preserves SerialInv.
LEMMA SerialNextTable ==
  ASSUME SafeInv, SerialInv, NEW w \in Requests, NextTable(w) PROVE SerialInv'
<1>1. RowsOK'
  BY RowsKept DEF NextTable, SafeInv, TypeOK
<1>2. RequestOK(w)'
  <2>1. /\ pc[w] = "table"
        /\ UNCHANGED <<items, lost, node, status, versions, res, schema, cnt>>
    BY DEF NextTable, envVars
  <2>2. /\ cnt[w] = Cardinality(items[node[w]])
        /\ items[node[w]] \cap tabs[w] = {}
        /\ lost[node[w]] \cap tabs[w] = {}
        /\ items[node[w]] \cap lost[node[w]] = {}
        /\ status[node[w]] = Scanning
        /\ items[node[w]] \cup lost[node[w]] \cup tabs[w]
              \in versions[res[w]][schema[w]]
    BY <2>1 DEF SerialInv, RequestOK, SerialLocal, Working
  <2>3. CASE tabs[w] = {} /\ Goto(w, "finalize") /\ UNCHANGED <<tabs, tab>>
    <3>1. pc'[w] = "finalize"
      BY <2>3 DEF SafeInv, TypeOK
    <3> QED BY <2>1, <2>2, <2>3, <3>1 DEF RequestOK, SerialLocal, AutoLocal, Working
  <2>4. ASSUME NEW t \in tabs[w],
               tabs' = [tabs EXCEPT ![w] = @ \ {t}],
               tab' = [tab EXCEPT ![w] = t],
               Goto(w, IF t \in items[node[w]] THEN "update" ELSE "insert")
        PROVE  RequestOK(w)'
    <3>1. t \notin items[node[w]] \cup lost[node[w]]
      BY <2>2
    <3>2. pc'[w] = "insert" /\ tab'[w] = t /\ tabs'[w] = tabs[w] \ {t}
      BY <2>4, <3>1 DEF SafeInv, TypeOK
    <3>3. items[node[w]] \cup lost[node[w]] \cup tabs'[w] \cup {t}
             = items[node[w]] \cup lost[node[w]] \cup tabs[w]
      BY <3>2
    <3>4. /\ items[node[w]] \cap tabs'[w] = {}
          /\ lost[node[w]] \cap tabs'[w] = {}
          /\ t \notin tabs'[w]
      BY <2>2, <3>2
    <3> QED BY <2>1, <2>2, <3>1, <3>2, <3>3, <3>4
            DEF RequestOK, SerialLocal, AutoLocal, Working
  <2> QED BY <2>3, <2>4 DEF NextTable
<1> QED BY <1>1, <1>2, Alone DEF NextTable

\* UpdateItem preserves SerialInv.
LEMMA SerialUpdateItem ==
  ASSUME SafeInv, SerialInv, NEW w \in Requests, UpdateItem(w) PROVE SerialInv'
<1>1. RowsOK'
  BY RowsKept DEF UpdateItem, SafeInv, TypeOK
<1>2. RequestOK(w)'
  BY DEF SafeInv, TypeOK, LocalOK, SerialInv, RequestOK, SerialLocal, AutoLocal,
      Working, UpdateItem
<1> QED BY <1>1, <1>2, Alone DEF UpdateItem

\* FinishSuccess preserves SerialInv.
LEMMA SerialFinishSuccess ==
  ASSUME SafeInv, SerialInv, NEW w \in Requests, FinishSuccess(w) PROVE SerialInv'
<1>1. RowsOK'
  BY RowsKept DEF FinishSuccess, SafeInv, TypeOK
<1>2. RequestOK(w)'
  BY DEF SafeInv, TypeOK, LocalOK, SerialInv, RequestOK, SerialLocal, AutoLocal,
      Working, FinishSuccess
<1> QED BY <1>1, <1>2, Alone DEF FinishSuccess

\* FinishFailed preserves SerialInv.
LEMMA SerialFinishFailed ==
  ASSUME SafeInv, SerialInv, NEW w \in Requests, FinishFailed(w) PROVE SerialInv'
<1>1. RowsOK'
  BY RowsKept DEF FinishFailed, SafeInv, TypeOK
<1>2. RequestOK(w)'
  BY DEF SafeInv, TypeOK, LocalOK, SerialInv, RequestOK, SerialLocal, AutoLocal,
      Working, FinishFailed
<1> QED BY <1>1, <1>2, Alone DEF FinishFailed

\* SkipTable preserves SerialInv.
LEMMA SerialSkipTable ==
  ASSUME SafeInv, SerialInv, NEW w \in Requests, SkipTable(w) PROVE SerialInv'
<1> PICK t \in tabs[w] : /\ tabs' = [tabs EXCEPT ![w] = @ \ {t}]
                         /\ lost' = [lost EXCEPT ![node[w]] = @ \cup {t}]
  BY DEF SkipTable
<1>1. /\ pc[w] = "table" /\ pc' = pc
      /\ UNCHANGED <<nodeKey, items, node, status, count, versions, res, schema, cnt>>
  BY DEF SkipTable, dbVars
<1>2. /\ node[w] \in NodeIds
      /\ tabs'[w] = tabs[w] \ {t}
      /\ lost'[node[w]] = lost[node[w]] \cup {t}
      /\ \A m \in NodeIds \ {node[w]} : lost'[m] = lost[m]
  BY <1>1 DEF SafeInv, TypeOK, LocalOK
<1>3. /\ SerialLocal(w) /\ status[node[w]] = Scanning
  BY <1>1 DEF SerialInv, RequestOK, Working
<1>4. RowsOK'
  <2>1. SnapshotExact'
    BY <1>1, <1>2, <1>3, SnapshotKept DEF SerialInv, RowsOK
  <2> QED BY <1>1, <2>1 DEF SerialInv, RowsOK, FreshRows, UniqueTopNode,
          CatalogConsistent
<1>5. RequestOK(w)'
  <2>1. /\ t \notin items[node[w]]
        /\ items[node[w]] \cup lost'[node[w]] \cup tabs'[w]
              = items[node[w]] \cup lost[node[w]] \cup tabs[w]
        /\ items[node[w]] \cap tabs'[w] = {}
        /\ lost'[node[w]] \cap tabs'[w] = {}
        /\ items[node[w]] \cap lost'[node[w]] = {}
    BY <1>1, <1>2, <1>3 DEF SerialLocal
  <2> QED BY <1>1, <1>3, <2>1 DEF RequestOK, SerialLocal, AutoLocal, Working
<1> QED BY <1>1, <1>4, <1>5, Alone

\* StatementFails preserves SerialInv.
LEMMA SerialStatementFails ==
  ASSUME SafeInv, SerialInv, NEW w \in Requests, StatementFails(w) PROVE SerialInv'
<1>1. /\ pc'[w] = ErrorTo(w)
      /\ UNCHANGED <<nodeKey, items, node, status, count, versions, cnt, tabs,
                     res, schema>>
  BY DEF SafeInv, TypeOK, StatementFails, dbVars, reqVars
<1>2. CASE pc[w] = "insert"
  <2>1. pc'[w] = "table"
    BY <1>1, <1>2 DEF ErrorTo
  <2>2. /\ node[w] \in NodeIds
        /\ lost'[node[w]] = lost[node[w]] \cup {tab[w]}
        /\ \A m \in NodeIds \ {node[w]} : lost'[m] = lost[m]
    BY <1>2 DEF SafeInv, TypeOK, LocalOK, StatementFails
  <2>3. SerialLocal(w) /\ status[node[w]] = Scanning
    BY <1>2 DEF SerialInv, RequestOK, Working
  <2>4. RowsOK'
    <3>1. SnapshotExact'
      BY <1>1, <2>2, <2>3, SnapshotKept DEF SerialInv, RowsOK
    <3> QED BY <1>1, <3>1 DEF SerialInv, RowsOK, FreshRows, UniqueTopNode,
            CatalogConsistent
  <2>5. /\ items[node[w]] \cup lost'[node[w]] \cup tabs[w]
              = items[node[w]] \cup lost[node[w]] \cup tabs[w] \cup {tab[w]}
        /\ lost'[node[w]] \cap tabs[w] = {}
        /\ items[node[w]] \cap lost'[node[w]] = {}
    BY <1>2, <2>2, <2>3 DEF SerialLocal
  <2>6. RequestOK(w)'
    BY <1>1, <1>2, <2>1, <2>3, <2>5 DEF RequestOK, SerialLocal, AutoLocal, Working
  <2> QED BY <1>2, <2>1, <2>4, <2>6, Alone DEF StatementFails
<1>3. CASE pc[w] # "insert"
  <2>1. pc[w] # "update"
    BY DEF SerialInv, RequestOK, SerialLocal
  <2>2. lost' = lost
    BY <1>3, <2>1 DEF StatementFails
  <2>3. RowsOK'
    BY <1>1, <2>2, RowsKept
  <2>4. RequestOK(w)'
    <3>1. CASE pc[w] = "tables"
      <4>1. pc'[w] = "unscanned"
        BY <1>1, <3>1 DEF ErrorTo
      <4> QED BY <1>1, <2>2, <3>1, <4>1
              DEF SerialInv, RequestOK, SerialLocal, AutoLocal, Working
    <3>2. CASE pc[w] # "tables"
      <4>1. pc'[w] \in {"logfail", "nextres", "schema", "done"}
        BY <1>1, <1>3, <2>1, <3>2 DEF ErrorTo, AbortTo
      <4> QED BY <4>1 DEF RequestOK, SerialLocal, AutoLocal, Working
    <3> QED BY <3>1, <3>2
  <2>5. ErrorTo(w) \in PCs
    BY DEF ErrorTo, AbortTo
  <2> QED BY <2>3, <2>4, <2>5, Alone DEF StatementFails
<1> QED BY <1>2, <1>3

\* CreateNode preserves SerialInv: the new row is the first with its key.
LEMMA SerialCreateNode ==
  ASSUME SafeInv, SerialInv, NEW w \in Requests, CreateNode(w) PROVE SerialInv'
<1> PICK n \in NodeIds :
       /\ FreshId(n)
       /\ nodeKey' = [nodeKey EXCEPT ![n] = <<res[w], schema[w]>>]
       /\ node' = [node EXCEPT ![w] = n]
  BY DEF CreateNode
<1>1. /\ pc[w] = "create" /\ pc'[w] = "path"
      /\ UNCHANGED <<status, count, items, versions, lost, kind>>
  BY DEF SafeInv, TypeOK, CreateNode, envVars
<1>2. /\ node'[w] = n /\ nodeKey'[n] = <<res[w], schema[w]>>
      /\ \A m \in NodeIds \ {n} : nodeKey'[m] = nodeKey[m]
  BY DEF SafeInv, TypeOK
<1>3. nodeKey[n] = None /\ status[n] = Unscanned
  BY DEF FreshId, SerialInv, RowsOK, FreshRows
<1>4. \A m \in NodeIds : nodeKey[m] # <<res[w], schema[w]>>
  <2>1. Matching(w) = {}
    BY <1>1 DEF SerialInv, RequestOK, SerialLocal
  <2> QED BY ONLY <2>1 DEF Matching
<1>5. UniqueTopNode'
  <2>1. ASSUME NEW l \in NodeIds, NEW m \in NodeIds,
               nodeKey'[l] # None, nodeKey'[l] = nodeKey'[m]
        PROVE  l = m
    <3>1. CASE l = n \/ m = n
      BY <1>2, <1>4, <2>1, <3>1
    <3>2. CASE l # n /\ m # n
      BY <1>2, <2>1, <3>2 DEF SerialInv, RowsOK, UniqueTopNode
    <3> QED BY <3>1, <3>2
  <2> QED BY <2>1 DEF UniqueTopNode
<1>6. FreshRows'
  BY <1>1, <1>2, <1>3 DEF SerialInv, RowsOK, FreshRows
<1>7. CatalogConsistent'
  BY <1>1 DEF SerialInv, RowsOK, CatalogConsistent
<1>8. SnapshotExact'
  BY <1>1, <1>2, <1>3, SnapshotKept DEF SerialInv, RowsOK
<1>9. RequestOK(w)'
  BY <1>1, <1>2, <1>3 DEF RequestOK, SerialLocal, AutoLocal, Working
<1> QED BY <1>5, <1>6, <1>7, <1>8, <1>9, Alone DEF RowsOK, CreateNode

\* ResetNodeState preserves SerialInv.
LEMMA SerialResetNodeState ==
  ASSUME SafeInv, SerialInv, NEW w \in Requests, ResetNodeState(w)
  PROVE  SerialInv'
<1>1. /\ pc[w] = "reset" /\ pc'[w] = "delete"
      /\ UNCHANGED <<nodeKey, count, items, versions, lost, node>>
  BY DEF SafeInv, TypeOK, ResetNodeState, envVars
<1>2. /\ node[w] \in NodeIds /\ status'[node[w]] = Scanning
      /\ \A m \in NodeIds \ {node[w]} : status'[m] = status[m]
  BY DEF SafeInv, TypeOK, LocalOK, ResetNodeState
<1>3. nodeKey[node[w]] # None
  BY <1>1, NodeExists
<1>4. RowsOK'
  <2>1. SnapshotExact'
    BY <1>1, <1>2, SnapshotKept DEF SerialInv, RowsOK
  <2> QED BY <1>1, <1>2, <1>3, <2>1 DEF SerialInv, RowsOK, FreshRows,
          UniqueTopNode, CatalogConsistent
<1>5. RequestOK(w)'
  BY <1>1, <1>2 DEF RequestOK, SerialLocal, AutoLocal, Working
<1> QED BY <1>4, <1>5, Alone DEF ResetNodeState

\* DeleteItems preserves SerialInv.
LEMMA SerialDeleteItems ==
  ASSUME SafeInv, SerialInv, NEW w \in Requests, DeleteItems(w)
  PROVE  SerialInv'
<1>1. /\ pc[w] = "delete" /\ pc'[w] = "tables"
      /\ UNCHANGED <<nodeKey, count, status, versions, node>>
  BY DEF SafeInv, TypeOK, DeleteItems
<1>2. /\ node[w] \in NodeIds /\ items'[node[w]] = {} /\ lost'[node[w]] = {}
      /\ \A m \in NodeIds \ {node[w]} : items'[m] = items[m] /\ lost'[m] = lost[m]
  BY DEF SafeInv, TypeOK, LocalOK, DeleteItems
<1>3. status[node[w]] = Scanning
  BY <1>1 DEF SerialInv, RequestOK, Working
<1>4. RowsOK'
  <2>1. SnapshotExact'
    BY <1>1, <1>2, <1>3, SnapshotKept DEF SerialInv, RowsOK
  <2> QED BY <1>1, <1>2, <1>3, <2>1 DEF SerialInv, RowsOK, FreshRows,
          UniqueTopNode, CatalogConsistent
<1>5. RequestOK(w)'
  BY <1>1, <1>2, <1>3 DEF RequestOK, SerialLocal, AutoLocal, Working
<1> QED BY <1>4, <1>5, Alone DEF DeleteItems

\* FinalizeUnscanned preserves SerialInv.
LEMMA SerialFinalizeUnscanned ==
  ASSUME SafeInv, SerialInv, NEW w \in Requests, FinalizeUnscanned(w)
  PROVE  SerialInv'
<1>1. /\ pc[w] = "unscanned" /\ pc'[w] = "schema"
      /\ UNCHANGED <<nodeKey, items, versions, lost, node>>
  BY DEF SafeInv, TypeOK, FinalizeUnscanned, envVars
<1>2. /\ node[w] \in NodeIds
      /\ status'[node[w]] = Unscanned /\ count'[node[w]] = 0
      /\ \A m \in NodeIds \ {node[w]} :
            status'[m] = status[m] /\ count'[m] = count[m]
  BY DEF SafeInv, TypeOK, LocalOK, FinalizeUnscanned
<1>3. items[node[w]] = {}
  BY <1>1 DEF SerialInv, RequestOK, SerialLocal
<1>4. RowsOK'
  <2>1. SnapshotExact'
    BY <1>1, <1>2, SnapshotKept DEF SerialInv, RowsOK
  <2> QED BY <1>1, <1>2, <1>3, <2>1 DEF SerialInv, RowsOK, FreshRows,
          UniqueTopNode, CatalogConsistent
<1>5. RequestOK(w)'
  BY <1>1 DEF RequestOK, SerialLocal, AutoLocal, Working
<1> QED BY <1>4, <1>5, Alone DEF FinalizeUnscanned

\* InsertItem preserves SerialInv.
LEMMA SerialInsertItem ==
  ASSUME SafeInv, SerialInv, NEW w \in Requests, InsertItem(w)
  PROVE  SerialInv'
<1>1. /\ pc[w] = "insert" /\ pc'[w] = "table"
      /\ UNCHANGED <<nodeKey, status, count, versions, lost, node, tabs, res, schema>>
  BY DEF SafeInv, TypeOK, InsertItem, envVars
<1>2. /\ cnt[w] = Cardinality(items[node[w]])
      /\ items[node[w]] \cap tabs[w] = {}
      /\ lost[node[w]] \cap tabs[w] = {}
      /\ items[node[w]] \cap lost[node[w]] = {}
      /\ tab[w] \notin items[node[w]] \cup lost[node[w]] \cup tabs[w]
      /\ status[node[w]] = Scanning
      /\ items[node[w]] \cup lost[node[w]] \cup tabs[w] \cup {tab[w]}
            \in versions[res[w]][schema[w]]
  BY <1>1 DEF SerialInv, RequestOK, SerialLocal, Working
<1>3. /\ node[w] \in NodeIds
      /\ items'[node[w]] = items[node[w]] \cup {tab[w]}
      /\ cnt'[w] = cnt[w] + 1
      /\ \A m \in NodeIds \ {node[w]} : items'[m] = items[m]
  BY <1>1, <1>2 DEF SafeInv, TypeOK, LocalOK, InsertItem
<1>4. Cardinality(items'[node[w]]) = Cardinality(items[node[w]]) + 1
  <2>1. items[node[w]] \subseteq Tables
    BY <1>3 DEF SafeInv, TypeOK
  <2>2. IsFiniteSet(items[node[w]])
    BY <2>1, ConstantsAssumption, FS_Subset DEF ConstantsAssumption
  <2> QED BY <1>2, <1>3, <2>2, FS_AddElement
<1>5. RowsOK'
  <2>1. SnapshotExact'
    BY <1>1, <1>2, <1>3, SnapshotKept DEF SerialInv, RowsOK
  <2> QED BY <1>1, <1>2, <1>3, <2>1 DEF SerialInv, RowsOK, FreshRows,
          UniqueTopNode, CatalogConsistent
<1>6. items'[node[w]] \cup lost[node[w]] \cup tabs[w]
         = items[node[w]] \cup lost[node[w]] \cup tabs[w] \cup {tab[w]}
  BY <1>3
<1>7. items'[node[w]] \cap tabs[w] = {} /\ items'[node[w]] \cap lost[node[w]] = {}
  BY <1>2, <1>3
<1>8. RequestOK(w)'
  BY <1>1, <1>2, <1>3, <1>4, <1>6, <1>7
  DEF RequestOK, SerialLocal, AutoLocal, Working
<1> QED BY <1>5, <1>8, Alone DEF InsertItem

\* FinalizeScanned preserves SerialInv.
LEMMA SerialFinalizeScanned ==
  ASSUME SafeInv, SerialInv, NEW w \in Requests, FinalizeScanned(w)
  PROVE  SerialInv'
<1>1. /\ pc[w] = "finalize" /\ pc'[w] = "schema"
      /\ UNCHANGED <<nodeKey, items, versions, lost, node>>
  BY DEF SafeInv, TypeOK, FinalizeScanned, envVars
<1>2. /\ node[w] \in NodeIds
      /\ status'[node[w]] = Scanned /\ count'[node[w]] = cnt[w]
      /\ \A m \in NodeIds \ {node[w]} :
            status'[m] = status[m] /\ count'[m] = count[m]
  BY DEF SafeInv, TypeOK, LocalOK, FinalizeScanned
<1>3. /\ cnt[w] = Cardinality(items[node[w]])
      /\ tabs[w] = {}
      /\ items[node[w]] \cap lost[node[w]] = {}
      /\ items[node[w]] \cup lost[node[w]] \cup tabs[w]
            \in versions[res[w]][schema[w]]
  BY <1>1 DEF SerialInv, RequestOK, SerialLocal
<1>4. nodeKey[node[w]] # None /\ nodeKey[node[w]] = <<res[w], schema[w]>>
  BY <1>1, NodeExists DEF SafeInv, LocalOK
<1>5. items[node[w]] \cup lost[node[w]] \in versions[res[w]][schema[w]]
  BY <1>3
<1>6. SnapshotExact'
  <2>1. ASSUME NEW m \in NodeIds, NEW r \in Resources, NEW s \in Schemas,
               nodeKey[m] = <<r, s>>, status'[m] = Scanned
        PROVE  /\ items[m] \cup lost[m] \in versions[r][s]
               /\ items[m] \cap lost[m] = {}
    <3>1. CASE m = node[w]
      <4>1. r = res[w] /\ s = schema[w]
        BY <1>4, <2>1, <3>1
      <4> QED BY <1>3, <1>5, <3>1, <4>1
    <3>2. CASE m # node[w]
      <4>1. status[m] = Scanned
        BY <1>2, <2>1, <3>2
      <4> QED BY <2>1, <4>1 DEF SerialInv, RowsOK, SnapshotExact
    <3> QED BY <3>1, <3>2
  <2> QED BY <1>1, <2>1 DEF SnapshotExact
<1>7. RowsOK'
  <2>1. FreshRows' /\ UniqueTopNode'
    BY <1>1, <1>2, <1>4 DEF SerialInv, RowsOK, FreshRows, UniqueTopNode
  <2>2. CatalogConsistent'
    BY <1>1, <1>2, <1>3 DEF SerialInv, RowsOK, CatalogConsistent
  <2> QED BY <1>6, <2>1, <2>2 DEF RowsOK
<1>8. RequestOK(w)'
  BY <1>1 DEF RequestOK, SerialLocal, AutoLocal, Working
<1> QED BY <1>7, <1>8, Alone DEF FinalizeScanned

\* Begin preserves SerialInv.
LEMMA SerialBegin ==
  ASSUME SafeInv, SerialInv, NEW w \in Requests, Begin(w),
         \A v \in Requests : ~Active(v)
  PROVE  SerialInv'
<1>1. RowsOK'
  BY RowsKept DEF Begin, BeginAuto, BeginManual
<1>2. \A v \in Requests : pc'[v] \in ActivePCs =>
         v = w /\ pc'[v] \in {"fetch", "ensure"}
  BY DEF SafeInv, TypeOK, Begin, BeginAuto, BeginManual, Active
<1>3. OneActive'
  BY <1>2 DEF OneActive, Active
<1>4. ASSUME NEW v \in Requests PROVE RequestOK(v)'
  BY <1>2 DEF RequestOK, SerialLocal, AutoLocal, Working
<1> QED BY <1>1, <1>3, <1>4 DEF SerialInv

\* SourceChange preserves SerialInv.
LEMMA SerialSourceChange ==
  ASSUME SafeInv, SerialInv, NEW r \in Resources, NEW s \in Schemas,
         SourceChange(r, s)
  PROVE  SerialInv'
<1>1. \A p \in Resources, q \in Schemas : versions[p][q] \subseteq versions'[p][q]
  BY DEF SafeInv, TypeOK, SourceChange
<1>2. UNCHANGED <<dbVars, lost, pc, reqVars>>
  BY DEF SourceChange
<1>3. RowsOK'
  BY <1>1, <1>2 DEF SerialInv, RowsOK, FreshRows, UniqueTopNode,
     CatalogConsistent, SnapshotExact
<1>4. ASSUME NEW v \in Requests PROVE RequestOK(v)'
  <2>1. RequestOK(v)
    BY DEF SerialInv
  <2>2. pc[v] \in TablePCs => versions[res[v]][schema[v]]
                                 \subseteq versions'[res[v]][schema[v]]
    BY <1>1 DEF SafeInv, LocalOK
  <2>3. Matching(v)' = Matching(v)
    BY <1>2 DEF Matching
  <2> QED BY <1>2, <2>1, <2>2, <2>3
          DEF RequestOK, SerialLocal, AutoLocal, Working
<1>5. OneActive'
  BY <1>2 DEF SerialInv, OneActive, Active
<1> QED BY <1>3, <1>4, <1>5 DEF SerialInv

\* Crash preserves SerialInv.
LEMMA SerialCrash == ASSUME SafeInv, SerialInv, Crash PROVE SerialInv'
<1>1. \A v \in Requests : pc'[v] \notin ActivePCs
  BY DEF Crash, Active, SafeInv, TypeOK
<1>2. RowsOK'
  BY RowsKept DEF Crash
<1>3. ASSUME NEW v \in Requests PROVE RequestOK(v)'
  BY <1>1 DEF RequestOK, SerialLocal, AutoLocal, Working
<1> QED BY <1>1, <1>2, <1>3 DEF SerialInv, OneActive, Active

\* A stuttering step preserves SerialInv.
LEMMA SerialUnchanged == ASSUME SerialInv, UNCHANGED vars PROVE SerialInv'
<1>1. RowsOK'
  BY RowsKept DEF vars
<1>2. ASSUME NEW v \in Requests PROVE RequestOK(v)'
  <2>1. RequestOK(v) /\ UNCHANGED <<dbVars, envVars, pc, reqVars>>
    BY DEF SerialInv, vars
  <2>2. Matching(v)' = Matching(v)
    BY <2>1 DEF Matching
  <2> QED BY <2>1, <2>2 DEF RequestOK, SerialLocal, AutoLocal, Working
<1> QED BY <1>1, <1>2 DEF SerialInv, OneActive, Active, vars

\* SerialInv holds initially.
LEMMA SerialInit == Init => SerialInv
<1> SUFFICES ASSUME Init PROVE SerialInv
  OBVIOUS
<1>1. RowsOK
  BY ConstantsAssumption, FS_EmptySet DEF Init, RowsOK, FreshRows, UniqueTopNode,
     CatalogConsistent, SnapshotExact
<1> QED BY <1>1 DEF Init, SerialInv, OneActive, Active, RequestOK, SerialLocal,
           AutoLocal, Working

\* Every step of a request preserves SerialInv.
LEMMA SerialStep ==
  ASSUME SafeInv, SerialInv, NEW w \in Requests, Step(w) PROVE SerialInv'
  BY SerialFetchResources, SerialNextResource, SerialEnsureRead,
     SerialEnsureCreate, SerialConnect, SerialNextSchema, SerialCheckNode,
     SerialUpsertRead, SerialCreateNode, SerialSetPath, SerialResetNodeState,
     SerialDeleteItems, SerialScanTables, SerialFinalizeUnscanned,
     SerialNextTable, SerialInsertItem, SerialUpdateItem, SerialFinalizeScanned,
     SerialFinishSuccess, SerialFinishFailed DEF Step

\* Every step of the environment preserves SerialInv.
LEMMA SerialEnvironment ==
  ASSUME SafeInv, SerialInv, Environment PROVE SerialInv'
  BY SerialSkipTable, SerialStatementFails, SerialSourceChange, SerialCrash
  DEF Environment

\* Every serial step preserves both invariants.
LEMMA SerialNextPreserves ==
  SafeInv /\ SerialInv /\ [SerialNext]_vars => SafeInv' /\ SerialInv'
<1> SUFFICES ASSUME SafeInv, SerialInv, [SerialNext]_vars
             PROVE  SafeInv' /\ SerialInv'
  OBVIOUS
<1>1. SafeInv'
  BY SafeNext DEF SerialNext, Next
<1>2. ASSUME NEW w \in Requests, Begin(w), \A v \in Requests : ~Active(v)
      PROVE  SerialInv'
  BY <1>2, SerialBegin
<1>3. ASSUME NEW w \in Requests, Step(w) PROVE SerialInv'
  BY <1>3, SerialStep
<1>4. CASE Environment
  BY <1>1, <1>4, SerialEnvironment
<1>5. CASE UNCHANGED vars
  BY <1>1, <1>5, SerialUnchanged
<1> QED BY <1>1, <1>2, <1>3, <1>4, <1>5 DEF SerialNext, Idle

\* SerialInv holds in every state of every serial behaviour.
THEOREM SerialInvariant == SerialSpec => [](SafeInv /\ SerialInv)
  BY SafeInit, SerialInit, SerialNextPreserves, PTL DEF SerialSpec

\* Without overlap a schema has one top-level node, however often requests fail
\* or die between the SELECT and the INSERT of upsertNode.
THEOREM SerialUnique == SerialSpec => []UniqueTopNode
<1>1. SerialInv => UniqueTopNode
  BY DEF SerialInv, RowsOK
<1> QED BY <1>1, SerialInvariant, PTL

\* Without overlap the status and the table count that a node shows are true of
\* its items: no crash or failure leaves a half-written node marked as scanned.
THEOREM SerialConsistent == SerialSpec => []CatalogConsistent
<1>1. SerialInv => CatalogConsistent
  BY DEF SerialInv, RowsOK
<1> QED BY <1>1, SerialInvariant, PTL

\* Without overlap a scanned node holds one table list of its schema, but for
\* the tables whose own statements failed in the scan that wrote it.
THEOREM SerialSnapshot == SerialSpec => []SnapshotExact
<1>1. SerialInv => SnapshotExact
  BY DEF SerialInv, RowsOK
<1> QED BY <1>1, SerialInvariant, PTL

\* Without overlap a node is shown as being scanned while it is rewritten.
THEOREM SerialShown == SerialSpec => []WorkingNodeShown
<1>1. SerialInv => WorkingNodeShown
  BY DEF SerialInv, RequestOK, WorkingNodeShown
<1> QED BY <1>1, SerialInvariant, PTL

\* One step of the action property below.
AutoStep ==
    \A w \in Requests, n \in NodeIds :
        (kind[w] = "auto" /\ pc'[w] # pc[w] /\ status[n] = Scanned)
        => status'[n] = Scanned

\* Every serial step satisfies AutoStep.
LEMMA AutoStepHolds == SafeInv /\ SerialInv /\ [SerialNext]_vars => [AutoStep]_vars
<1> SUFFICES ASSUME SafeInv, SerialInv, SerialNext,
                    NEW w \in Requests, NEW n \in NodeIds,
                    kind[w] = "auto", pc'[w] # pc[w], status[n] = Scanned
             PROVE  status'[n] = Scanned
  BY DEF AutoStep
<1>1. CASE ResetNodeState(w)
  <2>1. pc[w] = "reset" /\ status' = [status EXCEPT ![node[w]] = Scanning]
    BY <1>1 DEF ResetNodeState
  <2>2. status[node[w]] # Scanned
    BY <2>1 DEF SerialInv, RequestOK, AutoLocal
  <2> QED BY <2>1, <2>2 DEF SafeInv, TypeOK
<1>2. CASE FinalizeUnscanned(w)
  <2>1. /\ pc[w] = "unscanned"
        /\ status' = [status EXCEPT ![node[w]] = Unscanned]
    BY <1>2 DEF FinalizeUnscanned
  <2>2. status[node[w]] = Scanning
    BY <2>1 DEF SerialInv, RequestOK, Working
  <2> QED BY <2>1, <2>2 DEF SafeInv, TypeOK
<1>3. CASE FinalizeScanned(w)
  BY <1>3 DEF FinalizeScanned, SafeInv, TypeOK
<1>4. CASE status' = status
  BY <1>4
<1>5. ASSUME NEW v \in Requests, v # w,
             ResetNodeState(v) \/ FinalizeUnscanned(v) \/ FinalizeScanned(v)
      PROVE  FALSE
  BY <1>5 DEF ResetNodeState, FinalizeUnscanned, FinalizeScanned, SafeInv, TypeOK
<1>6. ASSUME NEW v \in Requests, Step(v)
      PROVE  \/ status' = status \/ ResetNodeState(v)
             \/ FinalizeUnscanned(v) \/ FinalizeScanned(v)
  BY <1>6 DEF Step, FetchResources, NextResource, EnsureRead, EnsureCreate,
     Connect, NextSchema, CheckNode, UpsertRead, CreateNode, SetPath, DeleteItems,
     ScanTables, NextTable, InsertItem, UpdateItem, FinishSuccess, FinishFailed
<1>7. ASSUME NEW v \in Requests, Begin(v) PROVE status' = status
  BY <1>7 DEF Begin, BeginAuto, BeginManual
<1>8. CASE Environment
  BY <1>4, <1>8 DEF Environment, SkipTable, StatementFails, SourceChange, Crash
<1>9. CASE Idle
  BY <1>9 DEF Idle, vars
<1> QED BY <1>1, <1>2, <1>3, <1>4, <1>5, <1>6, <1>7, <1>8, <1>9 DEF SerialNext

\* Without overlap an automatic scan never takes a scanned node back into
\* scanning: the look-up of scanResource decides for the upsertNode after it.
THEOREM SerialAutoLeavesScanned == SerialSpec => AutoLeavesScanned
<1>1. [AutoStep]_vars <=>
      [\A w \in Requests, n \in NodeIds :
          (kind[w] = "auto" /\ pc'[w] # pc[w] /\ status[n] = Scanned)
          => status'[n] = Scanned]_vars
  BY DEF AutoStep
<1> QED BY <1>1, SerialInvariant, AutoStepHolds, PTL DEF SerialSpec, AutoLeavesScanned

=============================================================================
