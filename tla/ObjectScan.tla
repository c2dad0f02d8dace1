------------------------------ MODULE ObjectScan ------------------------------
(***************************************************************************)
(* The object-storage half of the Meta scan service: requests that list    *)
(* buckets of an S3 store (meta/backend/internal/scanner/s3_scanner.go)    *)
(* and write a tree of meta_node rows, one per bucket and per prefix, and  *)
(* one meta_item row per object (scan_service_new.go).                     *)
(*                                                                         *)
(* One action is one SQL statement or one call of the store; requests      *)
(* interleave between them, a statement may fail, and the process may die  *)
(* between any two. All of it is about one resource of one tenant, whose   *)
(* meta_resource row exists (MetaScan models how it comes to exist).       *)
(*                                                                         *)
(* Abstractions: a key is the sequence of its segments; sizes, types and   *)
(* times are left out, total_size_bytes is summed in the same places as    *)
(* item_count; sets are taken in any order. The BIGSERIAL ids never return *)
(* in the code; here an id returns once no row and no request refers to it.*)
(***************************************************************************)
EXTENDS FiniteSets, ObjectListing

CONSTANTS
    Requests,    \* the scan requests of a behaviour, each handled once
    Buckets,     \* the buckets of the store
    Allowed,     \* those that the resource's configuration admits
    Keys,        \* keys that objects may have, as sequences of segments
    Selections,  \* sets of paths <<bucket, prefix>> that users select
    NodeIds,     \* ids of meta_node rows
    None,        \* "no row", "no object"
    MaxFault,    \* bound on failures and crashes together
    MaxPut       \* bound on changes of the store

\* Names that nodes and objects can have: of buckets, and segments of keys and
\* of selected prefixes.
Names == Buckets \cup UNION {Range(k) : k \in Keys \cup {p[2] : p \in UNION Selections}}

Unscanned == "unscanned"
Scanning == "scanning"
Scanned == "scanned"

\* A row of meta_node; parent is 0 where the column parent_node_id is NULL.
MetaNode == [parent : NodeIds \cup {0}, name : Names, pathed : BOOLEAN,
             status : {Unscanned, Scanning, Scanned}, count : Nat]

ASSUME ConstantsAssumption ==
    /\ Allowed \subseteq Buckets
    /\ \A k \in Keys : k \in Seq(Names) /\ k # <<>>
    /\ \A p \in UNION Selections : p[1] \in Buckets /\ p[2] \in Seq(Names)
    /\ 0 \notin NodeIds /\ None \notin NodeIds /\ None \notin Keys
    /\ None \notin MetaNode /\ None \notin [rel : Seq(Names), key : Keys]
    /\ MaxFault \in Nat /\ MaxPut \in Nat

VARIABLES
    store,    \* bucket -> keys of its objects
    listed,   \* history: bucket -> its content when a scan last listed some of it
    node,     \* meta_node: id -> row or None
    items,    \* meta_item: a set of rows
    req,      \* request -> its progress
    view,     \* the rows that a reader of the tables holds (see DataExplorer)
    overlap,  \* history: two requests were in progress at once
    faults, puts

scanVars == <<store, listed, node, items, req, view, overlap, faults, puts>>

dbVars == <<node, items>>
envVars == <<store, listed, puts, view>>

\* Progress of a request that has no path to work on.
Fresh(pc, auto, todo) ==
    [pc |-> pc, auto |-> auto, todo |-> todo, at |-> None, dirs |-> {}, objs |-> {},
     segs |-> <<>>, obj |-> None, chain |-> <<>>, id |-> 0,
     own |-> [b \in Buckets |-> 0], stat |-> [n \in {} |-> 0]]

ActivePCs == {"path", "list", "upsert", "create", "update", "reset", "delnodes",
              "delitems", "meta", "item", "insert", "updateitem", "final"}
Active(w) == req[w].pc \in ActivePCs

\* A reader that holds nothing.
NoView == [pc |-> "idle", rows |-> [n \in {} |-> None]]

Init ==
    /\ store \in [Buckets -> SUBSET Keys]
    /\ listed = [b \in Buckets |-> {}]
    /\ node = [n \in NodeIds |-> None]
    /\ items = {}
    /\ req = [w \in Requests |-> Fresh("idle", FALSE, {})]
    /\ view = NoView /\ overlap = FALSE
    /\ faults = 0 /\ puts = 0

-----------------------------------------------------------------------------
(* Rows *)

Rows == {n \in NodeIds : node[n] # None}

\* The segments of a node: its bucket, then its attribute "path". ON DELETE
\* CASCADE keeps a row's ancestors in the table as long as the row is. (An id
\* without a row has no segments, and no path below.)
Segments[n \in NodeIds] ==
    IF node[n] = None THEN <<>>
    ELSE IF node[n].parent = 0 THEN <<node[n].name>>
    ELSE Append(Segments[node[n].parent], node[n].name)

\* The ids in the path column of node n, n included.
IdPath[n \in NodeIds] ==
    IF node[n] = None THEN {}
    ELSE IF node[n].parent = 0 THEN {n}
    ELSE IdPath[node[n].parent] \cup {n}

Children(p, name) == {n \in Rows : node[n].parent = p /\ node[n].name = name}

\* Rows that LIKE '<path of b>/%' selects, and those that the foreign key
\* parent_node_id ... ON DELETE CASCADE takes with them.
Descendants(b) ==
    LET named == {n \in Rows \ {b} : node[n].pathed /\ b \in IdPath[n]}
    IN  {n \in Rows : IdPath[n] \cap named # {}}

\* An id that no row has and neither a request nor a reader still holds.
FreshIds ==
    NodeIds \ (Rows \cup DOMAIN view.rows \cup UNION {Range(req[w].chain) \cup {req[w].id}
                  \cup Range(req[w].own) \cup DOMAIN req[w].stat : w \in Requests})

-----------------------------------------------------------------------------
(* What the scanner makes of the store *)

NoMetas == [dirs |-> {}, objs |-> {}]

\* The answers that ScanPath can give for a path: an object, if the prefix is
\* the key of one, or else what is listed below the prefix. A failing Stat is
\* taken for "no such object", and an error in the listing is skipped.
Answers(path, content, failing) ==
    LET prefix == path[2]
    IN  IF HasReserved(prefix) THEN {NoMetas}
        ELSE IF failing THEN {ScanBucket(prefix, l) : l \in SUBSET content}
        ELSE IF prefix \in content
        THEN {[dirs |-> {}, objs |-> {[rel |-> prefix, key |-> prefix]}]}
        ELSE {ScanBucket(prefix, content)}

\* Users of the store add or remove objects.
StoreChange(b) ==
    /\ puts < MaxPut
    /\ \E new \in SUBSET Keys :
          /\ new # store[b]
          /\ store' = [store EXCEPT ![b] = new]
    /\ puts' = puts + 1
    /\ UNCHANGED <<listed, dbVars, req, view, overlap, faults>>

-----------------------------------------------------------------------------
(* Requests *)

Set(w, r) == req' = [req EXCEPT ![w] = r]
Goto(w, p) == Set(w, [req[w] EXCEPT !.pc = p])

Begin(w, auto, todo) ==
    /\ req[w].pc = "idle"
    /\ Set(w, Fresh("path", auto, todo))
    /\ overlap' = (overlap \/ \E v \in Requests : Active(v))
    /\ UNCHANGED <<dbVars, envVars, faults>>

\* The buckets as paths.
WholeBuckets == {<<b, <<>>>> : b \in Allowed}

\* POST /scan/auto: every allowed bucket is looked at.
BeginAuto(w) == Begin(w, TRUE, WholeBuckets)

\* POST /scan/resource: prepareObjectPaths falls back to the allowed buckets.
BeginManual(w) ==
    \E sel \in Selections : Begin(w, FALSE, IF sel = {} THEN WholeBuckets ELSE sel)

\* After a path: an automatic scan finishes every bucket on its own.
PathDone(w) == IF req[w].auto THEN "final" ELSE "path"

\* The loops over the paths. An automatic scan only takes a bucket that has no
\* node; a path outside the allowed buckets is an error, which is skipped. At
\* the end the nodes to finalize are those of the statistics and the buckets.
NextPath(w) ==
    /\ req[w].pc = "path"
    /\ \/ /\ req[w].todo = {}
          /\ Goto(w, IF req[w].auto THEN "done" ELSE "final")
       \/ \E p \in req[w].todo :
             Set(w, [req[w] EXCEPT
                 !.todo = @ \ {p}, !.at = p, !.chain = <<>>,
                 !.pc = IF \/ p[1] \notin Allowed
                           \/ req[w].auto /\ Children(0, p[1]) # {}
                        THEN "path" ELSE "list"])
    /\ UNCHANGED <<dbVars, envVars, overlap, faults>>

\* Request w has an answer of the store. An answer without entries ends the
\* path; else the bucket's node is needed, once per request.
Answered(w, metas) ==
    LET owned == req[w].own[req[w].at[1]]
    IN  Set(w, [req[w] EXCEPT
            !.dirs = metas.dirs, !.objs = metas.objs,
            !.segs = IF owned = 0 THEN <<req[w].at[1]>> ELSE <<>>,
            !.chain = IF owned = 0 THEN <<>> ELSE <<owned>>,
            !.obj = None,
            !.pc = IF metas = NoMetas THEN PathDone(w)
                   ELSE IF owned = 0 THEN "upsert" ELSE "meta"])

\* ScanPath
ScanPath(w) ==
    /\ req[w].pc = "list"
    /\ LET b == req[w].at[1]
       IN  \E metas \in Answers(req[w].at, store[b], FALSE) :
              /\ Answered(w, metas)
              /\ listed' = IF metas = NoMetas THEN listed ELSE [listed EXCEPT ![b] = store[b]]
    /\ UNCHANGED <<dbVars, store, puts, view, overlap, faults>>

\* ScanPath when the store fails: it reports what it got, without an error.
ScanPathLossy(w) ==
    /\ req[w].pc = "list"
    /\ faults < MaxFault
    /\ \E metas \in Answers(req[w].at, store[req[w].at[1]], TRUE) : Answered(w, metas)
    /\ faults' = faults + 1
    /\ UNCHANGED <<dbVars, envVars, overlap>>

\* ensureNodeAggregate: node n takes part in the statistics s.
Aggregate(s, n) == [m \in DOMAIN s \cup {n} |-> IF m \in DOMAIN s THEN s[m] ELSE 0]

\* The parent of the node that request w upserts: none for a bucket.
Parent(w) == IF req[w].chain = <<>> THEN 0 ELSE Last(req[w].chain)

\* The SELECT of upsertNode, for a request with progress r.
UpsertSelect(w, r) ==
    LET found == Children(IF r.chain = <<>> THEN 0 ELSE Last(r.chain), Head(r.segs))
    IN  \/ found = {} /\ Set(w, [r EXCEPT !.pc = "create"])
        \/ \E n \in found : Set(w, [r EXCEPT !.id = n, !.pc = "update"])

UpsertRead(w) ==
    /\ req[w].pc = "upsert"
    /\ UpsertSelect(w, req[w])
    /\ UNCHANGED <<dbVars, envVars, overlap, faults>>

\* What an error inside persistObjectMetas leads to: the rest of the path is
\* given up. An error outside it ends the request, or the bucket of an
\* automatic scan.
GiveUp(w) ==
    IF req[w].chain # <<>> /\ req[w].pc \notin {"reset", "delnodes", "delitems", "final"}
    THEN [req[w] EXCEPT !.pc = PathDone(w)]
    ELSE Fresh(IF req[w].auto THEN "path" ELSE "failed", req[w].auto, req[w].todo)

\* Mutant of UpsertCreate: no constraint refuses a row.
UpsertCreateUnchecked(w) ==
    /\ req[w].pc = "create"
    /\ \E n \in FreshIds :
          /\ \A m \in FreshIds : n <= m
          /\ node' = [node EXCEPT ![n] =
                [parent |-> Parent(w), name |-> Head(req[w].segs), pathed |-> FALSE,
                 status |-> Unscanned, count |-> 0]]
          /\ Set(w, [req[w] EXCEPT !.id = n, !.pc = "update"])
    /\ UNCHANGED <<items, envVars, overlap, faults>>

\* upsertNode, its INSERT: refused when another request inserted the same
\* child (UNIQUE) or deleted the parent (the foreign key) in between. Rows
\* without a parent never collide, because NULLs are distinct.
UpsertCreate(w) ==
    /\ req[w].pc = "create"
    /\ LET p == Parent(w)
           name == Head(req[w].segs)
           refused == IF p = 0 THEN FALSE
                      ELSE node[p] = None \/ Children(p, name) # {}
       IN  \/ refused /\ Set(w, GiveUp(w)) /\ UNCHANGED node
           \/ \E n \in FreshIds :
                 /\ ~refused
                 /\ \A m \in FreshIds : n <= m
                 /\ node' = [node EXCEPT ![n] =
                       [parent |-> p, name |-> name, pathed |-> FALSE,
                        status |-> Unscanned, count |-> 0]]
                 /\ Set(w, [req[w] EXCEPT !.id = n, !.pc = "update"])
    /\ UNCHANGED <<items, envVars, overlap, faults>>

\* upsertNode, the UPDATE of path or attributes by id, which finds no row if
\* another request deleted it. Prefixes get an aggregate.
UpsertUpdate(w) ==
    /\ req[w].pc = "update"
    /\ LET n == req[w].id
           top == req[w].chain = <<>>
       IN  /\ node' = [node EXCEPT ![n] =
                          IF @ = None THEN @ ELSE [@ EXCEPT !.pathed = TRUE]]
           /\ Set(w, [req[w] EXCEPT
                  !.chain = Append(@, n), !.segs = Tail(@), !.id = 0,
                  !.own[req[w].at[1]] = IF top THEN n ELSE @,
                  !.stat = IF top THEN @ ELSE Aggregate(@, n),
                  !.pc = IF top THEN "reset"
                         ELSE IF Len(req[w].segs) > 1 THEN "upsert"
                         ELSE IF req[w].obj # None THEN "item" ELSE "meta"])
    /\ UNCHANGED <<items, envVars, overlap, faults>>

\* resetNodeState
ResetBucket(w) ==
    /\ req[w].pc = "reset"
    /\ node' = [node EXCEPT ![req[w].chain[1]].status = Scanning]
    /\ Goto(w, "delnodes")
    /\ UNCHANGED <<items, envVars, overlap, faults>>

\* Mutant of DeleteDescendants: the rows of prefixes are kept.
DeleteDescendantsNot(w) ==
    /\ req[w].pc = "delnodes"
    /\ Goto(w, "delitems")
    /\ UNCHANGED <<dbVars, envVars, overlap, faults>>

\* hardDeleteDescendantNodes
DeleteDescendants(w) ==
    /\ req[w].pc = "delnodes"
    /\ LET gone == Descendants(req[w].chain[1])
       IN  /\ node' = [n \in NodeIds |-> IF n \in gone THEN None ELSE node[n]]
           /\ items' = {i \in items : i.node \notin gone}
    /\ Goto(w, "delitems")
    /\ UNCHANGED <<envVars, overlap, faults>>

\* Mutant of DeleteBucketItems: the rows of objects are kept.
DeleteBucketItemsNot(w) ==
    /\ req[w].pc = "delitems"
    /\ Goto(w, "meta")
    /\ UNCHANGED <<dbVars, envVars, overlap, faults>>

\* hardDeleteItemsByNode
DeleteBucketItems(w) ==
    /\ req[w].pc = "delitems"
    /\ items' = {i \in items : i.node # req[w].chain[1]}
    /\ Goto(w, "meta")
    /\ UNCHANGED <<node, envVars, overlap, faults>>

\* The row that a request with progress r writes for its object, and the rows
\* that have its (node_id, name) already.
ItemRow(r) == [node |-> Last(r.chain), name |-> Last(r.obj.key), rel |-> r.obj.rel,
               bucket |-> r.at[1], key |-> r.obj.key]
SameItem(r) == {i \in items : i.node = ItemRow(r).node /\ i.name = ItemRow(r).name}

\* The SELECT of upsertItem, for a request with progress r.
ItemSelect(w, r) ==
    Set(w, [r EXCEPT !.pc = IF SameItem(r) = {} THEN "insert" ELSE "updateitem"])

\* Mutant of NextMeta: the chain of the entry before is not given up.
NextMetaSameChain(w) ==
    /\ req[w].pc = "meta"
    /\ LET r == [req[w] EXCEPT !.obj = None]
           top == Head(r.chain)
       IN  \/ \E d \in r.dirs :
                 UpsertSelect(w, [r EXCEPT !.dirs = @ \ {d}, !.segs = d])
           \/ /\ r.dirs = {}
              /\ \E o \in r.objs :
                    LET next == [r EXCEPT !.objs = @ \ {o}, !.obj = o, !.segs = Front(o.rel)]
                    IN  IF next.segs = <<>> THEN ItemSelect(w, next)
                        ELSE UpsertSelect(w, next)
           \/ /\ r.dirs = {} /\ r.objs = {}
              /\ Set(w, [r EXCEPT !.pc = PathDone(w), !.stat = Aggregate(@, top)])
    /\ UNCHANGED <<dbVars, envVars, overlap, faults>>

\* persistObjectMetas, the head of its loop and the first SELECT for the entry:
\* directories come before objects, and each starts at the bucket's node.
NextMeta(w) ==
    /\ req[w].pc = "meta"
    /\ LET r == [req[w] EXCEPT !.obj = None, !.chain = SubSeq(@, 1, 1)]
           top == Head(r.chain)
       IN  \/ \E d \in r.dirs :
                 UpsertSelect(w, [r EXCEPT !.dirs = @ \ {d}, !.segs = d])
           \/ /\ r.dirs = {}
              /\ \E o \in r.objs :
                    LET next == [r EXCEPT !.objs = @ \ {o}, !.obj = o, !.segs = Front(o.rel)]
                    IN  IF next.segs = <<>> THEN ItemSelect(w, next)
                        ELSE UpsertSelect(w, next)
           \/ /\ r.dirs = {} /\ r.objs = {}
              /\ Set(w, [r EXCEPT !.pc = PathDone(w), !.stat = Aggregate(@, top)])
    /\ UNCHANGED <<dbVars, envVars, overlap, faults>>

ItemRead(w) ==
    /\ req[w].pc = "item"
    /\ ItemSelect(w, req[w])
    /\ UNCHANGED <<dbVars, envVars, overlap, faults>>

\* Mutant of Counted: only the directory of the object counts it.
CountedOnce(w) ==
    LET s == req[w].stat
        leaf == Last(req[w].chain)
    IN  Set(w, [req[w] EXCEPT !.pc = "meta",
            !.stat = [m \in DOMAIN s \cup {leaf} |->
                         (IF m \in DOMAIN s THEN s[m] ELSE 0) + (IF m = leaf THEN 1 ELSE 0)]])

\* The object counts for every node of its chain.
Counted(w) ==
    LET s == req[w].stat
        chain == Range(req[w].chain)
    IN  Set(w, [req[w] EXCEPT !.pc = "meta",
            !.stat = [m \in DOMAIN s \cup chain |->
                         (IF m \in DOMAIN s THEN s[m] ELSE 0)
                         + (IF m \in chain THEN 1 ELSE 0)]])

\* upsertItem, its INSERT: refused by UNIQUE (node_id, name) or because the
\* node is gone.
InsertItem(w) ==
    /\ req[w].pc = "insert"
    /\ \/ /\ SameItem(req[w]) # {} \/ node[ItemRow(req[w]).node] = None
          /\ Set(w, GiveUp(w))
          /\ UNCHANGED items
       \/ /\ SameItem(req[w]) = {} /\ node[ItemRow(req[w]).node] # None
          /\ items' = items \cup {ItemRow(req[w])}
          /\ Counted(w)
    /\ UNCHANGED <<node, envVars, overlap, faults>>

\* upsertItem, its UPDATE by id: no error when the row is gone meanwhile. One
\* that another request deleted and wrote again is a different row.
UpdateItem(w) ==
    /\ req[w].pc = "updateitem"
    /\ \/ /\ SameItem(req[w]) # {}
          /\ items' = (items \ SameItem(req[w])) \cup {ItemRow(req[w])}
       \/ (overlap \/ SameItem(req[w]) = {}) /\ UNCHANGED items
    /\ Counted(w)
    /\ UNCHANGED <<node, envVars, overlap, faults>>

\* The nodes left to finalize, each with its count: those with an aggregate,
\* and the buckets of the request that have none.
ToFinalize(w) ==
    LET s == req[w].stat
    IN  [n \in DOMAIN s \cup (Range(req[w].own) \ {0}) |->
            IF n \in DOMAIN s THEN s[n] ELSE 0]

\* finalizeNodeState, node by node; then the request, or the bucket of an
\* automatic scan, is over.
Finalize(w) ==
    /\ req[w].pc = "final"
    /\ LET left == ToFinalize(w)
       IN  \/ /\ DOMAIN left = {}
              /\ Set(w, Fresh(IF req[w].auto THEN "path" ELSE "done",
                              req[w].auto, req[w].todo))
              /\ UNCHANGED node
           \/ \E n \in DOMAIN left :
                 /\ node' = [node EXCEPT ![n] =
                       IF @ = None THEN @
                       ELSE [@ EXCEPT !.status = Scanned, !.count = left[n]]]
                 /\ Set(w, [req[w] EXCEPT
                        !.own = [b \in Buckets |-> 0],
                        !.stat = [m \in DOMAIN left \ {n} |-> left[m]]])
    /\ UNCHANGED <<items, envVars, overlap, faults>>

\* A statement of the Meta database fails, without an effect.
StatementFails(w) ==
    /\ req[w].pc \in ActivePCs \ {"path", "list", "meta"}
    /\ faults < MaxFault
    /\ req[w].pc = "final" => DOMAIN ToFinalize(w) # {}
    /\ Set(w, GiveUp(w))
    /\ faults' = faults + 1
    /\ UNCHANGED <<dbVars, envVars, overlap>>

\* The Meta process dies and restarts: its requests are lost, nothing repairs
\* what they left.
Crash ==
    /\ faults < MaxFault
    /\ \E w \in Requests : Active(w)
    /\ faults' = faults + 1
    /\ req' = [w \in Requests |-> IF Active(w) THEN Fresh("dead", FALSE, {}) ELSE req[w]]
    /\ UNCHANGED <<dbVars, envVars, overlap>>

Step(w) ==
    \/ NextPath(w) \/ ScanPath(w) \/ UpsertRead(w) \/ UpsertCreate(w) \/ UpsertUpdate(w)
    \/ ResetBucket(w) \/ DeleteDescendants(w) \/ DeleteBucketItems(w) \/ NextMeta(w)
    \/ ItemRead(w) \/ InsertItem(w) \/ UpdateItem(w) \/ Finalize(w)

ScanNext ==
    \/ \E w \in Requests : BeginAuto(w) \/ BeginManual(w) \/ Step(w)
    \/ \E w \in Requests : ScanPathLossy(w) \/ StatementFails(w)
    \/ \E b \in Buckets : StoreChange(b)
    \/ Crash

\* All requests are over.
Quiet == \A w \in Requests : req[w].pc \in {"done", "failed", "dead"}

Next == ScanNext \/ (Quiet /\ UNCHANGED scanVars)

Spec == Init /\ [][Next]_scanVars

-----------------------------------------------------------------------------
(* Properties *)

\* Every object row hangs where its key says: under the bucket and the prefixes
\* that the key names, or under those that it names after the selected prefix.
\* Overlapping scans, which delete and create each other's prefix rows, never
\* file an object under another directory (persistObjectMetas).
ItemsInPlace ==
    \A i \in items :
        /\ node[i.node] # None
        /\ Segments[i.node] \o <<i.name>> = <<i.bucket>> \o i.rel
        /\ IsSuffix(i.rel, i.key)

\* A prefix row has its parent, and no two rows of one parent have one name: a
\* path leads to one directory, however scans overlap, fail or die.
TreeSound ==
    \A n \in Rows : node[n].parent # 0 =>
        node[node[n].parent] # None /\ Children(node[n].parent, node[n].name) = {n}

\* No row claims more objects than hang below it, and none fewer: as long as
\* requests do not overlap and select each object once, counts that readers
\* see are exact, after failures and crashes too (nodeAggregate).
CountsExact ==
    ~overlap => \A n \in Rows : node[n].status = Scanned =>
        node[n].count = Cardinality({i \in items : n \in IdPath[i.node]})

\* Whatever path the last request was for, when no request is in progress a
\* bucket shown as scanned holds exactly the objects that the path had when it
\* was listed, if requests do not overlap and none was disturbed: no rest of an
\* older scan, nothing lost. (For requests of one path per bucket; a listing
\* that finds nothing leaves the bucket as it was.)
BucketExact ==
    (~overlap /\ faults = 0 /\ \A w \in Requests : ~Active(w)) => \A n \in Rows :
        (node[n].parent = 0 /\ node[n].status = Scanned) =>
            \E p \in WholeBuckets \cup UNION Selections :
                {i.key : i \in {j \in items : n \in IdPath[j.node]}} =
                    {k \in listed[node[n].name] :
                        IsPrefix(p[2], k) /\ ~HasReserved(k) /\ Last(k) # Marker}
=============================================================================
