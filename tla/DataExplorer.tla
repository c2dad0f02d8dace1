----------------------------- MODULE DataExplorer -----------------------------
(***************************************************************************)
(* The data explorer of the Manager over the object catalogue of the Meta  *)
(* service: GetResourceTree reads the catalogue in three SELECTs while     *)
(* scans (ObjectScan) rewrite it row by row, and a click on an entry of    *)
(* the tree looks its metadata up by the path that the tree shows          *)
(* (manager/backend/internal/service/metadata_service.go, object_preview.go*)
(* and repository/metadata_repository.go).                                 *)
(*                                                                         *)
(* Abstractions: one resource, which is active; sizes and types are left   *)
(* out, total_size_bytes goes the way of item_count; the order of entries  *)
(* is left out.                                                            *)
(***************************************************************************)
EXTENDS ObjectScan

TopRows == {n \in Rows : node[n].parent = 0 /\ node[n].status = Scanned}
ChildRows == {n \in Rows : node[n].parent # 0}

\* ListScannedNodesAndItems, its first SELECT: buckets that are scanned.
ReadTops ==
    /\ view.pc = "idle"
    /\ TopRows # {}
    /\ view' = [pc |-> "nodes", rows |-> [n \in TopRows |-> node[n]]]
    /\ UNCHANGED <<store, listed, puts, dbVars, req, overlap, faults>>

\* The second SELECT: all rows with a parent, whatever their status.
ReadNodes ==
    /\ view.pc = "nodes"
    /\ view' = [pc |-> "items",
                rows |-> [n \in DOMAIN view.rows \cup ChildRows |->
                             IF n \in ChildRows THEN node[n] ELSE view.rows[n]]]
    /\ UNCHANGED <<store, listed, puts, dbVars, req, overlap, faults>>

\* The third SELECT, of the items, from which GetResourceTree builds its answer.
ReadItems ==
    /\ view.pc = "items"
    /\ view' = NoView
    /\ UNCHANGED <<store, listed, puts, dbVars, req, overlap, faults>>

\* The path at which buildObjectStorageTree shows row n of those that were
\* read, or none if the row hangs below nothing that is shown.
ShownAt[n \in DOMAIN view.rows] ==
    LET row == view.rows[n]
    IN  IF row.parent = 0 THEN <<row.name>>
        ELSE IF row.parent \notin DOMAIN view.rows THEN <<>>
        ELSE IF ShownAt[row.parent] = <<>> THEN <<>>
        ELSE Append(ShownAt[row.parent], row.name)

ShownRows == {n \in DOMAIN view.rows : ShownAt[n] # <<>>}

\* Mutant of ObjectEntries: items whose node was not read go to the bucket.
ObjectEntriesAll ==
    {[path |-> Append(IF i.node \in ShownRows THEN ShownAt[i.node] ELSE <<i.bucket>>,
                      i.name), item |-> i] : i \in items}

\* The object entries of the tree: each item below the row of its node.
ObjectEntries ==
    {[path |-> Append(ShownAt[i.node], i.name), item |-> i] :
        i \in {j \in items : j.node \in ShownRows}}

-----------------------------------------------------------------------------
(* Clicks: previewObjectStorage *)

\* Mutant of ObjectPath: the path that the tree shows is taken as it is.
ObjectPathWhole(b, path) == path

\* The front end sends the full name; a leading bucket name is cut off.
ObjectPath(b, path) == IF Len(path) > 1 /\ path[1] = b THEN Tail(path) ELSE path

\* GetObjectMetadataItem: rows whose attribute "path", which has the bucket, or
\* "relative_path" is the path.
ItemsAt(b, path) == {i \in items : i.bucket = b /\ path \in {<<b>> \o i.key, i.rel}}

\* GetObjectMetadataNode: rows whose attribute "path", which has no bucket, or
\* full_name is the path. No condition is on the bucket. First takes the oldest
\* of them, which may be any, as ids return here.
NodesAt(b, path) ==
    IF path = <<>> THEN {n \in Rows : node[n].parent = 0 /\ node[n].name = b}
    ELSE {n \in Rows : path \in {Tail(Segments[n]), Segments[n]}}

\* What the preview of a path is about.
PreviewType(b, path) ==
    IF path # <<>> /\ ItemsAt(b, path) # {} THEN "object" ELSE "directory"

-----------------------------------------------------------------------------
vars == scanVars

Explore == ReadTops \/ ReadNodes \/ ReadItems

ExplorerNext == ScanNext \/ Explore \/ (Quiet /\ UNCHANGED vars)

ExplorerSpec == Init /\ [][ExplorerNext]_vars

\* Nothing has changed since the reader's SELECTs, and no scan is under way.
Undisturbed ==
    /\ \A w \in Requests : ~Active(w)
    /\ view.rows = [n \in TopRows \cup ChildRows |-> node[n]]

\* The reader builds a tree in this step.
TreeBuilt == view.pc = "items" /\ view'.pc = "idle"

\* However many scans rewrite the catalogue between the three SELECTs, the tree
\* shows every object where its key puts it, and shows no object twice as long
\* as scans do not overlap (buildObjectStorageTree).
TreeInPlace ==
    [][TreeBuilt => /\ \A e \in ObjectEntries : e.path = <<e.item.bucket>> \o e.item.rel
                    /\ ~overlap => \A e, f \in ObjectEntries : e.path = f.path => e = f]_vars

\* When no scan disturbs the reader, or left rows behind by failing or dying,
\* the object count of every directory is the number of objects shown below it,
\* although rows are read whatever their status (GetResourceTree).
TreeCounts ==
    [][(TreeBuilt /\ Undisturbed /\ ~overlap /\ faults = 0) =>
          \A n \in ShownRows : view.rows[n].count =
              Cardinality({e \in ObjectEntries : IsStrictPrefix(ShownAt[n], e.path)})]_vars

\* As long as all objects are filed under their own keys, the path that the tree
\* shows for an object leads a click to that object and to no other one: what
\* Meta writes to the attributes is what the Manager looks up. The path of a
\* directory finds the directory's row and, in its bucket, rows of nothing else,
\* without overlapping scans this row alone. (Unless the directory's path starts
\* with the name of the bucket, which the preview cuts off as if it were the
\* bucket. Rows of other buckets that have the same path are found as well, and
\* one of these may be the row whose size and count the preview shows: nothing
\* is claimed of them.)
ClickOpens ==
    /\ (\A j \in items : j.rel = j.key) => \A i \in items :
          LET path == ObjectPath(i.bucket, Append(Segments[i.node], i.name))
          IN  /\ path = i.key /\ PreviewType(i.bucket, path) = "object"
              /\ \A j \in ItemsAt(i.bucket, path) : j.key = i.key
    /\ \A n \in ChildRows :
          LET b == Segments[n][1]
              path == ObjectPath(b, Segments[n])
              own == {m \in NodesAt(b, path) : Segments[m][1] = b}
          IN  /\ path = Tail(Segments[n]) /\ n \in own
              /\ path[1] # b => \A m \in own :
                    Segments[m] = Segments[n] /\ (~overlap => m = n)
=============================================================================
