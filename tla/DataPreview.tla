----------------------------- MODULE DataPreview -----------------------------
(***************************************************************************)
(* The previews of the Manager: PreviewTable shows a page of a table       *)
(* (QueryTablePreview in repository/metadata_repository.go) or the content *)
(* of an object (fetchObjectContent in service/object_preview.go), each in *)
(* several calls between which the data may change.                        *)
(*                                                                         *)
(* Abstractions: one table, of which the number of rows counts, and one    *)
(* object, of which the size counts; the order in which a table is read is *)
(* taken as stable. Page numbers and sizes whose product leaves the range  *)
(* of int are left out.                                                    *)
(***************************************************************************)
EXTENDS ManagedTables, ObjectListing

CONSTANTS
    Pages, Sizes,   \* pages and page sizes that clients ask for
    MaxRows,        \* rows that a preview shows at most: 50
    DefaultSize,    \* page size if none is given: 10
    Kinds,          \* detectContentKind: kinds of content that are shown
    AllOrNothing,   \* kinds that are shown whole or not at all
    Limit,          \* kind -> bytes that are shown at most
    MaxDepth,       \* levels of a bucket that clients look at
    MaxSize,        \* bound on the number of rows and on the size
    ObjectKeys      \* keys of a bucket that levels are listed of

\* The names that keys are made of.
Segments == UNION {Range(k) : k \in ObjectKeys}

ASSUME PreviewAssumption ==
    /\ Pages \subseteq Int /\ Sizes \subseteq Int
    /\ MaxRows \in Nat \ {0} /\ DefaultSize \in Nat \ {0} /\ MaxSize \in Nat /\ MaxDepth \in Nat
    /\ AllOrNothing \subseteq Kinds /\ Limit \in [Kinds -> Nat \ {0}]
    /\ ObjectKeys \subseteq Seq(Segments) \ {<<>>}

VARIABLES
    lines,   \* number of rows of the table
    object,  \* size of the object
    bucket   \* keys of the objects in the bucket

previewVars == <<lines, object, bucket>>
vars == <<configVars, tableVars, previewVars>>

Lesser(a, b) == IF a < b THEN a ELSE b

-----------------------------------------------------------------------------
(* A page of a table: QueryTablePreview *)

BeginRows(w) ==
    /\ \E p \in Pages, s \in Sizes :
          Begin(w, [Idle EXCEPT !.op = "rows", !.pc = "fetch",
                       !.got = [page |-> IF p < 1 THEN 1 ELSE p,
                                size |-> IF s <= 0 THEN DefaultSize ELSE s]])
    /\ UNCHANGED <<world, table, overlap, previewVars>>

\* Mutant of Window: the last page is not cut off.
WindowUncut(page, size, n) ==
    LET total == Lesser(n, MaxRows)
        offset == (page - 1) * size
    IN  [total |-> total, offset |-> offset, limit |-> IF offset >= total THEN 0 ELSE size]

\* What QueryTablePreview makes of a page and a number n of rows.
Window(page, size, n) ==
    LET total == Lesser(n, MaxRows)
        offset == (page - 1) * size
    IN  [total |-> total, offset |-> offset,
         limit |-> IF offset >= total THEN 0 ELSE Lesser(size, total - offset)]

\* SELECT COUNT. A page behind the end is answered at once.
CountLines(w) ==
    /\ call[w].pc = "rows"
    /\ LET g == call[w].got
           win == Window(g.page, g.size, lines)
       IN  Set(w, [call[w] EXCEPT
               !.pc = IF win.limit = 0 THEN "reply" ELSE "select",
               !.got = [page |-> g.page, size |-> g.size, win |-> win, counted |-> lines,
                        read |-> lines, shown |-> {}]])
    /\ UNCHANGED <<world, table, calls, overlap, previewVars>>

\* SELECT ... LIMIT ... OFFSET
SelectLines(w) ==
    /\ call[w].pc = "select"
    /\ LET win == call[w].got.win
       IN  Set(w, [call[w] EXCEPT
               !.pc = "reply",
               !.got = [@ EXCEPT !.read = lines,
                   !.shown = {i \in 1 .. lines : win.offset < i /\ i <= win.offset + win.limit}]])
    /\ UNCHANGED <<world, table, calls, overlap, previewVars>>

-----------------------------------------------------------------------------
(* The content of an object: previewObjectStorage and fetchObjectContent *)

BeginObject(w) ==
    /\ Begin(w, [Idle EXCEPT !.op = "object", !.pc = "fetch"])
    /\ UNCHANGED <<world, table, overlap, previewVars>>

\* StatObject; the kind may come from what Meta recorded of an older object.
StatObject(w) ==
    /\ call[w].pc = "object"
    /\ \E k \in Kinds :
          Set(w, [call[w] EXCEPT !.pc = "get", !.got = [kind |-> k, size |-> object]])
    /\ UNCHANGED <<world, table, calls, overlap, previewVars>>

\* Mutant of Content: not one byte more than the limit is asked for.
ContentLimited(kind, size, now) ==
    LET limit == IF 0 < size /\ size < Limit[kind] THEN size ELSE Limit[kind]
        data == Lesser(now, limit)
        cut == data > limit
    IN  IF kind \in AllOrNothing /\ (cut \/ data = 0)
        THEN [data |-> 0, cut |-> TRUE]
        ELSE [data |-> Lesser(data, limit), cut |-> cut]

\* fetchObjectContent: how much of an object of size now is shown, and whether
\* it is marked as cut off, when the size was known as size.
Content(kind, size, now) ==
    LET limit == IF 0 < size /\ size < Limit[kind] THEN size ELSE Limit[kind]
        data == Lesser(now, limit + 1)
        cut == data > limit
    IN  IF kind \in AllOrNothing /\ (cut \/ data = 0)
        THEN [data |-> 0, cut |-> TRUE]
        ELSE [data |-> Lesser(data, limit), cut |-> cut]

\* GetObject, and the read of its content.
GetObject(w) ==
    /\ call[w].pc = "get"
    /\ LET g == call[w].got
           c == Content(g.kind, g.size, object)
       IN  Set(w, [call[w] EXCEPT
               !.pc = "reply",
               !.got = [kind |-> g.kind, data |-> c.data, cut |-> c.cut, read |-> object]])
    /\ UNCHANGED <<world, table, calls, overlap, previewVars>>

-----------------------------------------------------------------------------
(* A level of a bucket: previewObjectStorage and listImmediateChildren *)

BeginLevel(w) ==
    /\ \E k \in ObjectKeys, i \in 0 .. MaxDepth :
          /\ i < Len(k)
          /\ Begin(w, [Idle EXCEPT !.op = "level", !.pc = "fetch", !.got = SubSeq(k, 1, i)])
    /\ UNCHANGED <<world, table, overlap, previewVars>>

ListLevel(w) ==
    /\ call[w].pc = "level"
    /\ Set(w, [call[w] EXCEPT
           !.pc = "reply",
           !.got = [prefix |-> @, entries |-> ImmediateChildren(@, bucket), listed |-> bucket]])
    /\ UNCHANGED <<world, table, calls, overlap, previewVars>>

\* The answer is sent.
Reply(w) ==
    /\ call[w].pc = "reply"
    /\ Finish(w)
    /\ UNCHANGED <<world, table, calls, overlap, previewVars>>

\* Users of the resource insert or delete rows, or write the object.
DataChange ==
    /\ changes < MaxChange
    /\ \/ lines' \in 0 .. MaxSize /\ lines' # lines /\ UNCHANGED object
       \/ object' \in 0 .. MaxSize /\ object' # object /\ UNCHANGED lines
    /\ changes' = changes + 1
    /\ UNCHANGED <<source, typed, table, call, calls, overlap, bucket>>

-----------------------------------------------------------------------------
PreviewInit ==
    /\ lines \in 0 .. MaxSize
    /\ object \in 0 .. MaxSize
    /\ bucket \in SUBSET ObjectKeys

PreviewNext ==
    \/ \E w \in Requests :
          \/ BeginRows(w) \/ CountLines(w) \/ SelectLines(w)
          \/ BeginObject(w) \/ StatObject(w) \/ GetObject(w)
          \/ BeginLevel(w) \/ ListLevel(w) \/ Reply(w)
    \/ DataChange

Init == ConfigInit /\ TablesInit /\ PreviewInit

Next ==
    \/ TablesNext /\ UNCHANGED previewVars
    \/ PreviewNext /\ UNCHANGED configVars

Spec == Init /\ [][Next]_vars

-----------------------------------------------------------------------------
(* Properties *)

Answered(op) == {w \in Requests : call[w].op = op /\ call[w].pc = "reply"}

\* docs/design.md: the first fifty rows, by pages. If the table did not change
\* while it was read, a page shows exactly the rows whose turn it is among those
\* fifty, and the total is right; and never more than a page, or a row behind
\* the fiftieth, if it did.
PageExact ==
    \A w \in Answered("rows") :
        LET g == call[w].got
            all == 1 .. Lesser(g.counted, MaxRows)
        IN  /\ g.read = g.counted =>
                  /\ g.shown = {i \in all : ((i - 1) \div g.size) + 1 = g.page}
                  /\ g.win.total = Cardinality(all)
            /\ Cardinality(g.shown) <= g.size /\ g.shown \subseteq 1 .. MaxRows

\* Content that is not marked as cut off is the whole object, even if the object
\* was replaced by a longer or shorter one after its size was read; and a kind
\* that makes no sense in parts is never shown in part.
ShownWhole ==
    \A w \in Answered("object") :
        LET g == call[w].got
        IN  /\ ~g.cut => g.data = g.read
            /\ g.kind \in AllOrNothing => g.data \in {0, g.read}

\* The three programs that fold keys into levels show the same entries at one
\* place: the preview of the Manager, the browser of Meta, and the tree that a
\* scan makes. (Reserved segments below the first level make a difference.)
LevelsAgree ==
    \A w \in Answered("level") :
        LET g == call[w].got
            metas == ScanBucket(<<>>, g.listed)
        IN  (\A k \in g.listed : \A i \in 2 .. Len(k) : k[i] \notin Reserved) =>
                /\ g.entries = ListNodes(g.prefix, g.listed)
                /\ ~HasReserved(g.prefix) => g.entries = TreeLevel(g.prefix, metas)
=============================================================================
