-------------------------- MODULE DataPreviewProofs --------------------------
(***************************************************************************)
(* Proofs about the Manager as a whole: the configuration, the managed     *)
(* tables and the previews together, for any number of requests that       *)
(* overlap while services start and stop and the data changes.             *)
(***************************************************************************)
EXTENDS DataPreview, ConfigCenterProofs, ManagedTablesProofs, ObjectListingProofs,
        FiniteSetTheorems

PreviewPCs == {"rows", "select", "object", "get", "level"}

\* The rows of a window, of n that there are.
InWindow(win, n) == {i \in 1 .. n : win.offset < i /\ i <= win.offset + win.limit}

\* Pages and sizes as they are after the defaults.
PageAsked(g) == g.page \in Nat \ {0} /\ g.size \in Nat \ {0}

PageCounted(g) ==
    /\ PageAsked(g) /\ DOMAIN g = {"page", "size", "win", "counted", "read", "shown"}
    /\ g.counted \in Nat /\ g.win = Window(g.page, g.size, g.counted)

PageShown(g) ==
    /\ PageCounted(g)
    /\ g.read \in Nat /\ g.shown = InWindow(g.win, g.read)

ObjectShown(g) ==
    /\ ~g.cut => g.data = g.read
    /\ g.kind \in AllOrNothing => g.data \in {0, g.read}

LevelShown(g) ==
    /\ g.listed \subseteq ObjectKeys /\ g.prefix \in Seq(Segments)
    /\ g.entries = ImmediateChildren(g.prefix, g.listed)

\* What a preview has gathered, at each of its steps.
PreviewOK(c) ==
    /\ c.pc \in {"rows", "select"} => c.op = "rows"
    /\ c.pc \in {"object", "get"} => c.op = "object"
    /\ c.pc = "level" => c.op = "level"
    /\ c.op = "rows" /\ c.pc \in {"fetch", "rows"} => PageAsked(c.got)
    /\ c.op = "rows" /\ c.pc = "select" => PageCounted(c.got)
    /\ c.op = "rows" /\ c.pc = "reply" => PageShown(c.got)
    /\ c.op = "object" /\ c.pc = "get" => c.got.kind \in Kinds /\ c.got.size \in Nat
    /\ c.op = "object" /\ c.pc = "reply" => ObjectShown(c.got)
    /\ c.op = "level" /\ c.pc \in {"fetch", "level"} => c.got \in Seq(Segments)
    /\ c.op = "level" /\ c.pc = "reply" => LevelShown(c.got)

PreviewTypeOK == lines \in Nat /\ object \in Nat /\ bucket \subseteq ObjectKeys

\* The inductive invariant of the whole.
Inv ==
    /\ ConfigInv /\ TablesInv /\ PreviewTypeOK
    /\ \A w \in Requests : PreviewOK(call[w])

-----------------------------------------------------------------------------
(* What a window shows *)

LEMMA QuotientIs ==
  ASSUME NEW a \in Nat, NEW q \in Nat, NEW s \in Nat \ {0}
  PROVE  a \div s = q <=> q * s <= a /\ a < q * s + s
<1>1. ASSUME q * s <= a, a < q * s + s PROVE a \div s = q
  BY <1>1
<1>2. ASSUME a \div s = q PROVE q * s <= a /\ a < q * s + s
  BY <1>2
<1> QED BY <1>1, <1>2

LEMMA WindowShows ==
  ASSUME NEW g, PageShown(g)
  PROVE  /\ g.read = g.counted =>
              /\ g.shown = {i \in 1 .. Lesser(g.counted, MaxRows) : ((i - 1) \div g.size) + 1 = g.page}
              /\ g.win.total = Cardinality(1 .. Lesser(g.counted, MaxRows))
         /\ Cardinality(g.shown) <= g.size /\ g.shown \subseteq 1 .. MaxRows
<1> DEFINE n == g.counted
           s == g.size
           total == g.win.total
           offset == g.win.offset
           limit == g.win.limit
<1>1. s \in Nat \ {0} /\ g.page \in Nat \ {0} /\ n \in Nat /\ g.read \in Nat
  BY DEF PageShown, PageCounted, PageAsked
<1>2. /\ total = Lesser(n, MaxRows) /\ offset = (g.page - 1) * s
      /\ limit = IF offset >= total THEN 0 ELSE Lesser(s, total - offset)
      /\ g.shown = InWindow(g.win, g.read)
  BY DEF PageShown, PageCounted, Window
<1>3. PICK q \in Nat : q = g.page - 1
  BY <1>1
<1>4. offset = q * s /\ offset \in Nat
  BY <1>1, <1>2, <1>3
<1>5. /\ total \in Nat /\ total <= n /\ total <= MaxRows /\ total = Lesser(n, MaxRows)
      /\ limit \in Nat /\ limit <= s
      /\ offset >= total => limit = 0
      /\ offset < total => offset + limit <= total
      /\ limit = s \/ offset + limit = total \/ offset >= total
  <2> HIDE DEF s, total, offset, limit
  <2>1. total \in Nat /\ total <= n /\ total <= MaxRows
    BY <1>1, <1>2, PreviewAssumption DEF Lesser
  <2>2. CASE offset >= total
    BY <1>1, <1>2, <1>4, <2>1, <2>2
  <2>3. CASE offset < total
    <3>1. limit = Lesser(s, total - offset)
      BY <1>2, <1>4, <2>1, <2>3
    <3> QED BY <1>1, <1>2, <1>4, <2>1, <2>3, <3>1 DEF Lesser
  <2> QED BY <1>4, <2>1, <2>2, <2>3
<1>6. g.shown = {i \in 1 .. g.read : offset < i /\ i <= offset + limit}
  BY <1>2 DEF InWindow
<1> HIDE DEF n, s, total, offset, limit
<1>7. \A i \in g.shown : i \in Nat /\ i >= 1 /\ i <= total /\ i \in (offset + 1) .. (offset + limit)
  BY <1>1, <1>4, <1>5, <1>6
<1>8. ASSUME g.read = n
      PROVE  g.shown = {i \in 1 .. total : ((i - 1) \div s) + 1 = g.page}
  <2>1. ASSUME NEW i \in 1 .. n
        PROVE  (offset < i /\ i <= offset + limit) <=> (i \in 1 .. total /\ ((i - 1) \div s) + 1 = g.page)
    <3>1. PICK a \in Nat : a = i - 1
      BY <1>1
    <3>2. a \div s = q <=> q * s <= a /\ a < q * s + s
      BY <1>1, QuotientIs
    <3>3. a \div s \in Int
      BY <1>1
    <3>4. (a \div s) + 1 = g.page <=> a \div s = q
      BY <1>1, <1>3, <3>3
    <3>5. (offset < i /\ i <= offset + limit) <=> (i \in 1 .. total /\ offset <= a /\ a < offset + s)
      BY <1>1, <1>4, <1>5, <3>1
    <3> QED BY <1>4, <3>1, <3>2, <3>4, <3>5
  <2>2. 1 .. total \subseteq 1 .. n
    BY <1>1, <1>5
  <2> QED BY <1>6, <1>8, <2>1, <2>2
<1>9. Cardinality(1 .. total) = total
  BY <1>5, FS_Interval
<1>10. Cardinality(g.shown) <= s
  <2> DEFINE R == (offset + 1) .. (offset + limit)
  <2>1. IsFiniteSet(R) /\ Cardinality(R) = limit
    <3>1. offset + 1 \in Int /\ offset + limit \in Int
      BY <1>4, <1>5
    <3>2. IsFiniteSet(R) /\ Cardinality(R) = IF offset + 1 > offset + limit THEN 0
                                             ELSE (offset + limit) - (offset + 1) + 1
      BY <3>1, FS_Interval
    <3> HIDE DEF R
    <3> QED BY <1>4, <1>5, <3>2
  <2>2. g.shown \subseteq R
    BY <1>7
  <2> HIDE DEF R
  <2>3. Cardinality(g.shown) \in Nat /\ Cardinality(g.shown) <= Cardinality(R)
    BY <2>1, <2>2, FS_Subset, FS_CardinalityType
  <2> QED BY <1>1, <1>5, <2>1, <2>3
<1>11. g.shown \subseteq 1 .. MaxRows
  BY <1>5, <1>7, PreviewAssumption
<1> QED BY <1>5, <1>8, <1>9, <1>10, <1>11 DEF n, s, total

LEMMA ContentShows ==
  ASSUME NEW kind \in Kinds, NEW size \in Nat, NEW now \in Nat
  PROVE  LET c == Content(kind, size, now)
         IN  /\ ~c.cut => c.data = now
             /\ kind \in AllOrNothing => c.data \in {0, now}
<1> DEFINE limit == IF 0 < size /\ size < Limit[kind] THEN size ELSE Limit[kind]
           data == Lesser(now, limit + 1)
           cut == data > limit
<1>1. limit \in Nat
  BY PreviewAssumption
<1>2. Content(kind, size, now) =
        IF kind \in AllOrNothing /\ (cut \/ data = 0) THEN [data |-> 0, cut |-> TRUE]
        ELSE [data |-> Lesser(data, limit), cut |-> cut]
  BY DEF Content
<1> HIDE DEF limit
<1>3. data \in Nat /\ (~cut => data = now /\ Lesser(data, limit) = now)
  BY <1>1 DEF Lesser
<1> HIDE DEF data, cut
<1> QED BY <1>2, <1>3

-----------------------------------------------------------------------------
(* Steps *)

\* A preview disturbs neither rows nor the other requests.
LEMMA PreviewCall ==
  ASSUME Inv, NEW w \in Requests, NEW c, Set(w, c), PreviewOK(c),
         DOMAIN c = Fields, c.op \in Ops, c.pc \in PreviewPCs \cup {"fetch", "reply"},
         c.op = "scan" => call[w].op = "scan" /\ c.todo \subseteq Answers,
         c.op = "manage" => c.id \in Rows,
         calls' \in Nat, UNCHANGED <<world, table, overlap, configVars, previewVars>>
  PROVE  Inv'
<1>1. CallOK(c)
  BY DEF CallOK, ScanPCs, ManagePCs, PreviewPCs
<1>2. TablesInv'
  BY <1>1, CallStep DEF Inv, PreviewPCs
<1>3. ConfigInv'
  BY ConfigNextInv DEF Inv
<1>4. PreviewTypeOK'
  BY DEF Inv, PreviewTypeOK, previewVars
<1>5. \A v \in Requests : call'[v] = c \/ call'[v] = call[v]
  BY DEF Set, Inv, TablesInv
<1>6. \A v \in Requests : PreviewOK(call'[v])
  BY <1>5 DEF Inv
<1>7. \A v \in Requests : PreviewOK(call[v])'
  BY <1>6 DEF PreviewOK
<1> QED BY <1>2, <1>3, <1>4, <1>7 DEF Inv

\* A preview begins.
LEMMA BeginsInv ==
  ASSUME Inv, NEW w \in Requests, NEW c, DOMAIN c = Fields,
         c.op \in {"rows", "object", "level"}, c.pc = "fetch", Begin(w, c), PreviewOK(c),
         UNCHANGED <<world, table, overlap, configVars, previewVars>>
  PROVE  Inv'
<1>1. c.op \in Ops /\ c.op # "scan" /\ c.op # "manage"
  BY DEF Ops
<1>2. Set(w, c) /\ calls' \in Nat
  BY DEF Begin, Inv, TablesInv, TablesTypeOK
<1> QED BY <1>1, <1>2, PreviewCall

LEMMA BeginRowsInv ==
  ASSUME Inv, NEW w \in Requests, BeginRows(w), UNCHANGED configVars PROVE Inv'
<1>1. PICK p \in Pages, s \in Sizes :
         Begin(w, [Idle EXCEPT !.op = "rows", !.pc = "fetch",
                      !.got = [page |-> IF p < 1 THEN 1 ELSE p,
                               size |-> IF s <= 0 THEN DefaultSize ELSE s]])
  BY DEF BeginRows
<1>2. PICK g : g = [page |-> IF p < 1 THEN 1 ELSE p, size |-> IF s <= 0 THEN DefaultSize ELSE s]
  OBVIOUS
<1>3. PageAsked(g)
  <2>1. p \in Int /\ s \in Int /\ DefaultSize \in Nat \ {0}
    BY PreviewAssumption
  <2>2. (IF p < 1 THEN 1 ELSE p) \in Nat \ {0} /\ (IF s <= 0 THEN DefaultSize ELSE s) \in Nat \ {0}
    BY <2>1
  <2> QED BY <1>2, <2>2 DEF PageAsked
<1> DEFINE c == [Idle EXCEPT !.op = "rows", !.pc = "fetch", !.got = g]
<1>5. Begin(w, c)
  BY <1>1, <1>2
<1>6. c.op = "rows" /\ c.pc = "fetch" /\ c.got = g /\ DOMAIN c = Fields
  BY DEF Idle, Fields
<1> HIDE DEF c
<1>7. PreviewOK(c)
  BY <1>3, <1>6 DEF PreviewOK
<1>8. UNCHANGED <<world, table, overlap, previewVars>>
  BY DEF BeginRows
<1> QED BY <1>5, <1>6, <1>7, <1>8, BeginsInv

LEMMA BeginObjectInv ==
  ASSUME Inv, NEW w \in Requests, BeginObject(w), UNCHANGED configVars PROVE Inv'
<1> DEFINE c == [Idle EXCEPT !.op = "object", !.pc = "fetch"]
<1>1. c.op = "object" /\ c.pc = "fetch" /\ DOMAIN c = Fields
  BY DEF Idle, Fields
<1>2. Begin(w, c) /\ UNCHANGED <<world, table, overlap, previewVars>>
  BY DEF BeginObject
<1> HIDE DEF c
<1>3. PreviewOK(c)
  BY <1>1 DEF PreviewOK
<1> QED BY <1>1, <1>2, <1>3, BeginsInv

LEMMA BeginLevelInv ==
  ASSUME Inv, NEW w \in Requests, BeginLevel(w), UNCHANGED configVars PROVE Inv'
<1>1. PICK k \in ObjectKeys, i \in 0 .. MaxDepth :
         /\ i < Len(k)
         /\ Begin(w, [Idle EXCEPT !.op = "level", !.pc = "fetch", !.got = SubSeq(k, 1, i)])
  BY DEF BeginLevel
<1>2. PICK g : g = SubSeq(k, 1, i)
  OBVIOUS
<1>3. g \in Seq(Segments)
  <2>1. k \in Seq(Segments) /\ MaxDepth \in Nat
    BY PreviewAssumption
  <2>2. i \in 0 .. Len(k)
    BY <1>1, <2>1
  <2> QED BY <1>2, <2>1, <2>2, InitialOf
<1> DEFINE c == [Idle EXCEPT !.op = "level", !.pc = "fetch", !.got = g]
<1>5. Begin(w, c)
  BY <1>1, <1>2
<1>6. c.op = "level" /\ c.pc = "fetch" /\ c.got = g /\ DOMAIN c = Fields
  BY DEF Idle, Fields
<1> HIDE DEF c
<1>7. PreviewOK(c)
  BY <1>3, <1>6 DEF PreviewOK
<1>8. UNCHANGED <<world, table, overlap, previewVars>>
  BY DEF BeginLevel
<1> QED BY <1>5, <1>6, <1>7, <1>8, BeginsInv

LEMMA CallFields == Inv => \A w \in Requests : DOMAIN call[w] = Fields
  BY DEF Inv, TablesInv, CallOK

\* A preview takes its next step: it keeps all but its place and what it has.
LEMMA ProceedsInv ==
  ASSUME Inv, NEW w \in Requests, NEW pc \in PreviewPCs \cup {"reply"}, NEW g, NEW c,
         c = [call[w] EXCEPT !.pc = pc, !.got = g],
         call[w].op \in {"rows", "object", "level"}, Set(w, c), PreviewOK(c),
         UNCHANGED <<world, table, calls, overlap, configVars, previewVars>>
  PROVE  Inv'
<1>1. DOMAIN call[w] = Fields
  BY CallFields
<1>2. DOMAIN c = Fields /\ c.op = call[w].op /\ c.pc = pc
  BY <1>1 DEF Fields
<1>3. calls' \in Nat
  BY DEF Inv, TablesInv, TablesTypeOK
<1>4. c.op \in Ops /\ c.op # "scan" /\ c.op # "manage"
  BY <1>2 DEF Ops
<1> QED BY <1>2, <1>3, <1>4, PreviewCall

LEMMA CountLinesInv ==
  ASSUME Inv, NEW w \in Requests, CountLines(w), UNCHANGED configVars PROVE Inv'
<1>1. /\ call[w].pc = "rows" /\ call[w].op = "rows" /\ PageAsked(call[w].got) /\ lines \in Nat
      /\ UNCHANGED <<world, table, calls, overlap, previewVars>>
  BY DEF CountLines, Inv, PreviewOK, PreviewTypeOK
<1> DEFINE g == call[w].got
           win == Window(g.page, g.size, lines)
           pc == IF win.limit = 0 THEN "reply" ELSE "select"
           h == [page |-> g.page, size |-> g.size, win |-> win, counted |-> lines,
                 read |-> lines, shown |-> {}]
           c == [call[w] EXCEPT !.pc = pc, !.got = h]
<1>2. Set(w, c)
  BY DEF CountLines
<1>3. PageCounted(h) /\ h.read = lines /\ h.shown = {} /\ h.win = win
  BY <1>1 DEF PageCounted, PageAsked
<1>4. win.offset \in Nat
  <2>1. g.page - 1 \in Nat /\ g.size \in Nat
    BY <1>1 DEF PageAsked
  <2> HIDE DEF g
  <2> QED BY <2>1 DEF Window
<1> HIDE DEF h, c, win, pc
<1>5. c.op = "rows" /\ c.pc = pc /\ c.got = h
  BY <1>1, CallFields DEF c, Fields
<1> USE DEF pc
<1>6. pc = "reply" => PageShown(h)
  <2> SUFFICES ASSUME win.limit = 0 PROVE PageShown(h)
    OBVIOUS
  <2>1. InWindow(win, lines) = {}
    BY <1>1, <1>4 DEF InWindow
  <2> QED BY <1>1, <1>3, <2>1 DEF PageShown
<1>7. PreviewOK(c)
  BY <1>3, <1>5, <1>6 DEF PreviewOK
<1>8. pc \in PreviewPCs \cup {"reply"}
  BY DEF PreviewPCs
<1> HIDE DEF pc
<1> QED BY <1>1, <1>2, <1>7, <1>8, ProceedsInv DEF c

LEMMA SelectLinesInv ==
  ASSUME Inv, NEW w \in Requests, SelectLines(w), UNCHANGED configVars PROVE Inv'
<1>1. /\ call[w].pc = "select" /\ call[w].op = "rows" /\ PageCounted(call[w].got) /\ lines \in Nat
      /\ UNCHANGED <<world, table, calls, overlap, previewVars>>
  BY DEF SelectLines, Inv, PreviewOK, PreviewTypeOK
<1> DEFINE g == call[w].got
           shown == {i \in 1 .. lines : g.win.offset < i /\ i <= g.win.offset + g.win.limit}
           h == [g EXCEPT !.read = lines, !.shown = shown]
           c == [call[w] EXCEPT !.pc = "reply", !.got = h]
<1>2. DOMAIN call[w] = Fields
  BY CallFields
<1>3. Set(w, c)
  BY <1>2 DEF SelectLines, Fields
<1>4. /\ h.page = g.page /\ h.size = g.size /\ h.win = g.win /\ h.counted = g.counted
      /\ h.read = lines /\ h.shown = shown
      /\ DOMAIN h = {"page", "size", "win", "counted", "read", "shown"}
  BY <1>1 DEF PageCounted
<1> HIDE DEF h
<1>5. PageShown(h)
  BY <1>1, <1>4 DEF PageShown, PageCounted, PageAsked, InWindow
<1> HIDE DEF c, shown
<1>6. c.op = "rows" /\ c.pc = "reply" /\ c.got = h
  BY <1>1, CallFields DEF c, Fields
<1>7. PreviewOK(c)
  BY <1>5, <1>6 DEF PreviewOK
<1> QED BY <1>1, <1>3, <1>7, ProceedsInv DEF c

LEMMA StatObjectInv ==
  ASSUME Inv, NEW w \in Requests, StatObject(w), UNCHANGED configVars PROVE Inv'
<1>1. PICK k \in Kinds :
         Set(w, [call[w] EXCEPT !.pc = "get", !.got = [kind |-> k, size |-> object]])
  BY DEF StatObject
<1>2. /\ call[w].pc = "object" /\ call[w].op = "object" /\ object \in Nat
      /\ UNCHANGED <<world, table, calls, overlap, previewVars>>
  BY DEF StatObject, Inv, PreviewOK, PreviewTypeOK
<1> DEFINE h == [kind |-> k, size |-> object]
           c == [call[w] EXCEPT !.pc = "get", !.got = h]
<1>3. h.kind = k /\ h.size = object
  OBVIOUS
<1> HIDE DEF h, c
<1>4. c.op = "object" /\ c.pc = "get" /\ c.got = h
  BY <1>2, CallFields DEF c, Fields
<1>5. PreviewOK(c)
  BY <1>2, <1>3, <1>4 DEF PreviewOK
<1> QED BY <1>1, <1>2, <1>5, ProceedsInv DEF c, h, PreviewPCs

LEMMA GetObjectInv ==
  ASSUME Inv, NEW w \in Requests, GetObject(w), UNCHANGED configVars PROVE Inv'
<1>1. /\ call[w].pc = "get" /\ call[w].op = "object" /\ object \in Nat
      /\ call[w].got.kind \in Kinds /\ call[w].got.size \in Nat
      /\ UNCHANGED <<world, table, calls, overlap, previewVars>>
  BY DEF GetObject, Inv, PreviewOK, PreviewTypeOK
<1> DEFINE g == call[w].got
           r == Content(g.kind, g.size, object)
           h == [kind |-> g.kind, data |-> r.data, cut |-> r.cut, read |-> object]
           c == [call[w] EXCEPT !.pc = "reply", !.got = h]
<1>2. Set(w, c)
  BY DEF GetObject
<1>3. /\ ~r.cut => r.data = object
      /\ g.kind \in AllOrNothing => r.data \in {0, object}
  BY <1>1, ContentShows
<1> HIDE DEF r
<1>4. ObjectShown(h)
  BY <1>3 DEF ObjectShown
<1> HIDE DEF h, c
<1>5. c.op = "object" /\ c.pc = "reply" /\ c.got = h
  BY <1>1, CallFields DEF c, Fields
<1>6. PreviewOK(c)
  BY <1>4, <1>5 DEF PreviewOK
<1> QED BY <1>1, <1>2, <1>6, ProceedsInv DEF c

LEMMA ListLevelInv ==
  ASSUME Inv, NEW w \in Requests, ListLevel(w), UNCHANGED configVars PROVE Inv'
<1>1. /\ call[w].pc = "level" /\ call[w].op = "level" /\ bucket \subseteq ObjectKeys
      /\ call[w].got \in Seq(Segments)
      /\ UNCHANGED <<world, table, calls, overlap, previewVars>>
  BY DEF ListLevel, Inv, PreviewOK, PreviewTypeOK
<1> DEFINE g == call[w].got
           h == [prefix |-> g, entries |-> ImmediateChildren(g, bucket), listed |-> bucket]
           c == [call[w] EXCEPT !.pc = "reply", !.got = h]
<1>2. Set(w, c)
  BY DEF ListLevel
<1>3. LevelShown(h)
  BY <1>1 DEF LevelShown
<1> HIDE DEF h, c
<1>4. c.op = "level" /\ c.pc = "reply" /\ c.got = h
  BY <1>1, CallFields DEF c, Fields
<1>5. PreviewOK(c)
  BY <1>3, <1>4 DEF PreviewOK
<1> QED BY <1>1, <1>2, <1>5, ProceedsInv DEF c

LEMMA IdlePreviewOK == PreviewOK(Idle)
  BY DEF PreviewOK, Idle

LEMMA ReplyInv ==
  ASSUME Inv, NEW w \in Requests, Reply(w), UNCHANGED configVars PROVE Inv'
<1>1. Set(w, Idle) /\ UNCHANGED <<world, table, calls, overlap, previewVars>>
  BY DEF Reply, Finish
<1>2. TablesInv'
  <2>1. calls' \in Nat
    BY <1>1 DEF Inv, TablesInv, TablesTypeOK
  <2> QED BY <1>1, <2>1, FinishInv DEF Inv, Finish
<1>3. ConfigInv' /\ PreviewTypeOK'
  BY <1>1, ConfigNextInv DEF Inv, PreviewTypeOK, previewVars
<1>4. \A v \in Requests : call'[v] = Idle \/ call'[v] = call[v]
  BY <1>1 DEF Set, Inv, TablesInv
<1>5. \A v \in Requests : PreviewOK(call[v])'
  BY <1>4, IdlePreviewOK DEF Inv, PreviewOK
<1> QED BY <1>2, <1>3, <1>5 DEF Inv

-----------------------------------------------------------------------------
(* Scans and management leave the previews alone *)

LEMMA OthersOK ==
  ASSUME Inv, NEW w \in Requests, NEW c, Set(w, c), PreviewOK(c)
  PROVE  \A v \in Requests : PreviewOK(call'[v])
  BY DEF Set, Inv, TablesInv

LEMMA NoPreview ==
  ASSUME NEW c, c.op \in {"scan", "manage"}, c.pc \in {"fetch"} \cup ScanPCs \cup ManagePCs
  PROVE  PreviewOK(c)
  BY DEF PreviewOK, ScanPCs, ManagePCs

LEMMA FetchPreview ==
  ASSUME Inv, NEW w \in Requests, Fetch(w)
  PROVE  \A v \in Requests : PreviewOK(call'[v])
<1>1. CASE Finish(w)
  BY <1>1, IdlePreviewOK, OthersOK DEF Finish
<1>2. CASE Set(w, [call[w] EXCEPT !.pc = AfterFetch(call[w].op)])
  <2> DEFINE c == [call[w] EXCEPT !.pc = AfterFetch(call[w].op)]
  <2>1. c.op = call[w].op /\ c.pc = AfterFetch(c.op) /\ c.got = call[w].got
    BY CallFields DEF Fields
  <2>2. call[w].pc = "fetch" /\ PreviewOK(call[w]) /\ call[w].op \in Ops
    BY DEF Fetch, Inv, TablesInv, CallOK
  <2> HIDE DEF c
  <2>3. PreviewOK(c)
    BY <2>1, <2>2 DEF PreviewOK, AfterFetch, Ops
  <2> QED BY <1>2, <2>3, OthersOK DEF c
<1> QED BY <1>1, <1>2 DEF Fetch

\* A step to place pc of a request that is no preview.
LEMMA StepPreview ==
  ASSUME Inv, NEW w \in Requests, call[w].pc \in ScanPCs \cup ManagePCs, NEW c,
         c.op = call[w].op, c.pc \in ScanPCs \cup ManagePCs, Set(w, c)
  PROVE  \A v \in Requests : PreviewOK(call'[v])
<1>1. c.op \in {"scan", "manage"}
  BY DEF Inv, TablesInv, CallOK
<1> QED BY <1>1, NoPreview, OthersOK

LEMMA TableStepPreview ==
  ASSUME Inv, NEW w \in Requests, TableStep(w)
  PROVE  \A v \in Requests : PreviewOK(call'[v])
<1> USE DEF ScanPCs, ManagePCs
<1>0. DOMAIN call[w] = Fields
  BY CallFields
<1>1. CASE Finish(w)
  BY <1>1, IdlePreviewOK, OthersOK DEF Finish
<1>2. CASE ListTables(w)
  <2> DEFINE c == [call[w] EXCEPT !.pc = "look",
                           !.todo = {Answer(t) : t \in {u \in Tables : source[u] # 0}}]
  <2>1. c.op = call[w].op /\ c.pc = "look" /\ Set(w, c) /\ call[w].pc = "list"
    BY <1>0, <1>2 DEF ListTables, Fields
  <2> HIDE DEF c
  <2> QED BY <2>1, StepPreview
<1>3. CASE LookUp(w)
  <2> SUFFICES ASSUME NEW a \in call[w].todo, ~Finish(w),
                      LET d == [call[w] EXCEPT !.todo = @ \ {a}, !.tab = a.tab, !.got = <<a>>]
                      IN  IF RowsOf(a.tab) = {} THEN Set(w, [d EXCEPT !.pc = "insert"])
                          ELSE Set(w, [d EXCEPT !.pc = "update", !.id = Lowest(RowsOf(a.tab))])
               PROVE  \A v \in Requests : PreviewOK(call'[v])
    BY <1>1, <1>3 DEF LookUp
  <2> DEFINE d == [call[w] EXCEPT !.todo = @ \ {a}, !.tab = a.tab, !.got = <<a>>]
             i == [d EXCEPT !.pc = "insert"]
             u == [d EXCEPT !.pc = "update", !.id = Lowest(RowsOf(a.tab))]
  <2>1. /\ i.op = call[w].op /\ i.pc = "insert"
        /\ u.op = call[w].op /\ u.pc = "update"
    BY <1>0 DEF Fields
  <2>2. (Set(w, i) \/ Set(w, u)) /\ call[w].pc = "look"
    BY <1>3 DEF LookUp
  <2> HIDE DEF i, u
  <2> QED BY <2>1, <2>2, StepPreview
<1>4. CASE InsertRow(w) \/ UpdateRow(w)
  <2> DEFINE c == [call[w] EXCEPT !.pc = "look"]
  <2>1. c.op = call[w].op /\ c.pc = "look" /\ Set(w, c) /\ call[w].pc \in {"insert", "update"}
    BY <1>0, <1>4 DEF InsertRow, UpdateRow, Fields
  <2> HIDE DEF c
  <2> QED BY <2>1, StepPreview
<1>5. CASE ReadRow(w)
  <2> DEFINE c == [call[w] EXCEPT !.pc = "columns", !.tab = table[call[w].id].tab]
  <2>1. c.op = call[w].op /\ c.pc = "columns" /\ Set(w, c) /\ call[w].pc = "row"
    BY <1>0, <1>5 DEF ReadRow, Fields
  <2> HIDE DEF c
  <2> QED BY <2>1, StepPreview
<1>6. CASE ReadColumns(w)
  <2> DEFINE c == [call[w] EXCEPT !.pc = "count", !.got = <<Answer(call[w].tab)>>]
  <2>1. c.op = call[w].op /\ c.pc = "count" /\ Set(w, c) /\ call[w].pc = "columns"
    BY <1>0, <1>6 DEF ReadColumns, Fields
  <2> HIDE DEF c
  <2> QED BY <2>1, StepPreview
<1>7. CASE CountRows(w) \/ ReadSample(w)
  <2> SUFFICES ASSUME ~Finish(w) PROVE \A v \in Requests : PreviewOK(call'[v])
    BY <1>1
  <2> DEFINE c(p) == [call[w] EXCEPT !.pc = p, !.got = Append(@, Answer(Folded[call[w].tab]))]
  <2>1. PICK p \in {"sample", "mark"} : Set(w, c(p))
    BY <1>7 DEF CountRows, ReadSample
  <2>2. c(p).op = call[w].op /\ c(p).pc = p /\ call[w].pc \in {"count", "sample"}
    BY <1>0, <1>7 DEF CountRows, ReadSample, Fields
  <2> HIDE DEF c
  <2> QED BY <2>1, <2>2, StepPreview
<1> QED BY <1>1, <1>2, <1>3, <1>4, <1>5, <1>6, <1>7, FetchPreview
        DEF TableStep, MarkManaged, CallFails

LEMMA BeginPreview ==
  ASSUME Inv, NEW w \in Requests, BeginScan(w) \/ BeginManage(w) \/ Unmanage(w)
  PROVE  \A v \in Requests : PreviewOK(call'[v])
<1>1. CASE BeginScan(w)
  <2> DEFINE c == [Idle EXCEPT !.op = "scan", !.pc = "fetch"]
  <2>1. c.op = "scan" /\ c.pc = "fetch" /\ Set(w, c)
    BY <1>1 DEF BeginScan, Begin, Idle
  <2> HIDE DEF c
  <2> QED BY <2>1, NoPreview, OthersOK
<1>2. CASE BeginManage(w)
  <2>1. PICK n \in Rows : Begin(w, [Idle EXCEPT !.op = "manage", !.pc = "fetch", !.id = n])
    BY <1>2 DEF BeginManage
  <2> DEFINE c == [Idle EXCEPT !.op = "manage", !.pc = "fetch", !.id = n]
  <2>2. c.op = "manage" /\ c.pc = "fetch" /\ Set(w, c)
    BY <2>1 DEF Begin, Idle
  <2> HIDE DEF c
  <2> QED BY <2>2, NoPreview, OthersOK
<1>3. CASE Unmanage(w)
  BY <1>3, IdlePreviewOK, OthersOK DEF Unmanage, Begin
<1> QED BY <1>1, <1>2, <1>3

-----------------------------------------------------------------------------
(* The whole *)

LEMMA InitInv == Init => Inv
<1> SUFFICES ASSUME Init PROVE Inv
  OBVIOUS
<1>1. ConfigInv /\ TablesInv
  BY ConfigInitInv, TablesInitInv DEF Init
<1>2. PreviewTypeOK
  BY PreviewAssumption DEF Init, PreviewInit, PreviewTypeOK
<1>3. \A w \in Requests : call[w] = Idle
  BY DEF Init, TablesInit
<1> QED BY <1>1, <1>2, <1>3, IdlePreviewOK DEF Inv

\* Scans, management, and the starts and stops of services.
LEMMA TablesPartInv == Inv /\ TablesNext /\ UNCHANGED previewVars => Inv'
<1> SUFFICES ASSUME Inv, TablesNext, UNCHANGED previewVars PROVE Inv'
  OBVIOUS
<1>1. TablesInv'
  BY TablesNextInv DEF Inv
<1>2. ConfigInv'
  <2>1. [ConfigNext]_configVars
    BY DEF TablesNext, ConfigNext, ManagerStop, Modules
  <2> QED BY <2>1, ConfigNextInv DEF Inv
<1>3. PreviewTypeOK'
  BY DEF Inv, PreviewTypeOK, previewVars
<1>4. \A w \in Requests : PreviewOK(call'[w])
  <2>1. CASE UNCHANGED call
    BY <2>1 DEF Inv
  <2>2. CASE ManagerStop
    BY <2>2, IdlePreviewOK DEF ManagerStop
  <2>3. CASE TableNext
    <3>1. CASE TableChange
      BY <2>1, <3>1 DEF TableChange
    <3> QED BY <2>3, <3>1, BeginPreview, TableStepPreview DEF TableNext
  <2> QED BY <2>1, <2>2, <2>3 DEF TablesNext, tableVars
<1>5. \A w \in Requests : PreviewOK(call[w])'
  BY <1>4 DEF PreviewOK
<1> QED BY <1>1, <1>2, <1>3, <1>5 DEF Inv

LEMMA DataChangeInv == Inv /\ DataChange /\ UNCHANGED configVars => Inv'
<1> SUFFICES ASSUME Inv, DataChange, UNCHANGED configVars PROVE Inv'
  OBVIOUS
<1>1. /\ UNCHANGED <<source, typed, table, call, calls, overlap, bucket>>
      /\ changes' \in Nat /\ source' \in [Tables -> Nat] /\ typed' \in BOOLEAN /\ calls' \in Nat
  BY DEF DataChange, Inv, TablesInv, TablesTypeOK
<1>2. TablesInv'
  BY <1>1, TablesUntouched DEF Inv
<1>3. ConfigInv'
  BY ConfigNextInv DEF Inv
<1>4. PreviewTypeOK'
  BY PreviewAssumption DEF DataChange, Inv, PreviewTypeOK
<1>5. \A w \in Requests : PreviewOK(call[w])'
  BY <1>1 DEF Inv, PreviewOK
<1> QED BY <1>2, <1>3, <1>4, <1>5 DEF Inv

LEMMA StutterInv == Inv /\ UNCHANGED vars => Inv'
<1> SUFFICES ASSUME Inv, UNCHANGED vars PROVE Inv'
  OBVIOUS
<1>1. UNCHANGED configVars /\ UNCHANGED tableVars /\ UNCHANGED previewVars
  BY DEF vars
<1>2. ConfigInv' /\ TablesInv'
  BY <1>1, ConfigNextInv, TablesNextInv DEF Inv
<1>3. PreviewTypeOK' /\ \A w \in Requests : PreviewOK(call[w])'
  BY <1>1 DEF Inv, PreviewTypeOK, PreviewOK, previewVars, tableVars
<1> QED BY <1>2, <1>3 DEF Inv

LEMMA NextInv == Inv /\ [Next]_vars => Inv'
<1>1. Inv /\ PreviewNext /\ UNCHANGED configVars => Inv'
  BY BeginRowsInv, CountLinesInv, SelectLinesInv, BeginObjectInv, StatObjectInv, GetObjectInv,
     BeginLevelInv, ListLevelInv, ReplyInv, DataChangeInv DEF PreviewNext
<1> QED BY <1>1, TablesPartInv, StutterInv DEF Next

THEOREM Invariant == Spec => []Inv
  BY InitInv, NextInv, PTL DEF Spec

-----------------------------------------------------------------------------
(* What it implies *)

\* The Manager that got the shared configuration opens every password that the
\* System it asked has stored (LoadSharedConfig, getResource).
THEOREM PasswordsOpen == Spec => []ManagerOpens
<1>1. Inv => ManagerOpens
  BY ManagerOpensFromInv DEF Inv
<1> QED BY <1>1, Invariant, PTL

\* Meta that got the shared configuration never takes a mask for a password.
THEOREM NoMaskForMeta == Spec => []MetaOpens
<1>1. Inv => MetaOpens
  BY MetaOpensFromInv DEF Inv
<1> QED BY <1>1, Invariant, PTL

\* Scans that are not in progress at once list every table once, however many
\* fail or die half-way (SaveOrUpdateTables).
THEOREM ListedOnce == Spec => []TableListedOnce
<1>1. Inv => TableListedOnce
  BY DEF Inv, TablesInv
<1> QED BY <1>1, Invariant, PTL

\* A scan leaves the flag and the details of every row alone, also of a table that
\* was managed or released since it looked the row up (SaveOrUpdateTables).
THEOREM ScansKeepManagement == Spec => ManagementKept
<1>1. Inv /\ [Next]_vars => [KeepsManagement]_<<table, call>>
  <2> SUFFICES ASSUME Inv, [Next]_vars PROVE KeepsManagement
    OBVIOUS
  <2>1. CASE UNCHANGED table
    BY <2>1, RowsUntouched
  <2>2. CASE TablesNext
    BY <2>2, TablesManagement DEF Inv
  <2> QED BY <2>1, <2>2 DEF Next, PreviewNext, BeginRows, CountLines, SelectLines,
          BeginObject, StatObject, GetObject, BeginLevel, ListLevel, Reply, DataChange,
          vars, tableVars, world
<1> QED BY <1>1, Invariant, PTL DEF Spec, ManagementKept

\* A row is managed exactly if it has details, whatever requests overlap.
THEOREM ManagedHasDetails == Spec => []DetailsIffManaged
<1>1. Inv => DetailsIffManaged
  BY DEF Inv, TablesInv
<1> QED BY <1>1, Invariant, PTL

\* The details of a managed table are its own (MarkTableAsManaged).
THEOREM DetailsOfOneTable == Spec => []DetailsOwn
<1>1. Inv => DetailsOwn
  BY DEF Inv, TablesInv
<1> QED BY <1>1, Invariant, PTL

\* A page of a table that did not change shows the rows whose turn it is, and
\* never more than a page (QueryTablePreview).
THEOREM PagesExact == Spec => []PageExact
<1>1. Inv => PageExact
  <2> SUFFICES ASSUME Inv, NEW w \in Answered("rows") PROVE PageShown(call[w].got)
    BY WindowShows DEF PageExact
  <2> QED BY DEF Inv, PreviewOK, Answered
<1> QED BY <1>1, Invariant, PTL

\* Content that is not marked as cut off is the whole object, although its size
\* is read before its content (fetchObjectContent).
THEOREM ContentWhole == Spec => []ShownWhole
<1>1. Inv => ShownWhole
  BY DEF Inv, PreviewOK, ObjectShown, Answered, ShownWhole
<1> QED BY <1>1, Invariant, PTL

\* The previews of levels agree with the browser of Meta and with the tree that
\* a scan makes, for keys of any length (listImmediateChildren, ListNodes,
\* scanBucket).
THEOREM PreviewsAgree == Spec => []LevelsAgree
<1>1. Inv => LevelsAgree
  <2> SUFFICES ASSUME Inv, NEW w \in Answered("level"), NEW g, g = call[w].got,
                      \A k \in g.listed : \A i \in 2 .. Len(k) : k[i] \notin Reserved
               PROVE  /\ g.entries = ListNodes(g.prefix, g.listed)
                      /\ ~HasReserved(g.prefix) =>
                            g.entries = TreeLevel(g.prefix, ScanBucket(<<>>, g.listed))
    BY DEF LevelsAgree
  <2>1. LevelShown(g)
    BY DEF Inv, PreviewOK, Answered
  <2>2. g.listed \in SUBSET (Seq(Segments) \ {<<>>}) /\ g.prefix \in Seq(Segments)
    BY <2>1, PreviewAssumption DEF LevelShown
  <2>3. g.entries = ListNodes(g.prefix, g.listed)
    BY <2>1, <2>2, BrowsersAgree DEF LevelShown
  <2> QED BY <2>2, <2>3, TreeAgrees
<1> QED BY <1>1, Invariant, PTL
=============================================================================
