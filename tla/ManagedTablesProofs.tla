-------------------------- MODULE ManagedTablesProofs --------------------------
(***************************************************************************)
(* Proofs about ManagedTables: what every step of every request keeps true *)
(* of managed_tables, for any number of requests that overlap, fail or are *)
(* cut off with the process. There is a lemma for each action;             *)
(* DataPreviewProofs adds the steps of the previews.                       *)
(***************************************************************************)
EXTENDS ManagedTables, WellFoundedInduction, TLAPS

\* The fields of the progress of a request.
Fields == {"op", "pc", "id", "tab", "todo", "got"}

Ops == {"none", "scan", "manage", "rows", "object", "level"}
ScanPCs == {"list", "look", "insert", "update"}
ManagePCs == {"row", "columns", "count", "sample", "mark"}

\* What queries about table t may return.
Of(t) == {a \in Answers : a.tab = t}

\* What the progress c of a request says of the rows: a request to manage has
\* the row that it looked up, and its answers are about the table of that row,
\* or about the table that the unquoted name means.
CallOK(c) ==
    /\ DOMAIN c = Fields
    /\ c.op \in Ops
    /\ c.pc \in ScanPCs => c.op = "scan"
    /\ c.pc \in ManagePCs => c.op = "manage"
    /\ c.pc = "idle" => c.op # "scan"
    /\ c.op = "scan" => c.todo \subseteq Answers
    /\ c.pc \in {"insert", "update"} => c.got[1] \in Answers /\ c.got[1].tab = c.tab
    /\ c.pc = "update" => c.id \in Rows
    /\ c.op = "manage" => c.id \in Rows
    /\ c.pc \in ManagePCs \ {"row"} => c.tab = table[c.id].tab
    /\ c.pc \in {"count", "sample", "mark"} => c.got \in Seq(Answers) /\ c.got[1] \in Of(c.tab)
    /\ c.pc = "count" => Len(c.got) = 1
    /\ c.pc = "sample" => Len(c.got) = 2
    /\ c.pc = "mark" => Len(c.got) = 3 /\ c.got[3] \in Of(Folded[c.tab])
    /\ c.pc \in {"sample", "mark"} => c.got[2] \in Of(Folded[c.tab])

\* A scan that is alone is about to insert only tables that have no row.
ScanAlone ==
    ~overlap =>
        /\ \A v, w \in Requests : call[v].op = "scan" /\ call[w].op = "scan" => v = w
        /\ \A w \in Requests : call[w].pc = "insert" => RowsOf(call[w].tab) = {}

\* In every row flag and details agree: what ManagementKept amounts to.
DetailsIffManaged == \A n \in Rows : DetailsAgree(n)

\* The inductive invariant.
TablesInv ==
    /\ TablesTypeOK
    /\ call = [w \in Requests |-> call[w]]
    /\ \A w \in Requests : CallOK(call[w])
    /\ ScanAlone
    /\ TableListedOnce
    /\ DetailsIffManaged
    /\ DetailsOwn

-----------------------------------------------------------------------------
(* Lemmas about the shape of steps *)

Smaller == {p \in Nat \X Nat : p[1] < p[2]}

\* First takes one of the rows that match, if there are any.
LEMMA LowestIs ==
  ASSUME NEW ids \in SUBSET TableIds, ids # {}
  PROVE  Lowest(ids) \in ids
<1>1. IsWellFoundedOn(Smaller, Nat)
  <2>1. Smaller = OpToRel(<, Nat)
    BY Zenon DEF OpToRel, Smaller
  <2> QED BY <2>1, NatLessThanWellFounded
<1>2. ids \subseteq Nat
  BY TablesAssumption
<1>3. PICK n \in ids : \A m \in ids : <<m, n>> \notin Smaller
  BY <1>1, <1>2, WFMin
<1>4. ASSUME NEW m \in ids PROVE n <= m
  <2>1. m \in Nat /\ n \in Nat /\ ~ (m < n)
    BY <1>2, <1>3 DEF Smaller
  <2> QED BY <2>1
<1> QED BY <1>4 DEF Lowest

\* Rows are never deleted and keep their table, so what a request knows of them
\* stays true.
LEMMA CallKept ==
  ASSUME NEW c, CallOK(c),
         Rows \subseteq Rows', \A n \in Rows : table'[n].tab = table[n].tab
  PROVE  CallOK(c)'
  BY DEF CallOK, ManagePCs

LEMMA IdleOK == CallOK(Idle)
  BY DEF CallOK, Idle, Fields, Ops, ScanPCs, ManagePCs

\* A step of a request that changes no row.
LEMMA CallStep ==
  ASSUME TablesInv, NEW w \in Requests, NEW c, Set(w, c), CallOK(c),
         UNCHANGED <<world, table, overlap>>, calls' \in Nat,
         c.op = "scan" => call[w].op = "scan" \/ overlap
                          \/ \A v \in Requests : call[v].op # "scan",
         c.pc = "insert" => RowsOf(c.tab) = {} \/ overlap
  PROVE  TablesInv'
<1>1. /\ call' = [call EXCEPT ![w] = c] /\ call'[w] = c
      /\ \A v \in Requests : v # w => call'[v] = call[v]
  BY DEF Set, TablesInv
<1>2. /\ UNCHANGED <<source, typed, changes, table, overlap>>
      /\ Rows' = Rows /\ \A t : RowsOf(t)' = RowsOf(t)
  BY DEF world, Rows, RowsOf
<1>3. TablesTypeOK'
  BY <1>2 DEF TablesInv, TablesTypeOK
<1>4. call' = [v \in Requests |-> call'[v]]
  BY <1>1 DEF TablesInv
<1>5. \A v \in Requests : CallOK(call[v])'
  <2> SUFFICES ASSUME NEW v \in Requests, NEW d, d = call'[v] PROVE CallOK(d)'
    BY DEF CallOK
  <2>1. CallOK(d)
    BY <1>1 DEF TablesInv
  <2> QED BY <2>1, <1>2, CallKept
<1>6. ScanAlone'
  BY <1>1, <1>2 DEF TablesInv, ScanAlone
<1>7. TableListedOnce' /\ DetailsIffManaged' /\ DetailsOwn'
  BY <1>2 DEF TablesInv, TableListedOnce, DetailsIffManaged, DetailsAgree, DetailsOwn
<1> QED BY <1>3, <1>4, <1>5, <1>6, <1>7 DEF TablesInv

LEMMA AppendOf ==
  ASSUME NEW S, NEW s \in Seq(S), NEW x \in S
  PROVE  /\ Append(s, x) \in Seq(S) /\ Len(Append(s, x)) = Len(s) + 1
         /\ Append(s, x)[Len(s) + 1] = x
         /\ \A i \in 1 .. Len(s) : Append(s, x)[i] = s[i]
  OBVIOUS

\* The requests after a step of request w that changes row n, which keeps its
\* table or is new.
LEMMA CallsAfterRowStep ==
  ASSUME TablesInv, NEW w \in Requests, NEW c, Set(w, c),
         Rows \subseteq Rows', \A n \in Rows : table'[n].tab = table[n].tab,
         CallOK(c)'
  PROVE  /\ call' = [v \in Requests |-> call'[v]]
         /\ \A v \in Requests : CallOK(call[v])'
<1>1. /\ call' = [call EXCEPT ![w] = c] /\ call'[w] = c
      /\ \A v \in Requests : v # w => call'[v] = call[v]
  BY DEF Set, TablesInv
<1>2. call' = [v \in Requests |-> call'[v]]
  BY <1>1 DEF TablesInv
<1>3. ASSUME NEW v \in Requests, v # w PROVE CallOK(call[v])'
  <2> SUFFICES ASSUME NEW d, d = call'[v] PROVE CallOK(d)'
    BY DEF CallOK
  <2>1. CallOK(d)
    BY <1>1, <1>3 DEF TablesInv
  <2> QED BY <2>1, CallKept
<1>4. CallOK(call[w])'
  BY <1>1 DEF CallOK
<1> QED BY <1>2, <1>3, <1>4

-----------------------------------------------------------------------------
(* Requests begin and end *)

LEMMA FinishInv ==
  ASSUME TablesInv, NEW w \in Requests, Finish(w), UNCHANGED <<world, table, overlap>>,
         calls' \in Nat
  PROVE  TablesInv'
  BY IdleOK, CallStep DEF Finish, Idle

LEMMA BeginManageInv ==
  ASSUME TablesInv, NEW w \in Requests, BeginManage(w) PROVE TablesInv'
<1>1. PICK n \in Rows : Begin(w, [Idle EXCEPT !.op = "manage", !.pc = "fetch", !.id = n])
  BY DEF BeginManage
<1> DEFINE c == [Idle EXCEPT !.op = "manage", !.pc = "fetch", !.id = n]
<1>a. /\ c.op = "manage" /\ c.pc = "fetch" /\ c.id = n
      /\ DOMAIN c = Fields
  BY DEF Idle, Fields
<1> HIDE DEF c
<1>2. CallOK(c)
  BY <1>a DEF CallOK, Ops, ScanPCs, ManagePCs
<1> USE DEF c
<1>3. Set(w, c) /\ calls' \in Nat
  BY <1>1 DEF Begin, TablesInv, TablesTypeOK
<1>4. UNCHANGED <<world, table, overlap>>
  BY DEF BeginManage
<1> HIDE DEF c
<1> QED BY <1>a, <1>2, <1>3, <1>4, CallStep

\* Two scans at once are noted in overlap.
LEMMA BeginScanInv ==
  ASSUME TablesInv, NEW w \in Requests, BeginScan(w) PROVE TablesInv'
<1> DEFINE c == [Idle EXCEPT !.op = "scan", !.pc = "fetch"]
<1>a. /\ c.op = "scan" /\ c.pc = "fetch" /\ c.todo = {}
      /\ DOMAIN c = Fields
  BY DEF Idle, Fields
<1> HIDE DEF c
<1>1. CallOK(c) /\ c.op = "scan" /\ c.pc = "fetch"
  BY <1>a DEF CallOK, Ops, ScanPCs, ManagePCs
<1> USE DEF c
<1>2. /\ Set(w, c) /\ calls' \in Nat /\ call[w].pc = "idle"
      /\ overlap' = (overlap \/ \E v \in Requests : call[v].op = "scan")
      /\ UNCHANGED <<source, typed, changes, table>>
  BY DEF BeginScan, Begin, TablesInv, TablesTypeOK, world
<1> HIDE DEF c
<1>3. /\ call'[w] = c /\ \A v \in Requests : v # w => call'[v] = call[v]
      /\ Rows' = Rows /\ \A t : RowsOf(t)' = RowsOf(t)
  BY <1>2 DEF Set, TablesInv, Rows, RowsOf
<1>4. CallOK(c)'
  BY <1>1, <1>2, <1>3, CallKept
<1>5. call' = [v \in Requests |-> call'[v]] /\ \A v \in Requests : CallOK(call[v])'
  BY <1>2, <1>3, <1>4, CallsAfterRowStep
<1>6. TablesTypeOK'
  BY <1>2 DEF TablesInv, TablesTypeOK
<1>7. ScanAlone'
  BY <1>1, <1>2, <1>3 DEF TablesInv, ScanAlone
<1>8. TableListedOnce' /\ DetailsIffManaged' /\ DetailsOwn'
  BY <1>2, <1>3 DEF TablesInv, TableListedOnce, DetailsIffManaged, DetailsAgree, DetailsOwn
<1> QED BY <1>5, <1>6, <1>7, <1>8 DEF TablesInv

LEMMA FetchInv ==
  ASSUME TablesInv, NEW w \in Requests, Fetch(w) PROVE TablesInv'
<1>1. CallOK(call[w]) /\ call[w].pc = "fetch" /\ UNCHANGED <<world, table, calls, overlap>>
  BY DEF Fetch, TablesInv
<1>2. calls' \in Nat
  BY <1>1 DEF TablesInv, TablesTypeOK
<1>3. CASE Finish(w)
  BY <1>1, <1>2, <1>3, FinishInv
<1>4. CASE Set(w, [call[w] EXCEPT !.pc = AfterFetch(call[w].op)])
  <2> DEFINE c == [call[w] EXCEPT !.pc = AfterFetch(call[w].op)]
  <2>1. /\ c.op = call[w].op /\ c.pc = AfterFetch(c.op) /\ c.todo = call[w].todo
        /\ c.id = call[w].id
        /\ DOMAIN c = Fields
    BY <1>1 DEF CallOK
  <2> HIDE DEF c
  <2>2. CallOK(c) /\ c.pc # "insert"
    BY <1>1, <2>1 DEF CallOK, Ops, ScanPCs, ManagePCs, AfterFetch
  <2> QED BY <1>1, <1>2, <1>4, <2>1, <2>2, CallStep DEF c
<1> QED BY <1>3, <1>4 DEF Fetch

-----------------------------------------------------------------------------
(* Statements that change no row *)

LEMMA ListTablesInv ==
  ASSUME TablesInv, NEW w \in Requests, ListTables(w) PROVE TablesInv'
<1> DEFINE c == [call[w] EXCEPT !.pc = "look",
                      !.todo = {Answer(t) : t \in {u \in Tables : source[u] # 0}}]
<1>1. /\ CallOK(call[w]) /\ call[w].pc = "list" /\ Set(w, c)
      /\ UNCHANGED <<world, table, overlap>> /\ calls' \in Nat
  BY DEF ListTables, TablesInv, TablesTypeOK
<1>a. \A t \in Tables : Answer(t) \in Answers
  BY DEF Answer, Answers, TablesInv, TablesTypeOK
<1>2. /\ c.op = call[w].op /\ c.id = call[w].id /\ c.pc = "look" /\ c.todo \subseteq Answers
      /\ DOMAIN c = Fields
  BY <1>1, <1>a DEF CallOK, Fields
<1> HIDE DEF c
<1>3. CallOK(c)
  BY <1>1, <1>2 DEF CallOK, ScanPCs, ManagePCs
<1> QED BY <1>1, <1>2, <1>3, CallStep

\* A scan inserts a table after it found no row of it.
LEMMA LookUpInv ==
  ASSUME TablesInv, NEW w \in Requests, LookUp(w) PROVE TablesInv'
<1>1. /\ CallOK(call[w]) /\ call[w].pc = "look"
      /\ UNCHANGED <<world, table, overlap>> /\ calls' \in Nat
  BY DEF LookUp, TablesInv, TablesTypeOK
<1>2. CASE Finish(w)
  BY <1>1, <1>2, FinishInv
<1>3. ASSUME NEW a \in call[w].todo,
             LET d == [call[w] EXCEPT !.todo = @ \ {a}, !.tab = a.tab, !.got = <<a>>]
             IN  IF RowsOf(a.tab) = {} THEN Set(w, [d EXCEPT !.pc = "insert"])
                 ELSE Set(w, [d EXCEPT !.pc = "update", !.id = Lowest(RowsOf(a.tab))])
      PROVE  TablesInv'
  <2>0. a \in Answers
    BY <1>1 DEF CallOK, ScanPCs
  <2> DEFINE d == [call[w] EXCEPT !.todo = @ \ {a}, !.tab = a.tab, !.got = <<a>>]
             i == [d EXCEPT !.pc = "insert"]
             u == [d EXCEPT !.pc = "update", !.id = Lowest(RowsOf(a.tab))]
  <2>1. CASE RowsOf(a.tab) = {}
    <3>1. /\ i.op = call[w].op /\ i.pc = "insert" /\ i.tab = a.tab /\ i.todo = call[w].todo \ {a}
          /\ i.got = <<a>>
          /\ DOMAIN i = Fields
      BY <1>1 DEF CallOK, Fields
    <3>2. Set(w, i)
      BY <1>3, <2>1
    <3> HIDE DEF i
    <3>3. CallOK(i)
      BY <1>1, <2>0, <3>1 DEF CallOK, ScanPCs, ManagePCs
    <3> QED BY <1>1, <2>1, <3>1, <3>2, <3>3, CallStep
  <2>2. CASE RowsOf(a.tab) # {}
    <3>0. Lowest(RowsOf(a.tab)) \in Rows
      BY <2>2, LowestIs DEF RowsOf, Rows
    <3>1. /\ u.op = call[w].op /\ u.pc = "update" /\ u.tab = a.tab /\ u.todo = call[w].todo \ {a}
          /\ u.got = <<a>> /\ u.id = Lowest(RowsOf(a.tab))
          /\ DOMAIN u = Fields
      BY <1>1 DEF CallOK, Fields
    <3>2. Set(w, u)
      BY <1>3, <2>2
    <3> HIDE DEF u
    <3>3. CallOK(u)
      BY <1>1, <2>0, <3>0, <3>1 DEF CallOK, ScanPCs, ManagePCs
    <3> QED BY <1>1, <3>1, <3>2, <3>3, CallStep
  <2> QED BY <2>1, <2>2
<1> QED BY <1>2, <1>3 DEF LookUp

LEMMA ReadRowInv ==
  ASSUME TablesInv, NEW w \in Requests, ReadRow(w) PROVE TablesInv'
<1> DEFINE c == [call[w] EXCEPT !.pc = "columns", !.tab = table[call[w].id].tab]
<1>1. /\ CallOK(call[w]) /\ call[w].pc = "row" /\ Set(w, c)
      /\ UNCHANGED <<world, table, overlap>> /\ calls' \in Nat
  BY DEF ReadRow, TablesInv, TablesTypeOK
<1>2. /\ c.op = call[w].op /\ c.id = call[w].id /\ c.pc = "columns" /\ c.tab = table[c.id].tab
      /\ DOMAIN c = Fields
  BY <1>1 DEF CallOK, Fields
<1> HIDE DEF c
<1>3. CallOK(c)
  BY <1>1, <1>2 DEF CallOK, ScanPCs, ManagePCs
<1> QED BY <1>1, <1>2, <1>3, CallStep

\* The table that a request to manage works on, and what answers about it.
LEMMA AnswersOf ==
  ASSUME TablesInv, NEW w \in Requests, call[w].pc \in ManagePCs \ {"row"}
  PROVE  /\ call[w].tab \in Tables /\ Folded[call[w].tab] \in Tables
         /\ Answer(call[w].tab) \in Of(call[w].tab)
         /\ Answer(Folded[call[w].tab]) \in Of(Folded[call[w].tab])
<1>1. call[w].id \in Rows /\ call[w].tab = table[call[w].id].tab
  BY DEF TablesInv, CallOK
<1>2. table[call[w].id] \in TableRows
  BY <1>1 DEF TablesInv, TablesTypeOK, Rows
<1>3. call[w].tab \in Tables /\ Folded[call[w].tab] \in Tables
  BY <1>1, <1>2, TablesAssumption DEF TableRows
<1> QED BY <1>3 DEF Answer, Of, Answers, TablesInv, TablesTypeOK

LEMMA ReadColumnsInv ==
  ASSUME TablesInv, NEW w \in Requests, ReadColumns(w) PROVE TablesInv'
<1> DEFINE c == [call[w] EXCEPT !.pc = "count", !.got = <<Answer(call[w].tab)>>]
<1>1. /\ CallOK(call[w]) /\ call[w].pc = "columns" /\ Set(w, c)
      /\ UNCHANGED <<world, table, overlap>> /\ calls' \in Nat
  BY DEF ReadColumns, TablesInv, TablesTypeOK
<1>2. Answer(call[w].tab) \in Of(call[w].tab)
  BY <1>1, AnswersOf DEF ManagePCs
<1>3. /\ c.op = call[w].op /\ c.pc = "count" /\ c.got = <<Answer(c.tab)>>
      /\ c.tab = call[w].tab /\ c.id = call[w].id /\ c.todo = call[w].todo
      /\ DOMAIN c = Fields
  BY <1>1 DEF CallOK, Fields
<1> HIDE DEF c
<1>a. c.got \in Seq(Answers) /\ Len(c.got) = 1 /\ c.got[1] = Answer(c.tab)
  BY <1>2, <1>3 DEF Of
<1>4. CallOK(c)
  BY <1>1, <1>2, <1>3, <1>a DEF CallOK, ScanPCs, ManagePCs
<1> QED BY <1>1, <1>3, <1>4, CallStep

\* Both unquoted queries: they add an answer about the table that the name means.
LEMMA UnquotedInv ==
  ASSUME TablesInv, NEW w \in Requests,
         CountRows(w) \/ ReadSample(w)
  PROVE  TablesInv'
<1>1. /\ CallOK(call[w]) /\ call[w].pc \in {"count", "sample"}
      /\ UNCHANGED <<world, table, overlap>> /\ calls' \in Nat
  BY DEF CountRows, ReadSample, TablesInv, TablesTypeOK
<1>2. CASE Finish(w)
  BY <1>1, <1>2, FinishInv
<1> DEFINE t == Folded[call[w].tab]
<1>3. Answer(t) \in Of(t)
  BY <1>1, AnswersOf DEF ManagePCs
<1>4. CASE call[w].pc = "count" /\ Set(w, [call[w] EXCEPT !.pc = "sample", !.got = Append(@, Answer(t))])
  <2> DEFINE c == [call[w] EXCEPT !.pc = "sample", !.got = Append(@, Answer(t))]
  <2>1. /\ call[w].got \in Seq(Answers) /\ Len(call[w].got) = 1
        /\ call[w].got[1] \in Of(call[w].tab)
    BY <1>1, <1>4 DEF CallOK
  <2>2. LET g == Append(call[w].got, Answer(t))
        IN  g \in Seq(Answers) /\ Len(g) = 2 /\ g[1] = call[w].got[1] /\ g[2] = Answer(t)
    BY <1>3, <2>1, AppendOf DEF Of
  <2>3. /\ c.op = call[w].op /\ c.pc = "sample" /\ c.got = Append(call[w].got, Answer(t))
        /\ c.tab = call[w].tab /\ c.id = call[w].id /\ c.todo = call[w].todo
        /\ DOMAIN c = Fields
    BY <1>1 DEF CallOK, Fields
  <2>4. Set(w, c)
    BY <1>4
  <2> HIDE DEF c
  <2>5. CallOK(c)
    BY <1>1, <1>3, <1>4, <2>1, <2>2, <2>3 DEF CallOK, ScanPCs, ManagePCs
  <2> QED BY <1>1, <2>3, <2>4, <2>5, CallStep
<1>5. CASE call[w].pc = "sample" /\ Set(w, [call[w] EXCEPT !.pc = "mark", !.got = Append(@, Answer(t))])
  <2> DEFINE c == [call[w] EXCEPT !.pc = "mark", !.got = Append(@, Answer(t))]
  <2>1. /\ call[w].got \in Seq(Answers) /\ Len(call[w].got) = 2
        /\ call[w].got[1] \in Of(call[w].tab) /\ call[w].got[2] \in Of(t)
    BY <1>1, <1>5 DEF CallOK
  <2>2. LET g == Append(call[w].got, Answer(t))
        IN  /\ g \in Seq(Answers) /\ Len(g) = 3 /\ g[1] = call[w].got[1]
            /\ g[2] = call[w].got[2] /\ g[3] = Answer(t)
    <3> DEFINE s == call[w].got
               x == Answer(t)
    <3>1. s \in Seq(Answers) /\ x \in Answers
      BY <1>3, <2>1 DEF Of
    <3>2. Len(s) = 2 /\ Len(s) + 1 = 3
      BY <2>1
    <3> HIDE DEF s, x
    <3>3. /\ Append(s, x) \in Seq(Answers) /\ Len(Append(s, x)) = Len(s) + 1
          /\ Append(s, x)[Len(s) + 1] = x
          /\ \A i \in 1 .. Len(s) : Append(s, x)[i] = s[i]
      BY <3>1, AppendOf
    <3>4. /\ Append(s, x) \in Seq(Answers) /\ Len(Append(s, x)) = 3
          /\ Append(s, x)[3] = x
          /\ \A i \in 1 .. 2 : Append(s, x)[i] = s[i]
      BY ONLY <3>2, <3>3, Zenon
    <3> QED BY <3>4 DEF s, x
  <2>3. /\ c.op = call[w].op /\ c.pc = "mark" /\ c.got = Append(call[w].got, Answer(t))
        /\ c.tab = call[w].tab /\ c.id = call[w].id /\ c.todo = call[w].todo
        /\ DOMAIN c = Fields
    BY <1>1 DEF CallOK, Fields
  <2>4. Set(w, c)
    BY <1>5
  <2> HIDE DEF c
  <2>5. CallOK(c)
    BY <1>1, <1>3, <1>5, <2>1, <2>2, <2>3 DEF CallOK, ScanPCs, ManagePCs
  <2> QED BY <1>1, <2>3, <2>4, <2>5, CallStep
<1> QED BY <1>1, <1>2, <1>4, <1>5 DEF CountRows, ReadSample

-----------------------------------------------------------------------------
(* Statements that change rows *)

\* The new row is the first one of its table unless scans overlap.
LEMMA InsertRowInv ==
  ASSUME TablesInv, NEW w \in Requests, InsertRow(w) PROVE TablesInv'
<1>c. PICK c : c = [call[w] EXCEPT !.pc = "look"]
  OBVIOUS
<1> DEFINE r == NewRow(call[w].got[1])
<1>1. /\ CallOK(call[w]) /\ call[w].pc = "insert" /\ Set(w, c)
      /\ UNCHANGED <<source, typed, changes, calls, overlap>>
  BY <1>c DEF InsertRow, TablesInv, world
<1>2. PICK n \in TableIds \ Rows : table' = [table EXCEPT ![n] = r]
  BY DEF InsertRow
<1>3. call[w].got[1] \in Answers /\ call[w].got[1].tab = call[w].tab /\ call[w].op = "scan"
  BY <1>1 DEF CallOK, ScanPCs
<1>4. /\ r \in TableRows /\ r # None /\ r.tab = call[w].tab
      /\ ~r.managed /\ r.columns = None /\ r.sample = None
  <2>1. /\ r \in TableRows /\ r.tab = call[w].tab
        /\ r.managed = FALSE /\ r.columns = None /\ r.sample = None
    BY <1>3 DEF TableRows, NewRow, Answers
  <2> HIDE DEF r
  <2> QED BY <2>1, TablesAssumption
<1> HIDE DEF r
<1>5. /\ Rows' = Rows \cup {n} /\ n \notin Rows /\ table'[n] = r
      /\ \A m \in Rows : table'[m] = table[m]
  BY <1>2, <1>4 DEF TablesInv, TablesTypeOK, Rows
<1>6. TablesTypeOK'
  BY <1>1, <1>2, <1>4 DEF TablesInv, TablesTypeOK
<1>a. c.op = "scan" /\ c.pc = "look" /\ c.todo = call[w].todo /\ DOMAIN c = Fields
  BY <1>c, <1>1, <1>3 DEF CallOK, Fields
<1>7. CallOK(c) /\ c.op = "scan" /\ c.pc = "look"
  BY <1>1, <1>a DEF CallOK, ScanPCs, ManagePCs
<1>8. CallOK(c)'
  BY <1>5, <1>7, CallKept
<1>9. call' = [v \in Requests |-> call'[v]] /\ \A v \in Requests : CallOK(call[v])'
  BY <1>1, <1>5, <1>8, CallsAfterRowStep
<1>10. ScanAlone'
  <2> SUFFICES ASSUME ~overlap PROVE ScanAlone'
    BY <1>1 DEF ScanAlone
  <2>1. call'[w] = c /\ \A v \in Requests : v # w => call'[v] = call[v]
    BY <1>1 DEF Set, TablesInv
  <2>2. ASSUME NEW v \in Requests, v # w PROVE call'[v].pc # "insert" /\ call'[v].op # "scan"
    <3>1. call[v].op # "scan"
      BY <1>3, <2>2 DEF TablesInv, ScanAlone
    <3>2. CallOK(call[v])
      BY DEF TablesInv
    <3> QED BY <2>1, <2>2, <3>1, <3>2 DEF CallOK, ScanPCs
  <2> QED BY <1>7, <2>1, <2>2 DEF ScanAlone
<1>11. TableListedOnce'
  <2> SUFFICES ASSUME ~overlap, NEW m \in Rows', NEW p \in Rows', table'[m].tab = table'[p].tab
               PROVE  m = p
    BY <1>1 DEF TableListedOnce
  <2>1. \A q \in Rows : table[q].tab # call[w].tab
    BY <1>1 DEF TablesInv, ScanAlone, RowsOf
  <2> QED BY <1>4, <1>5, <2>1 DEF TablesInv, TableListedOnce
<1>12. DetailsIffManaged' /\ DetailsOwn'
  BY <1>4, <1>5 DEF TablesInv, DetailsIffManaged, DetailsAgree, DetailsOwn
<1> QED BY <1>6, <1>9, <1>10, <1>11, <1>12 DEF TablesInv

\* A step of request w that rewrites row n, which keeps its table.
LEMMA RowStep ==
  ASSUME TablesInv, NEW w \in Requests, NEW c, Set(w, c), CallOK(c), calls' \in Nat,
         c.pc # "insert", c.op = "scan" => call[w].op = "scan",
         UNCHANGED <<source, typed, changes, overlap>>,
         NEW n \in Rows, NEW r \in TableRows, table' = [table EXCEPT ![n] = r],
         r.tab = table[n].tab,
         r.managed <=> r.columns # None, r.managed <=> r.sample # None,
         r.managed => r.count # None,
         r.managed => /\ r.columns.tab = r.tab
                      /\ Folded[r.tab] = r.tab => r.count.tab = r.tab /\ r.sample.tab = r.tab
  PROVE  TablesInv'
<1>1. r # None
  BY TablesAssumption
<1>2. /\ Rows' = Rows /\ table'[n] = r /\ \A m \in Rows : m # n => table'[m] = table[m]
  BY <1>1 DEF TablesInv, TablesTypeOK, Rows
<1>3. \A m \in Rows : table'[m].tab = table[m].tab
  BY <1>2
<1>4. \A t : RowsOf(t)' = RowsOf(t)
  BY <1>2, <1>3 DEF RowsOf
<1>5. TablesTypeOK'
  BY DEF TablesInv, TablesTypeOK
<1>6. CallOK(c)'
  BY <1>2, <1>3, CallKept
<1>7. call' = [v \in Requests |-> call'[v]] /\ \A v \in Requests : CallOK(call[v])'
  BY <1>2, <1>3, <1>6, CallsAfterRowStep
<1>8. ScanAlone'
  <2>1. call'[w] = c /\ \A v \in Requests : v # w => call'[v] = call[v]
    BY DEF Set, TablesInv
  <2> QED BY <1>4, <2>1 DEF TablesInv, ScanAlone
<1>9. TableListedOnce'
  BY <1>2, <1>3 DEF TablesInv, TableListedOnce
<1>10. DetailsIffManaged' /\ DetailsOwn'
  BY <1>2 DEF TablesInv, DetailsIffManaged, DetailsAgree, DetailsOwn
<1> QED BY <1>5, <1>7, <1>8, <1>9, <1>10 DEF TablesInv

LEMMA UnmanageInv ==
  ASSUME TablesInv, NEW w \in Requests, Unmanage(w) PROVE TablesInv'
<1>1. PICK n \in Rows :
        /\ Begin(w, Idle)
        /\ table' = [table EXCEPT ![n].managed = FALSE, ![n].columns = None, ![n].sample = None]
  BY DEF Unmanage
<1> DEFINE r == [table[n] EXCEPT !.managed = FALSE, !.columns = None, !.sample = None]
<1>2. table[n] \in TableRows
  BY DEF TablesInv, TablesTypeOK, Rows
<1>3. r \in TableRows /\ r.tab = table[n].tab /\ ~r.managed /\ r.columns = None /\ r.sample = None
      /\ r.managed = FALSE
  BY <1>2 DEF TableRows
<1>4. table' = [table EXCEPT ![n] = r]
  BY <1>1 DEF TablesInv, TablesTypeOK, Rows
<1> HIDE DEF r
<1>5. Set(w, Idle) /\ calls' \in Nat /\ UNCHANGED <<source, typed, changes, overlap>>
  BY <1>1 DEF Begin, Unmanage, world, TablesInv, TablesTypeOK
<1>6. Idle.op = "none" /\ Idle.pc = "idle"
  BY DEF Idle
<1> QED BY <1>3, <1>4, <1>5, <1>6, IdleOK, RowStep

LEMMA UpdateRowInv ==
  ASSUME TablesInv, NEW w \in Requests, UpdateRow(w) PROVE TablesInv'
<1> DEFINE n == call[w].id
           r == [table[n] EXCEPT !.listed = call[w].got[1].version]
           c == [call[w] EXCEPT !.pc = "look"]
<1>1. /\ CallOK(call[w]) /\ call[w].pc = "update" /\ Set(w, c) /\ calls' \in Nat
      /\ table' = [table EXCEPT ![n] = r]
      /\ UNCHANGED <<source, typed, changes, overlap>>
  BY DEF UpdateRow, TablesInv, TablesTypeOK, world
<1>2. n \in Rows /\ call[w].got[1] \in Answers
  BY <1>1 DEF CallOK
<1>3. table[n] \in TableRows
  BY <1>2 DEF TablesInv, TablesTypeOK, Rows
<1>4. /\ r \in TableRows /\ r.tab = table[n].tab /\ r.managed = table[n].managed
      /\ r.columns = table[n].columns /\ r.count = table[n].count /\ r.sample = table[n].sample
  BY <1>2, <1>3 DEF TableRows, Answers
<1>5. /\ c.op = call[w].op /\ c.pc = "look" /\ c.todo = call[w].todo /\ c.id = call[w].id
      /\ DOMAIN c = Fields
  BY <1>1 DEF CallOK, Fields
<1> HIDE DEF r, c
<1>6. CallOK(c)
  BY <1>1, <1>5 DEF CallOK, ScanPCs, ManagePCs
<1>7. /\ DetailsAgree(n)
      /\ table[n].managed =>
            /\ table[n].columns.tab = table[n].tab
            /\ Folded[table[n].tab] = table[n].tab =>
                  table[n].count.tab = table[n].tab /\ table[n].sample.tab = table[n].tab
  BY <1>2 DEF TablesInv, DetailsIffManaged, DetailsOwn
<1>8. /\ r.managed <=> r.columns # None
      /\ r.managed <=> r.sample # None
      /\ r.managed => r.count # None
      /\ r.managed => /\ r.columns.tab = r.tab
                      /\ Folded[r.tab] = r.tab => r.count.tab = r.tab /\ r.sample.tab = r.tab
  BY <1>4, <1>7 DEF DetailsAgree
<1>9. c.pc # "insert" /\ (c.op = "scan" => call[w].op = "scan")
  BY <1>5
<1> QED BY <1>1, <1>2, <1>4, <1>6, <1>8, <1>9, RowStep

LEMMA MarkManagedInv ==
  ASSUME TablesInv, NEW w \in Requests, MarkManaged(w) PROVE TablesInv'
<1> DEFINE n == call[w].id
           t == call[w].tab
<1>1. CallOK(call[w]) /\ call[w].pc = "mark"
  BY DEF MarkManaged, TablesInv
<1> DEFINE a1 == call[w].got[1]
           a2 == call[w].got[2]
           a3 == call[w].got[3]
<1>2. a1 \in Of(t) /\ a2 \in Of(Folded[t]) /\ a3 \in Of(Folded[t])
  BY <1>1 DEF CallOK
<1>3. n \in Rows /\ t = table[n].tab
  BY <1>1 DEF CallOK, ManagePCs
<1>4. table[n] \in TableRows
  BY <1>3 DEF TablesInv, TablesTypeOK, Rows
<1> DEFINE r == [table[n] EXCEPT !.managed = TRUE, !.columns = a1, !.count = a2, !.sample = a3]
<1>5. /\ r \in TableRows /\ r.tab = t /\ r.managed /\ r.columns = a1 /\ r.count = a2
      /\ r.sample = a3 /\ a1.tab = t /\ a2.tab = Folded[t] /\ a3.tab = Folded[t]
      /\ a1 # None /\ a2 # None /\ a3 # None
  BY <1>2, <1>3, <1>4, TablesAssumption DEF TableRows, Of
<1>6. table' = [table EXCEPT ![n] = r]
  BY DEF MarkManaged
<1> HIDE DEF r
<1>7. Set(w, Idle) /\ calls' \in Nat /\ UNCHANGED <<source, typed, changes, overlap>>
  BY DEF MarkManaged, Finish, world, TablesInv, TablesTypeOK
<1>8. /\ r.managed <=> r.columns # None
      /\ r.managed <=> r.sample # None
      /\ r.managed => r.count # None
      /\ r.managed => /\ r.columns.tab = r.tab
                      /\ Folded[r.tab] = r.tab => r.count.tab = r.tab /\ r.sample.tab = r.tab
  BY <1>5
<1>9. Idle.op = "none" /\ Idle.pc = "idle"
  BY DEF Idle
<1> QED BY <1>3, <1>5, <1>6, <1>7, <1>8, <1>9, IdleOK, RowStep

-----------------------------------------------------------------------------
(* Steps that end requests or change the resource *)

LEMMA CallFailsInv ==
  ASSUME TablesInv, NEW w \in Requests, CallFails(w) PROVE TablesInv'
<1>1. Finish(w) /\ UNCHANGED <<world, table, overlap>> /\ calls' \in Nat
  BY DEF CallFails, TablesInv, TablesTypeOK
<1> QED BY <1>1, FinishInv

LEMMA ManagerStopInv == TablesInv /\ ManagerStop => TablesInv'
<1> SUFFICES ASSUME TablesInv, ManagerStop PROVE TablesInv'
  OBVIOUS
<1>1. /\ call' = [w \in Requests |-> Idle]
      /\ UNCHANGED <<source, typed, changes, table, calls, overlap>>
  BY DEF ManagerStop, world
<1>2. Rows' = Rows
  BY <1>1 DEF Rows
<1>3. \A w \in Requests : CallOK(call[w])'
  <2>1. CallOK(Idle)'
    BY IdleOK, <1>1, <1>2, CallKept
  <2> QED BY <1>1, <2>1 DEF CallOK
<1>4. ScanAlone'
  BY <1>1 DEF ScanAlone, Idle
<1> QED BY <1>1, <1>2, <1>3, <1>4 DEF TablesInv, TablesTypeOK, TableListedOnce,
           DetailsIffManaged, DetailsAgree, DetailsOwn

\* What keeps rows and requests keeps the invariant.
LEMMA TablesUntouched ==
  ASSUME TablesInv, UNCHANGED <<table, call, overlap>>,
         source' \in [Tables -> Nat], typed' \in BOOLEAN, calls' \in Nat, changes' \in Nat
  PROVE  TablesInv'
<1>1. Rows' = Rows /\ \A t : RowsOf(t)' = RowsOf(t)
  BY DEF Rows, RowsOf
<1>2. TablesTypeOK' /\ call' = [w \in Requests |-> call'[w]]
  BY DEF TablesInv, TablesTypeOK
<1>3. \A w \in Requests : CallOK(call[w])'
  BY <1>1 DEF TablesInv, CallOK
<1>4. ScanAlone' /\ TableListedOnce' /\ DetailsIffManaged' /\ DetailsOwn'
  BY <1>1 DEF TablesInv, ScanAlone, TableListedOnce, DetailsIffManaged,
     DetailsAgree, DetailsOwn
<1> QED BY <1>2, <1>3, <1>4 DEF TablesInv

LEMMA TableChangeInv == TablesInv /\ TableChange => TablesInv'
<1> SUFFICES ASSUME TablesInv, TableChange PROVE TablesInv'
  OBVIOUS
<1>1. /\ source' \in [Tables -> Nat] /\ typed' \in BOOLEAN /\ calls' \in Nat /\ changes' \in Nat
      /\ UNCHANGED <<table, call, overlap>>
  BY DEF TableChange, TablesInv, TablesTypeOK
<1> QED BY <1>1, TablesUntouched

-----------------------------------------------------------------------------
LEMMA TablesInitInv == TablesInit => TablesInv
<1> SUFFICES ASSUME TablesInit PROVE TablesInv
  OBVIOUS
<1>1. Rows = {} /\ call = [w \in Requests |-> Idle]
  BY DEF TablesInit, Rows
<1>2. TablesTypeOK
  <2>1. source \in [Tables -> Nat] /\ calls = 0 /\ changes = 0 /\ overlap = FALSE /\ typed \in BOOLEAN
    BY DEF TablesInit
  <2>2. table \in [TableIds -> TableRows \cup {None}]
    BY DEF TablesInit
  <2> QED BY <2>1, <2>2 DEF TablesTypeOK
<1>3. ScanAlone
  BY <1>1 DEF ScanAlone, Idle
<1> QED BY <1>1, <1>2, <1>3, IdleOK DEF TablesInv, TableListedOnce, DetailsIffManaged, DetailsAgree, DetailsOwn

LEMMA TablesNextInv == TablesInv /\ [TablesNext]_<<configVars, tableVars>> => TablesInv'
<1> SUFFICES ASSUME TablesInv, [TablesNext]_<<configVars, tableVars>> PROVE TablesInv'
  OBVIOUS
<1>1. CASE UNCHANGED tableVars
  BY <1>1, TablesUntouched DEF tableVars, TablesInv, TablesTypeOK
<1>2. CASE TableNext
  <2>1. ASSUME NEW w \in Requests, BeginScan(w) \/ BeginManage(w) \/ Unmanage(w) PROVE TablesInv'
    BY <2>1, BeginScanInv, BeginManageInv, UnmanageInv
  <2>2. ASSUME NEW w \in Requests, TableStep(w) PROVE TablesInv'
    BY <2>2, FetchInv, ListTablesInv, LookUpInv, InsertRowInv, UpdateRowInv, ReadRowInv,
       ReadColumnsInv, UnquotedInv, MarkManagedInv, CallFailsInv DEF TableStep
  <2> QED BY <1>2, <2>1, <2>2, TableChangeInv DEF TableNext
<1> QED BY <1>1, <1>2, ManagerStopInv DEF TablesNext, tableVars

\* A resource's tables, whatever requests overlap, fail or die with the process
\* while System and Manager start and stop.
THEOREM TablesInvariant == TablesSpec => []TablesInv
  BY TablesInitInv, TablesNextInv, PTL DEF TablesSpec

-----------------------------------------------------------------------------
(* What a step may do to the flag and the details of a row *)

\* A step of a request that manages or releases row n touches no scan.
LEMMA OthersKept ==
  ASSUME TablesInv, NEW w \in Requests, NEW c, Set(w, c), call[w].op # "scan"
  PROVE  \A v \in Requests : call[v].op = "scan" => call'[v] = call[v]
  BY DEF Set, TablesInv

LEMMA RowsUntouched == ASSUME UNCHANGED table PROVE KeepsManagement
  BY DEF KeepsManagement, Rows, Management

\* One row rewritten to r, by a request that is no scan.
LEMMA RowManaged ==
  ASSUME TablesInv, TablesInv', NEW n \in Rows, NEW r \in TableRows,
         table' = [table EXCEPT ![n] = r], r.tab = table[n].tab,
         \A v \in Requests : call[v].op = "scan" => call'[v] = call[v]
  PROVE  KeepsManagement
<1>1. r # None
  BY TablesAssumption
<1>2. Rows' = Rows /\ table'[n] = r /\ \A m \in Rows : m # n => table'[m] = table[m]
  BY <1>1 DEF TablesInv, TablesTypeOK, Rows
<1>3. ASSUME NEW m \in Rows PROVE DetailsAgree(m)'
  BY <1>2 DEF TablesInv, DetailsIffManaged
<1>4. ASSUME NEW m \in Rows PROVE table'[m] # None /\ table'[m].tab = table[m].tab
  BY <1>1, <1>2 DEF Rows
<1> QED BY <1>3, <1>4 DEF KeepsManagement

LEMMA UnmanageKeeps ==
  ASSUME TablesInv, TablesInv', NEW w \in Requests, Unmanage(w) PROVE KeepsManagement
<1>1. PICK n \in Rows :
        /\ Begin(w, Idle)
        /\ table' = [table EXCEPT ![n].managed = FALSE, ![n].columns = None, ![n].sample = None]
  BY DEF Unmanage
<1> DEFINE r == [table[n] EXCEPT !.managed = FALSE, !.columns = None, !.sample = None]
<1>2. table[n] \in TableRows
  BY DEF TablesInv, TablesTypeOK, Rows
<1>3. r \in TableRows /\ r.tab = table[n].tab
  BY <1>2 DEF TableRows
<1>4. table' = [table EXCEPT ![n] = r]
  BY <1>1 DEF TablesInv, TablesTypeOK, Rows
<1> HIDE DEF r
<1>5. Set(w, Idle) /\ call[w].pc = "idle" /\ CallOK(call[w])
  BY <1>1 DEF Begin, TablesInv
<1>6. call[w].op # "scan"
  BY <1>5 DEF CallOK
<1>7. \A v \in Requests : call[v].op = "scan" => call'[v] = call[v]
  BY <1>5, <1>6, OthersKept
<1> QED BY <1>3, <1>4, <1>7, RowManaged

LEMMA MarkManagedKeeps ==
  ASSUME TablesInv, TablesInv', NEW w \in Requests, MarkManaged(w) PROVE KeepsManagement
<1> DEFINE n == call[w].id
           r == [table[n] EXCEPT !.managed = TRUE, !.columns = call[w].got[1],
                                 !.count = call[w].got[2], !.sample = call[w].got[3]]
<1>1. CallOK(call[w]) /\ call[w].pc = "mark" /\ Set(w, Idle) /\ table' = [table EXCEPT ![n] = r]
  BY DEF MarkManaged, Finish, TablesInv
<1>2. call[w].op = "manage" /\ n \in Rows
  BY <1>1 DEF CallOK, ManagePCs
<1>3. table[n] \in TableRows
  BY <1>2 DEF TablesInv, TablesTypeOK, Rows
<1>4. /\ call[w].got[1] \in Answers /\ call[w].got[2] \in Answers
      /\ call[w].got[3] \in Answers
  BY <1>1 DEF CallOK, Of
<1>5. r \in TableRows /\ r.tab = table[n].tab
  BY <1>3, <1>4 DEF TableRows
<1> HIDE DEF r
<1>6. \A v \in Requests : call[v].op = "scan" => call'[v] = call[v]
  BY <1>1, <1>2, OthersKept
<1> QED BY <1>1, <1>2, <1>5, <1>6, RowManaged

\* The steps of a scan that write: an INSERT leaves the rows that exist alone,
\* an UPDATE changes what the listing tells.
LEMMA InsertRowKeeps ==
  ASSUME TablesInv, NEW w \in Requests, InsertRow(w) PROVE KeepsManagement
<1>1. PICK n \in TableIds \ Rows : table' = [table EXCEPT ![n] = NewRow(call[w].got[1])]
  BY DEF InsertRow
<1>2. \A m \in Rows : table'[m] = table[m] /\ table[m] # None
  BY <1>1 DEF TablesInv, TablesTypeOK, Rows
<1> QED BY <1>2 DEF KeepsManagement, Management

LEMMA UpdateRowKeeps ==
  ASSUME TablesInv, NEW w \in Requests, UpdateRow(w) PROVE KeepsManagement
<1> DEFINE n == call[w].id
           r == [table[n] EXCEPT !.listed = call[w].got[1].version]
<1>1. CallOK(call[w]) /\ call[w].pc = "update" /\ table' = [table EXCEPT ![n] = r]
  BY DEF UpdateRow, TablesInv
<1>2. n \in Rows /\ call[w].got[1] \in Answers
  BY <1>1 DEF CallOK
<1>3. table[n] \in TableRows
  BY <1>2 DEF TablesInv, TablesTypeOK, Rows
<1>4. /\ r \in TableRows /\ r.tab = table[n].tab /\ r.managed = table[n].managed
      /\ r.columns = table[n].columns /\ r.count = table[n].count /\ r.sample = table[n].sample
  BY <1>2, <1>3 DEF TableRows, Answers
<1> HIDE DEF r
<1>5. r # None
  BY <1>4, TablesAssumption
<1>6. table'[n] = r /\ \A m \in Rows : m # n => table'[m] = table[m]
  BY <1>1, <1>2 DEF TablesInv, TablesTypeOK, Rows
<1>7. ASSUME NEW m \in Rows
      PROVE  /\ table'[m] # None /\ table'[m].tab = table[m].tab
             /\ Management(m)' = Management(m)
  BY <1>4, <1>5, <1>6 DEF Rows, Management
<1> QED BY <1>7 DEF KeepsManagement

\* No step of a scan changes flag or details of a row, and the others change
\* them together.
LEMMA TablesManagement ==
  ASSUME TablesInv, [TablesNext]_<<configVars, tableVars>>
  PROVE  KeepsManagement
<1>1. TablesInv'
  BY TablesNextInv
<1>2. CASE UNCHANGED table
  BY <1>2, RowsUntouched
<1>3. CASE TableNext
  <2>1. ASSUME NEW w \in Requests, TableStep(w) PROVE KeepsManagement
    <3>1. CASE InsertRow(w)
      BY <3>1, InsertRowKeeps
    <3>2. CASE UpdateRow(w)
      BY <3>2, UpdateRowKeeps
    <3>3. CASE MarkManaged(w)
      BY <1>1, <3>3, MarkManagedKeeps
    <3>4. CASE UNCHANGED table
      BY <3>4, RowsUntouched
    <3> QED BY <2>1, <3>1, <3>2, <3>3, <3>4 DEF TableStep, Fetch, ListTables, LookUp,
            ReadRow, ReadColumns, CountRows, ReadSample, CallFails
  <2>2. ASSUME NEW w \in Requests, BeginScan(w) \/ BeginManage(w) PROVE KeepsManagement
    BY <2>2, RowsUntouched DEF BeginScan, BeginManage
  <2>3. ASSUME NEW w \in Requests, Unmanage(w) PROVE KeepsManagement
    BY <1>1, <2>3, UnmanageKeeps
  <2>4. CASE TableChange
    BY <2>4, RowsUntouched DEF TableChange
  <2> QED BY <1>3, <2>1, <2>2, <2>3, <2>4 DEF TableNext
<1> QED BY <1>2, <1>3 DEF TablesNext, ManagerStop, tableVars
=============================================================================
