-------------------------- MODULE DataExplorerProofs --------------------------
(***************************************************************************)
(* Proofs about ObjectScan and DataExplorer, for any number of requests,   *)
(* buckets, keys, failures, crashes and changes of the store.              *)
(*                                                                         *)
(* ScanInv is inductive for ExplorerSpec, in which object scans overlap    *)
(* freely: the rows of meta_node are a forest (Forest), each request knows *)
(* where the nodes it holds are (Informed), and items are in place.        *)
(* Segments and IdPath are recursive over the forest: SegmentsExist and    *)
(* IdPathExists show once that they are what their definitions say.        *)
(*                                                                         *)
(* CountInv is inductive on top of it, for scans that do not overlap: the  *)
(* statistics of the active request are those of the rows it has written.  *)
(* WorkInv, while nothing has failed either: what a request has written    *)
(* and has still to write is what it has found.                            *)
(***************************************************************************)
EXTENDS DataExplorer, ObjectListingProofs, WellFoundedInduction, FiniteSetTheorems

(* Induction over the naturals and recursion over a tree *)

Less == {p \in Nat \X Nat : p[1] < p[2]}

\* A set of naturals has a least element: the form in which the proofs below do
\* induction.
LEMMA LeastElement ==
  ASSUME NEW T \in SUBSET Nat, T # {}
  PROVE  \E m \in T : \A k \in T : m <= k
<1>1. IsWellFoundedOn(Less, Nat)
  <2>1. Less = OpToRel(<, Nat)
    BY Zenon DEF OpToRel, Less
  <2> QED BY <2>1, NatLessThanWellFounded
<1>2. PICK m \in T : \A k \in T : <<k, m>> \notin Less
  BY <1>1, WFMin
<1>3. ASSUME NEW k \in T PROVE m <= k
  <2>1. k \in Nat /\ m \in Nat /\ <<k, m>> \notin Less
    BY <1>2
  <2>2. ~ (k < m)
    BY <2>1 DEF Less
  <2> QED BY <2>1, <2>2
<1> QED BY <1>3

\* Each element of D is a root or has one above it, nearer to the roots. There
\* is a function that is base at the roots and goes on by step below them.
IsTree(D, V, Roots, up, base, step, height, rank) ==
    /\ V # {} /\ Roots \in SUBSET D /\ up \in [D \ Roots -> D]
    /\ base \in [Roots -> V] /\ step \in [D \ Roots -> [V -> V]]
    /\ height \in Nat /\ rank \in [D -> 0 .. height]
    /\ \A n \in D \ Roots : rank[up[n]] < rank[n]

LEMMA TreeRecursion ==
  ASSUME NEW D, NEW V, NEW Roots, NEW up, NEW base, NEW step, NEW height, NEW rank,
         IsTree(D, V, Roots, up, base, step, height, rank)
  PROVE  \E f \in [D -> V] :
            \A n \in D : f[n] = IF n \in Roots THEN base[n] ELSE step[n][f[up[n]]]
<1> DEFINE Eq(f, n) == f[n] = IF n \in Roots THEN base[n] ELSE step[n][f[up[n]]]
           Bad == {k \in Nat : \A f \in [D -> V] : \E n \in D : rank[n] < k /\ ~Eq(f, n)}
<1> USE DEF IsTree
<1>1. Bad = {}
  <2>1. SUFFICES ASSUME Bad # {} PROVE FALSE
    OBVIOUS
  <2>2. PICK m \in Bad : \A k \in Bad : m <= k
    BY <2>1, LeastElement
  <2>3. m # 0
    <3>1. PICK some : some \in V
      OBVIOUS
    <3>3. [n \in D |-> some] \in [D -> V]
      BY <3>1
    <3>2. \A n \in D : ~(rank[n] < 0)
      OBVIOUS
    <3> QED BY <3>2, <3>3
  <2>4. m - 1 \in Nat /\ m - 1 \notin Bad
    BY <2>2, <2>3
  <2>5. PICK f \in [D -> V] : \A n \in D : rank[n] < m - 1 => Eq(f, n)
    BY <2>4
  <2> DEFINE g == [n \in D |-> IF n \in Roots THEN base[n] ELSE step[n][f[up[n]]]]
  <2>6. g \in [D -> V]
    OBVIOUS
  <2>7. ASSUME NEW n \in D, rank[n] < m PROVE Eq(g, n)
    <3>1. CASE n \in Roots
      BY <3>1
    <3>2. CASE n \notin Roots
      <4>1. up[n] \in D /\ rank[up[n]] < m - 1
        BY <2>4, <2>7, <3>2
      <4>2. g[up[n]] = f[up[n]]
        BY <2>5, <4>1
      <4> QED BY <3>2, <4>2
    <3> QED BY <3>1, <3>2
  <2> QED BY <2>6, <2>7
<1>2. PICK f \in [D -> V] : \A n \in D : rank[n] < height + 1 => Eq(f, n)
  <2>1. height + 1 \in Nat
    OBVIOUS
  <2>2. height + 1 \notin Bad
    BY <1>1, Zenon
  <2> QED BY <2>1, <2>2
<1>3. \A n \in D : rank[n] < height + 1
  OBVIOUS
<1> QED BY <1>2, <1>3
-----------------------------------------------------------------------------
(* The rows of meta_node are a forest *)

RowsTyped == node \in [NodeIds -> MetaNode \cup {None}]

\* Going from a row to its parent ends at a bucket.
Ranked ==
    \E height \in Nat : \E rank \in [NodeIds -> 0 .. height] :
        \A n \in Rows : node[n].parent # 0 => rank[node[n].parent] < rank[n]

Forest == RowsTyped /\ TreeSound /\ Ranked

\* Row n is the row of bucket b.
TopOf(n, b) == n \in Rows /\ node[n].parent = 0 /\ node[n].name = b

\* What the definitions of Segments and IdPath mean.
SegmentsDefined ==
    /\ Segments \in [NodeIds -> Seq(Names)]
    /\ \A n \in NodeIds : Segments[n] =
          IF node[n] = None THEN <<>>
          ELSE IF node[n].parent = 0 THEN <<node[n].name>>
          ELSE Append(Segments[node[n].parent], node[n].name)

IdPathDefined ==
    /\ IdPath \in [NodeIds -> SUBSET NodeIds]
    /\ \A n \in NodeIds : IdPath[n] =
          IF node[n] = None THEN {}
          ELSE IF node[n].parent = 0 THEN {n}
          ELSE IdPath[node[n].parent] \cup {n}

\* The fields of a row, and where its parent is.
LEMMA RowFields ==
  ASSUME RowsTyped, NEW n \in Rows
  PROVE  /\ n \in NodeIds /\ node[n] \in MetaNode
         /\ node[n].name \in Names /\ node[n].parent \in NodeIds \cup {0}
  BY DEF RowsTyped, Rows, MetaNode

\* Segments is what its recursive definition says.
LEMMA SegmentsExist == Forest => SegmentsDefined
<1> SUFFICES ASSUME Forest PROVE SegmentsDefined
  OBVIOUS
<1> DEFINE Root == {n \in NodeIds : node[n] = None \/ node[n].parent = 0}
           up == [n \in NodeIds \ Root |-> node[n].parent]
           base == [n \in Root |-> IF node[n] = None THEN <<>> ELSE <<node[n].name>>]
           step == [n \in NodeIds \ Root |-> [s \in Seq(Names) |-> Append(s, node[n].name)]]
<1>1. /\ <<>> \in Seq(Names) /\ Root \in SUBSET NodeIds /\ up \in [NodeIds \ Root -> NodeIds]
      /\ base \in [Root -> Seq(Names)]
      /\ step \in [NodeIds \ Root -> [Seq(Names) -> Seq(Names)]]
  BY RowFields DEF Forest, Rows
<1>2. PICK height \in Nat : \E rank \in [NodeIds -> 0 .. height] :
         \A n \in NodeIds \ Root : rank[up[n]] < rank[n]
  BY DEF Forest, Ranked, Rows
<1>3. PICK rank \in [NodeIds -> 0 .. height] :
         \A n \in NodeIds \ Root : rank[up[n]] < rank[n]
  BY <1>2
<1> HIDE DEF Root, up, base, step
<1>9. IsTree(NodeIds, Seq(Names), Root, up, base, step, height, rank)
  BY <1>1, <1>2, <1>3 DEF IsTree
<1>4. PICK f \in [NodeIds -> Seq(Names)] :
         \A n \in NodeIds : f[n] = IF n \in Root THEN base[n] ELSE step[n][f[up[n]]]
  BY <1>9, TreeRecursion
<1>5. ASSUME NEW n \in NodeIds PROVE
         f[n] = IF node[n] = None THEN <<>>
                ELSE IF node[n].parent = 0 THEN <<node[n].name>>
                ELSE Append(f[node[n].parent], node[n].name)
  <2>1. n \notin Root => up[n] = node[n].parent /\ up[n] \in NodeIds
    BY <1>1 DEF up
  <2> QED BY <1>4, <2>1 DEF Root, base, step
<1>6. f = [n \in NodeIds |->
             IF node[n] = None THEN <<>>
             ELSE IF node[n].parent = 0 THEN <<node[n].name>>
             ELSE Append(f[node[n].parent], node[n].name)]
  BY <1>5
<1>7. Segments = [n \in NodeIds |->
             IF node[n] = None THEN <<>>
             ELSE IF node[n].parent = 0 THEN <<node[n].name>>
             ELSE Append(Segments[node[n].parent], node[n].name)]
  BY <1>6, Zenon DEF Segments
<1>8. ASSUME NEW n \in NodeIds PROVE Segments[n] \in Seq(Names)
  <2> SUFFICES ASSUME Segments[n] \notin Seq(Names) PROVE FALSE
    OBVIOUS
  <2> DEFINE Bad == {m \in NodeIds : Segments[m] \notin Seq(Names)}
  <2>1. PICK m \in Bad : \A k \in Bad : rank[m] <= rank[k]
    <3>1. {rank[m] : m \in Bad} \in SUBSET Nat /\ {rank[m] : m \in Bad} # {}
      OBVIOUS
    <3>2. PICK l \in {rank[m] : m \in Bad} : \A k \in {rank[m] : m \in Bad} : l <= k
      BY <3>1, LeastElement
    <3> QED BY <3>2
  <2>2. m \notin Root
    BY <1>7, <2>1, RowFields DEF Root, Forest, Rows
  <2>3. up[m] = node[m].parent /\ up[m] \in NodeIds /\ up[m] \notin Bad
    <3>1. up[m] = node[m].parent /\ up[m] \in NodeIds
      BY <1>1, <2>2 DEF up
    <3>2. rank[up[m]] < rank[m] /\ rank[up[m]] \in Nat /\ rank[m] \in Nat
      BY <1>3, <2>2, <3>1
    <3> QED BY <2>1, <3>1, <3>2
  <2>4. node[m] # None /\ node[m].parent # 0 /\ node[m].name \in Names
    BY <2>1, <2>2, RowFields DEF Root, Forest, Rows
  <2>5. Segments[m] = Append(Segments[up[m]], node[m].name) /\ Segments[up[m]] \in Seq(Names)
    BY <1>7, <2>1, <2>3, <2>4
  <2>6. Segments[m] \in Seq(Names)
    BY <2>4, <2>5
  <2> QED BY <2>1, <2>6
<1> QED BY <1>7, <1>8 DEF SegmentsDefined

\* IdPath is what its recursive definition says.
LEMMA IdPathExists == Forest => IdPathDefined
<1> SUFFICES ASSUME Forest PROVE IdPathDefined
  OBVIOUS
<1> DEFINE Root == {n \in NodeIds : node[n] = None \/ node[n].parent = 0}
           up == [n \in NodeIds \ Root |-> node[n].parent]
           base == [n \in Root |-> IF node[n] = None THEN {} ELSE {n}]
           step == [n \in NodeIds \ Root |-> [s \in SUBSET NodeIds |-> s \cup {n}]]
<1>1. /\ {} \in SUBSET NodeIds /\ Root \in SUBSET NodeIds /\ up \in [NodeIds \ Root -> NodeIds]
      /\ base \in [Root -> SUBSET NodeIds]
      /\ step \in [NodeIds \ Root -> [SUBSET NodeIds -> SUBSET NodeIds]]
  BY RowFields DEF Forest, Rows
<1>2. PICK height \in Nat : \E rank \in [NodeIds -> 0 .. height] :
         \A n \in NodeIds \ Root : rank[up[n]] < rank[n]
  BY DEF Forest, Ranked, Rows
<1>3. PICK rank \in [NodeIds -> 0 .. height] :
         \A n \in NodeIds \ Root : rank[up[n]] < rank[n]
  BY <1>2
<1> HIDE DEF Root, up, base, step
<1>9. IsTree(NodeIds, SUBSET NodeIds, Root, up, base, step, height, rank)
  BY <1>1, <1>2, <1>3 DEF IsTree
<1>4. PICK f \in [NodeIds -> SUBSET NodeIds] :
         \A n \in NodeIds : f[n] = IF n \in Root THEN base[n] ELSE step[n][f[up[n]]]
  BY <1>9, TreeRecursion
<1>5. ASSUME NEW n \in NodeIds PROVE
         f[n] = IF node[n] = None THEN {}
                ELSE IF node[n].parent = 0 THEN {n} ELSE f[node[n].parent] \cup {n}
  <2>1. n \notin Root => up[n] = node[n].parent /\ up[n] \in NodeIds
    BY <1>1 DEF up
  <2> QED BY <1>4, <2>1 DEF Root, base, step
<1>6. f = [n \in NodeIds |->
             IF node[n] = None THEN {}
             ELSE IF node[n].parent = 0 THEN {n} ELSE f[node[n].parent] \cup {n}]
  BY <1>5
<1>7. IdPath = [n \in NodeIds |->
             IF node[n] = None THEN {}
             ELSE IF node[n].parent = 0 THEN {n} ELSE IdPath[node[n].parent] \cup {n}]
  BY <1>6, Zenon DEF IdPath
<1>8. ASSUME NEW n \in NodeIds PROVE IdPath[n] \in SUBSET NodeIds
  <2> SUFFICES ASSUME IdPath[n] \notin SUBSET NodeIds PROVE FALSE
    OBVIOUS
  <2> DEFINE Bad == {m \in NodeIds : IdPath[m] \notin SUBSET NodeIds}
  <2>1. PICK m \in Bad : \A k \in Bad : rank[m] <= rank[k]
    <3>1. {rank[m] : m \in Bad} \in SUBSET Nat /\ {rank[m] : m \in Bad} # {}
      OBVIOUS
    <3>2. PICK l \in {rank[m] : m \in Bad} : \A k \in {rank[m] : m \in Bad} : l <= k
      BY <3>1, LeastElement
    <3> QED BY <3>2
  <2>2. m \notin Root
    BY <1>7, <2>1, RowFields DEF Root, Forest, Rows
  <2>3. up[m] = node[m].parent /\ up[m] \in NodeIds /\ up[m] \notin Bad
    <3>1. up[m] = node[m].parent /\ up[m] \in NodeIds
      BY <1>1, <2>2 DEF up
    <3>2. rank[up[m]] < rank[m] /\ rank[up[m]] \in Nat /\ rank[m] \in Nat
      BY <1>3, <2>2, <3>1
    <3> QED BY <2>1, <3>1, <3>2
  <2> QED BY <1>7, <2>1, <2>2, <2>3, RowFields DEF Root, Forest, Rows
<1> QED BY <1>7, <1>8 DEF IdPathDefined

\* The same after a step.
LEMMA SegmentsExistNext == Forest' => SegmentsDefined'
  BY SegmentsExist, PTL

-----------------------------------------------------------------------------
(* Steps of the forest *)

SameShape(n) == node'[n].parent = node[n].parent /\ node'[n].name = node[n].name

\* Rows keep their place and name, new rows get ids that nobody holds, and the
\* rows of buckets stay.
TreeStep ==
    /\ \A n \in NodeIds :
          node'[n] # None => n \in FreshIds \/ (node[n] # None /\ SameShape(n))
    /\ \A n \in NodeIds : node[n] # None /\ node[n].parent = 0 => node'[n] # None

\* Nobody holds a fresh id.
LEMMA FreshFacts ==
  ASSUME NEW n \in FreshIds
  PROVE  /\ n \in NodeIds /\ node[n] = None /\ n \notin DOMAIN view.rows
         /\ \A w \in Requests : /\ n \notin Range(req[w].chain) /\ n # req[w].id
                                /\ n \notin Range(req[w].own) /\ n \notin DOMAIN req[w].stat
  BY DEF FreshIds, Rows

\* A step that changes only the states, counts and paths of rows.
LEMMA Touched ==
  ASSUME Forest, RowsTyped',
         \A n \in NodeIds : /\ node'[n] = None <=> node[n] = None
                            /\ node[n] # None => SameShape(n)
  PROVE  Forest' /\ TreeStep
<1>1. Rows' = Rows
  BY DEF Rows
<1>2. TreeStep
  BY DEF TreeStep
<1>3. TreeSound'
  <2>1. \A p, name : Children(p, name)' = Children(p, name)
    BY <1>1 DEF Children, SameShape, Rows
  <2>2. ASSUME NEW n \in Rows', node'[n].parent # 0
        PROVE  node'[node'[n].parent] # None /\ Children(node[n].parent, node[n].name) = {n}
    BY <1>1, <2>2, RowFields DEF Forest, TreeSound, SameShape, Rows
  <2>3. \A n \in Rows' : node'[n].parent = node[n].parent /\ node'[n].name = node[n].name
    BY <1>1 DEF SameShape, Rows
  <2> QED BY <2>1, <2>2, <2>3 DEF TreeSound
<1>4. Ranked'
  BY <1>1 DEF Forest, Ranked, SameShape, Rows
<1> QED BY <1>2, <1>3, <1>4 DEF Forest

\* A step that deletes rows, none without the rows below it, and no bucket.
LEMMA Pruned ==
  ASSUME Forest, RowsTyped', \A n \in NodeIds : node'[n] \in {None, node[n]},
         \A n \in NodeIds : node'[n] # None /\ node[n].parent # 0 =>
                                node'[node[n].parent] # None,
         \A n \in NodeIds : node[n] # None /\ node[n].parent = 0 => node'[n] # None
  PROVE  Forest' /\ TreeStep
<1>1. \A n \in Rows' : n \in Rows /\ node'[n] = node[n]
  BY DEF Rows
<1>2. TreeStep
  BY <1>1 DEF TreeStep, SameShape, Rows
<1>3. TreeSound'
  <2> SUFFICES ASSUME NEW n \in Rows', node'[n].parent # 0
               PROVE  /\ node'[node'[n].parent] # None
                      /\ \A k \in Rows' : node'[k].parent = node'[n].parent
                            /\ node'[k].name = node'[n].name => k = n
    BY DEF TreeSound, Children
  <2>1. node'[node'[n].parent] # None /\ Children(node[n].parent, node[n].name) = {n}
    BY <1>1 DEF Forest, TreeSound, Rows
  <2> QED BY <1>1, <2>1 DEF Children
<1>4. Ranked'
  BY <1>1 DEF Forest, Ranked
<1> QED BY <1>2, <1>3, <1>4 DEF Forest

\* A step that inserts a row under an existing one that has no such child.
LEMMA Planted ==
  ASSUME Forest, NEW n \in FreshIds, NEW row \in MetaNode,
         node' = [node EXCEPT ![n] = row],
         row.parent # 0 => node[row.parent] # None /\ Children(row.parent, row.name) = {}
  PROVE  Forest' /\ TreeStep
<1>1. /\ n \in NodeIds /\ node[n] = None /\ node'[n] = row /\ row # None
      /\ \A m \in NodeIds \ {n} : node'[m] = node[m]
      /\ row.parent \in NodeIds \cup {0}
  BY FreshFacts, ConstantsAssumption DEF Forest, RowsTyped, ConstantsAssumption, MetaNode
<1>2. RowsTyped'
  BY <1>1 DEF Forest, RowsTyped
<1>3. TreeStep
  BY <1>1 DEF TreeStep, SameShape
<1>4. Rows' = Rows \cup {n} /\ n \notin Rows
  BY <1>1 DEF Rows
<1>5. \A m \in Rows : /\ m # n /\ node'[m] = node[m] /\ node[m].parent # n
                      /\ node[m].parent \in NodeIds \cup {0}
  <2> SUFFICES ASSUME NEW m \in Rows PROVE node[m].parent # n
    BY <1>1, <1>4, RowFields DEF Forest, Rows
  <2> QED BY <1>1, ConstantsAssumption DEF Forest, TreeSound, ConstantsAssumption
<1>6. TreeSound'
  <2> SUFFICES ASSUME NEW m \in Rows', node'[m].parent # 0
               PROVE  /\ node'[node'[m].parent] # None
                      /\ \A k \in Rows' : node'[k].parent = node'[m].parent
                            /\ node'[k].name = node'[m].name => k = m
    BY DEF TreeSound, Children
  <2>1. CASE m = n
    <3>1. row.parent # 0 /\ node'[m] = row
      BY <1>1, <2>1
    <3>2. row.parent # n /\ node'[row.parent] # None
      BY <1>1, <3>1
    <3>3. \A k \in Rows' : node'[k].parent = row.parent /\ node'[k].name = row.name => k = n
      BY <1>1, <1>4, <1>5, <3>1 DEF Children
    <3> QED BY <2>1, <3>1, <3>2, <3>3
  <2>2. CASE m # n
    <3>1. /\ m \in Rows /\ node'[m] = node[m] /\ node[m].parent # n
          /\ node[m].parent \in NodeIds
      BY <1>4, <1>5, <2>2
    <3>2. node[node[m].parent] # None /\ Children(node[m].parent, node[m].name) = {m}
      BY <3>1 DEF Forest, TreeSound
    <3>3. ~(row.parent = node[m].parent /\ row.name = node[m].name)
      BY <3>1, <3>2
    <3>4. \A k \in Rows' : node'[k].parent = node[m].parent
             /\ node'[k].name = node[m].name => k = m
      BY <1>1, <1>4, <1>5, <3>2, <3>3 DEF Children
    <3> QED BY <1>1, <3>1, <3>2, <3>4
  <2> QED BY <2>1, <2>2
<1>7. Ranked'
  <2>6. PICK height \in Nat : \E rank \in [NodeIds -> 0 .. height] :
           \A m \in Rows : node[m].parent # 0 => rank[node[m].parent] < rank[m]
    BY DEF Forest, Ranked
  <2>1. PICK rank \in [NodeIds -> 0 .. height] :
           \A m \in Rows : node[m].parent # 0 => rank[node[m].parent] < rank[m]
    BY <2>6
  <2> DEFINE top == IF row.parent = 0 THEN 0 ELSE rank[row.parent] + 1
             new == [rank EXCEPT ![n] = top]
  <2>2. top \in 0 .. (height + 1)
    BY <1>1, <2>1
  <2>3. new \in [NodeIds -> 0 .. (height + 1)] /\ new[n] = top
        /\ \A m \in NodeIds \ {n} : new[m] = rank[m]
    BY <1>1, <2>2
  <2>4. ASSUME NEW m \in Rows', node'[m].parent # 0
        PROVE  new[node'[m].parent] < new[m]
    <3>1. CASE m = n
      <4>1. row.parent # 0 /\ row.parent # n /\ row.parent \in NodeIds
        BY <1>1, <2>4, <3>1
      <4> QED BY <1>1, <2>1, <2>3, <3>1, <4>1
    <3>2. CASE m # n
      <4>1. m \in Rows /\ m \in NodeIds /\ node'[m] = node[m] /\ node[m].parent \in NodeIds \ {n}
        BY <1>4, <1>5, <2>4, <3>2 DEF Rows
      <4> QED BY <2>1, <2>3, <2>4, <3>2, <4>1
    <3> QED BY <3>1, <3>2
  <2>5. height + 1 \in Nat
    BY <2>6
  <2> HIDE DEF new
  <2> QED BY <2>3, <2>4, <2>5 DEF Ranked
<1> QED BY <1>2, <1>3, <1>6, <1>7 DEF Forest

\* A row that survives a step keeps its segments.
LEMMA SegmentsKept ==
  ASSUME Forest, Forest', TreeStep, NEW n \in NodeIds, node[n] # None, node'[n] # None
  PROVE  Segments'[n] = Segments[n]
<1>1. SegmentsDefined /\ SegmentsDefined'
  BY SegmentsExist, SegmentsExistNext
<1>11. PICK height \in Nat : \E rank \in [NodeIds -> 0 .. height] :
         \A m \in Rows : node[m].parent # 0 => rank[node[m].parent] < rank[m]
  BY DEF Forest, Ranked
<1>2. PICK rank \in [NodeIds -> 0 .. height] :
         \A m \in Rows : node[m].parent # 0 => rank[node[m].parent] < rank[m]
  BY <1>11
<1> DEFINE Bad == {m \in Rows : node'[m] # None /\ Segments'[m] # Segments[m]}
<1> SUFFICES ASSUME n \in Bad PROVE FALSE
  BY DEF Rows
<1>3. PICK m \in Bad : \A k \in Bad : rank[m] <= rank[k]
  <2>1. {rank[m] : m \in Bad} \in SUBSET Nat /\ {rank[m] : m \in Bad} # {}
    BY DEF Rows
  <2>2. PICK l \in {rank[m] : m \in Bad} : \A k \in {rank[m] : m \in Bad} : l <= k
    BY <2>1, LeastElement
  <2> QED BY <2>2
<1>4. m \in NodeIds /\ node[m] # None /\ node'[m] # None /\ m \notin FreshIds /\ SameShape(m)
  BY <1>3, FreshFacts DEF TreeStep, Rows
<1>5. node[m].parent # 0
  BY <1>1, <1>3, <1>4 DEF SegmentsDefined, SameShape
<1>6. /\ node[m].parent \in NodeIds /\ node[node[m].parent] # None
      /\ node'[node[m].parent] # None
  <2>1. m \in Rows /\ m \in Rows'
    BY <1>4 DEF Rows
  <2> QED BY <1>4, <1>5, <2>1, RowFields DEF Forest, TreeSound, SameShape
<1>7. node[m].parent \notin Bad
  <2>1. rank[node[m].parent] < rank[m] /\ rank[node[m].parent] \in Nat /\ rank[m] \in Nat
    BY <1>2, <1>4, <1>5, <1>6 DEF Rows
  <2> QED BY <1>3, <2>1
<1>8. Segments'[node[m].parent] = Segments[node[m].parent]
  BY <1>6, <1>7 DEF Rows
<1>9. Segments[m] = Append(Segments[node[m].parent], node[m].name)
  BY <1>1, <1>4, <1>5 DEF SegmentsDefined
<1>10. Segments'[m] = Append(Segments'[node[m].parent], node[m].name)
  BY <1>1, <1>4, <1>5 DEF SegmentsDefined, SameShape
<1> QED BY <1>3, <1>8, <1>9, <1>10

-----------------------------------------------------------------------------
(* What requests know of the forest *)

PCs == {"idle", "done", "failed", "dead"} \cup ActivePCs

\* A request works on a path, or upserts a node of it, or its object.
PathPCs == ActivePCs \ {"path", "final"}
UpsertPCs == {"upsert", "create", "update"}
ItemPCs == {"item", "insert", "updateitem"}
OwnerPCs == {"reset", "delnodes", "delitems", "meta"} \cup ItemPCs

\* The paths and the entries that requests handle.
Paths == WholeBuckets \cup UNION Selections

Entries == {o \in [rel : Seq(Names), key : Keys] :
               o.rel # <<>> /\ Last(o.rel) = Last(o.key) /\ IsSuffix(o.rel, o.key)}

Progress == [pc : PCs, auto : BOOLEAN, todo : SUBSET Paths, at : Paths \cup {None},
             dirs : SUBSET (Seq(Names) \ {<<>>}), objs : SUBSET Entries,
             segs : Seq(Names), obj : Entries \cup {None}, chain : Seq(NodeIds),
             id : NodeIds \cup {0}, own : [Buckets -> NodeIds \cup {0}],
             stat : UNION {[D -> Nat] : D \in SUBSET NodeIds}]

MetaItem == [node : NodeIds, name : Names, rel : Seq(Names), bucket : Buckets,
             key : Keys]

Types ==
    /\ RowsTyped
    /\ items \in SUBSET MetaItem
    /\ req \in [Requests -> Progress]
    /\ store \in [Buckets -> SUBSET Keys]

\* The row above the node that a request with progress r upserts.
Above(r) == IF r.chain = <<>> THEN 0 ELSE Last(r.chain)

\* The nodes that a request with progress r has got are the bucket's row, which
\* stays, and rows below it: each is gone, or it is where the entry in work
\* puts it.
Informed(r) ==
    /\ \A c \in Buckets : r.own[c] # 0 => TopOf(r.own[c], c)
    /\ r.pc \in PathPCs => r.at \in Paths
    /\ r.pc \in PathPCs \ {"list"} /\ r.chain # <<>> => TopOf(r.chain[1], r.at[1])
    /\ r.pc \in OwnerPCs => r.chain # <<>>
    /\ r.pc \in UpsertPCs =>
          r.segs # <<>> /\ (r.chain = <<>> => Head(r.segs) = r.at[1])
    /\ r.pc = "update" =>
          /\ r.id \in NodeIds
          /\ r.chain = <<>> => node[r.id] # None
          /\ node[r.id] # None => /\ node[r.id].parent = Above(r)
                                  /\ node[r.id].name = Head(r.segs)
    /\ r.pc \in UpsertPCs /\ r.chain # <<>> /\ r.obj # None =>
          (node[Last(r.chain)] # None =>
              Segments[Last(r.chain)] \o r.segs = <<r.at[1]>> \o Front(r.obj.rel))
    /\ r.pc \in ItemPCs =>
          /\ r.obj \in Entries
          /\ node[Last(r.chain)] # None =>
                Segments[Last(r.chain)] = <<r.at[1]>> \o Front(r.obj.rel)

\* The ids that a request with progress r holds.
Holds(r) == Range(r.chain) \cup {r.id} \cup Range(r.own)

\* UNIQUE (node_id, name) of meta_item.
ItemsUnique ==
    \A i, j \in items : i.node = j.node /\ i.name = j.name => i = j

\* The rows that a reader holds have the places and names that they had at some
\* moment: those that are in the table still have them, and going up from
\* any of them ends.
ViewSound ==
    /\ view.rows \in UNION {[D -> MetaNode] : D \in SUBSET NodeIds}
    /\ view.pc = "nodes" => \A n \in DOMAIN view.rows : view.rows[n].parent = 0
    /\ \A n \in DOMAIN view.rows : node[n] # None =>
          node[n].parent = view.rows[n].parent /\ node[n].name = view.rows[n].name
    /\ \E height \in Nat : \E rank \in [NodeIds -> 0 .. height] :
          \A n \in DOMAIN view.rows : view.rows[n].parent # 0 =>
              rank[view.rows[n].parent] < rank[n]

\* The inductive invariant: whatever overlaps, fails or dies.
ScanInv ==
    /\ Types
    /\ Forest
    /\ \A w \in Requests : Informed(req[w])
    /\ ItemsInPlace
    /\ ItemsUnique
    /\ ViewSound

-----------------------------------------------------------------------------

\* The last node of a chain is one that the request holds.
LEMMA ChainEnds ==
  ASSUME NEW r \in Progress, r.chain # <<>>
  PROVE  /\ Last(r.chain) \in NodeIds /\ Last(r.chain) \in Holds(r)
         /\ r.chain[1] \in NodeIds /\ r.chain[1] \in Holds(r)
<1>1. r.chain \in Seq(NodeIds) /\ Len(r.chain) \in Nat /\ Len(r.chain) > 0
  BY DEF Progress
<1>2. 1 \in DOMAIN r.chain /\ Len(r.chain) \in DOMAIN r.chain
  BY <1>1
<1> QED BY <1>1, <1>2 DEF Last, Holds, Range

\* What a request holds is not fresh.
LEMMA HeldNotFresh ==
  ASSUME NEW w \in Requests PROVE Holds(req[w]) \cap FreshIds = {}
  BY FreshFacts DEF Holds

\* A row of a bucket stays one.
LEMMA TopKept ==
  ASSUME Forest, TreeStep, NEW n, NEW b, TopOf(n, b) PROVE TopOf(n, b)'
<1>1. n \in NodeIds /\ node[n] # None /\ node[n].parent = 0 /\ node[n].name = b
  BY DEF TopOf, Rows
<1>2. n \notin FreshIds
  BY <1>1, FreshFacts
<1> QED BY <1>1, <1>2 DEF TreeStep, TopOf, Rows, SameShape

\* What a request knows stays true as long as its ids are not handed out again.
LEMMA InformedKept ==
  ASSUME Forest, Forest', TreeStep, NEW r \in Progress, Holds(r) \cap FreshIds = {},
         Informed(r)
  PROVE  Informed(r)'
<1>1. \A c \in Buckets : r.own[c] # 0 => TopOf(r.own[c], c)'
  BY TopKept DEF Informed
<1>2. r.pc \in PathPCs \ {"list"} /\ r.chain # <<>> => TopOf(r.chain[1], r.at[1])'
  BY TopKept DEF Informed
<1>3. r.id \in NodeIds /\ node'[r.id] # None => node[r.id] # None /\ SameShape(r.id)
  BY DEF TreeStep, Holds
<1>4. r.pc = "update" => 
          /\ r.id \in NodeIds
          /\ r.chain = <<>> => node'[r.id] # None
          /\ node'[r.id] # None => /\ node'[r.id].parent = Above(r)
                                   /\ node'[r.id].name = Head(r.segs)
  BY <1>3 DEF Informed, TreeStep, SameShape, Above
<1>5. r.chain # <<>> /\ node'[Last(r.chain)] # None =>
         node[Last(r.chain)] # None /\ Segments'[Last(r.chain)] = Segments[Last(r.chain)]
  BY ChainEnds, SegmentsKept DEF TreeStep
<1>6. r.pc \in UpsertPCs /\ r.chain # <<>> /\ r.obj # None =>
          (node'[Last(r.chain)] # None =>
              Segments'[Last(r.chain)] \o r.segs = <<r.at[1]>> \o Front(r.obj.rel))
  BY <1>5 DEF Informed
<1>7. r.pc \in ItemPCs =>
          /\ r.obj \in Entries
          /\ node'[Last(r.chain)] # None =>
                Segments'[Last(r.chain)] = <<r.at[1]>> \o Front(r.obj.rel)
  BY <1>5 DEF Informed, OwnerPCs
<1>8. /\ r.pc \in PathPCs => r.at \in Paths
      /\ r.pc \in OwnerPCs => r.chain # <<>>
      /\ r.pc \in UpsertPCs =>
            r.segs # <<>> /\ (r.chain = <<>> => Head(r.segs) = r.at[1])
  BY DEF Informed
<1> QED BY <1>1, <1>2, <1>4, <1>6, <1>7, <1>8 DEF Informed, Above

\* Items whose rows survive stay in place.
LEMMA ItemKept ==
  ASSUME ScanInv, Forest', TreeStep, NEW i \in items, node'[i.node] # None
  PROVE  /\ Segments'[i.node] \o <<i.name>> = <<i.bucket>> \o i.rel
         /\ IsSuffix(i.rel, i.key)
<1>1. i.node \in NodeIds /\ node[i.node] # None
  BY DEF ScanInv, Types, MetaItem, ItemsInPlace
<1> QED BY <1>1, SegmentsKept DEF ScanInv, ItemsInPlace

\* What a request knows, said of its progress after a step.
LEMMA InformedAt ==
  ASSUME NEW v \in Requests, NEW s, Informed(s)', req'[v] = s
  PROVE  Informed(req[v])'
  BY DEF Informed, Above

\* What a reader holds stays true while others write.
LEMMA ViewKept ==
  ASSUME ViewSound, TreeStep, UNCHANGED view PROVE ViewSound'
<1>1. \A n \in DOMAIN view.rows : n \in NodeIds /\ n \notin FreshIds
  BY FreshFacts DEF ViewSound
<1>2. \A n \in DOMAIN view.rows : node'[n] # None =>
          node'[n].parent = view.rows[n].parent /\ node'[n].name = view.rows[n].name
  BY <1>1 DEF ViewSound, TreeStep, SameShape
<1> QED BY <1>2 DEF ViewSound

\* A step of one request that leaves it informed preserves the invariant, if
\* the items that it leaves or adds are in place.
LEMMA Move ==
  ASSUME ScanInv, Forest', TreeStep, NEW w \in Requests, NEW r \in Progress,
         req' = [req EXCEPT ![w] = r], Informed(r)',
         UNCHANGED <<store, view>>, items' \in SUBSET MetaItem, ItemsInPlace', ItemsUnique'
  PROVE  ScanInv'
<1>1. Types'
  BY DEF ScanInv, Types, Forest
<1>2. ASSUME NEW v \in Requests PROVE Informed(req[v])'
  <2>1. CASE v = w
    <3>1. req'[v] = r
      BY <2>1 DEF ScanInv, Types
    <3> QED BY <3>1, InformedAt
  <2>2. CASE v # w
    <3>1. PICK s : s = req[v]
      OBVIOUS
    <3>2. req'[v] = s /\ s \in Progress /\ Holds(s) \cap FreshIds = {} /\ Informed(s)
      BY <2>2, <3>1, HeldNotFresh DEF ScanInv, Types
    <3>3. Informed(s)'
      BY <3>2, InformedKept DEF ScanInv
    <3>4. req'[v] = s
      BY <3>2
    <3> QED BY <3>3, <3>4, InformedAt
  <2> QED BY <2>1, <2>2
<1>3. ViewSound'
  BY ViewKept DEF ScanInv
<1> QED BY <1>1, <1>2, <1>3 DEF ScanInv

\* Such a step without new items.
LEMMA MoveOn ==
  ASSUME ScanInv, Forest', TreeStep, NEW w \in Requests, NEW r \in Progress,
         req' = [req EXCEPT ![w] = r], Informed(r), Holds(r) \cap FreshIds = {},
         UNCHANGED <<store, view>>, items' \subseteq items, \A i \in items' : node'[i.node] # None
  PROVE  ScanInv'
<1>1. Informed(r)'
  BY InformedKept DEF ScanInv
<1>2. ItemsInPlace'
  BY ItemKept DEF ItemsInPlace
<1>3. items' \in SUBSET MetaItem
  BY DEF ScanInv, Types
<1>4. ItemsUnique'
  BY DEF ScanInv, ItemsUnique
<1> QED BY <1>1, <1>2, <1>3, <1>4, Move

\* Such a step that does not touch a row.
LEMMA MoveOnly ==
  ASSUME ScanInv, NEW w \in Requests, NEW r \in Progress,
         req' = [req EXCEPT ![w] = r], Informed(r), Holds(r) \cap FreshIds = {},
         UNCHANGED <<store, view, node>>, items' \subseteq items
  PROVE  ScanInv'
<1>1. RowsTyped'
  BY DEF ScanInv, Types, RowsTyped
<1>2. Forest' /\ TreeStep
  BY <1>1, Touched DEF ScanInv, SameShape
<1>3. \A i \in items' : node'[i.node] # None
  BY DEF ScanInv, ItemsInPlace
<1> QED BY <1>2, <1>3, MoveOn

-----------------------------------------------------------------------------
(* The steps of requests *)

USE DEF PCs, ActivePCs, PathPCs, UpsertPCs, ItemPCs, OwnerPCs

LEMMA Before ==
  ASSUME ScanInv, NEW w \in Requests
  PROVE  /\ req[w] \in Progress /\ Informed(req[w]) /\ Holds(req[w]) \cap FreshIds = {}
         /\ DOMAIN req = Requests
  BY HeldNotFresh DEF ScanInv, Types

\* The paths that a request may start with.
LEMMA PathsOf ==
  /\ WholeBuckets \subseteq Paths
  /\ \A sel \in Selections : sel \subseteq Paths
  /\ \A p \in Paths : p[1] \in Buckets /\ p[2] \in Seq(Names)
<1>1. \A b \in Allowed : b \in Buckets
  BY ConstantsAssumption DEF ConstantsAssumption
<1>2. \A p \in WholeBuckets : p[1] \in Buckets /\ p[2] \in Seq(Names)
  <2>1. <<>> \in Seq(Names)
    OBVIOUS
  <2>2. ASSUME NEW b \in Allowed PROVE <<b, <<>>>>[1] \in Buckets /\ <<b, <<>>>>[2] \in Seq(Names)
    BY <1>1, <2>1
  <2> QED BY <2>2 DEF WholeBuckets
<1>3. \A p \in UNION Selections : p[1] \in Buckets /\ p[2] \in Seq(Names)
  BY ConstantsAssumption DEF ConstantsAssumption
<1> QED BY <1>2, <1>3 DEF Paths

\* A request without a path knows nothing.
LEMMA FreshProgress ==
  ASSUME NEW pc \in PCs \ PathPCs, NEW auto \in BOOLEAN, NEW todo \in SUBSET Paths,
         NEW r, r = Fresh(pc, auto, todo)
  PROVE  r \in Progress /\ Informed(r) /\ Holds(r) \cap FreshIds = {}
<1>1. [n \in {} |-> 0] \in UNION {[D -> Nat] : D \in SUBSET NodeIds}
  <2>1. [n \in {} |-> 0] \in [{} -> Nat] /\ {} \in SUBSET NodeIds
    OBVIOUS
  <2> QED BY <2>1
<1>2. <<>> \in Seq(NodeIds) /\ <<>> \in Seq(Names) /\ [b \in Buckets |-> 0] \in [Buckets -> NodeIds \cup {0}]
  OBVIOUS
<1>3. r \in Progress
  BY <1>1, <1>2 DEF Fresh, Progress
<1>4. r.pc = pc /\ r.chain = <<>> /\ r.id = 0 /\ r.own = [b \in Buckets |-> 0]
  BY DEF Fresh
<1>5. Informed(r)
  BY <1>4 DEF Informed
<1>6. Holds(r) \subseteq {0} /\ FreshIds \subseteq NodeIds
  BY <1>4 DEF Holds, Range, FreshIds
<1> QED BY <1>3, <1>5, <1>6, ConstantsAssumption DEF ConstantsAssumption

LEMMA SafeBegin ==
  ASSUME ScanInv, NEW w \in Requests, BeginAuto(w) \/ BeginManual(w) PROVE ScanInv'
<1>1. PICK auto \in BOOLEAN, todo \in SUBSET Paths : Begin(w, auto, todo)
  BY PathsOf DEF BeginAuto, BeginManual
<1>2. PICK r : r = Fresh("path", auto, todo)
  OBVIOUS
<1>3. r \in Progress /\ Informed(r) /\ Holds(r) \cap FreshIds = {}
  BY <1>2, FreshProgress
<1>4. req' = [req EXCEPT ![w] = r] /\ UNCHANGED <<store, view, node, items>>
  BY <1>1, <1>2 DEF Begin, Set, dbVars, envVars
<1> QED BY <1>3, <1>4, MoveOnly

LEMMA SafeNextPath == ASSUME ScanInv, NEW w \in Requests, NextPath(w) PROVE ScanInv'
<1>1. /\ req[w] \in Progress /\ Informed(req[w]) /\ Holds(req[w]) \cap FreshIds = {}
      /\ UNCHANGED <<store, view, node, items>>
  BY Before DEF NextPath, dbVars, envVars
<1>2. CASE req[w].todo = {} /\ Goto(w, IF req[w].auto THEN "done" ELSE "final")
  <2>1. PICK r : r = [req[w] EXCEPT !.pc = IF req[w].auto THEN "done" ELSE "final"]
    OBVIOUS
  <2>2. r \in Progress
    BY <1>1, <2>1 DEF Progress
  <2>3. r.own = req[w].own /\ r.pc \notin PathPCs /\ Holds(r) = Holds(req[w])
    BY <1>1, <2>1 DEF Progress, Holds
  <2>4. Informed(r)
    BY <1>1, <2>3 DEF Informed
  <2>5. req' = [req EXCEPT ![w] = r]
    BY <1>2, <2>1 DEF Goto, Set
  <2> QED BY <1>1, <2>2, <2>3, <2>4, <2>5, MoveOnly
<1>3. ASSUME NEW p \in req[w].todo, NEW pc \in {"path", "list"},
             Set(w, [req[w] EXCEPT !.todo = @ \ {p}, !.at = p, !.chain = <<>>, !.pc = pc])
      PROVE  ScanInv'
  <2>1. PICK r : r = [req[w] EXCEPT !.todo = @ \ {p}, !.at = p, !.chain = <<>>, !.pc = pc]
    OBVIOUS
  <2>2. p \in Paths
    BY <1>1, <1>3 DEF Progress
  <2>3. <<>> \in Seq(NodeIds)
    OBVIOUS
  <2>4. r \in Progress
    BY <1>1, <1>3, <2>1, <2>2, <2>3 DEF Progress
  <2>5. /\ r.own = req[w].own /\ r.pc \in {"path", "list"} /\ r.at = p /\ r.chain = <<>>
        /\ Holds(r) \subseteq Holds(req[w])
    BY <1>1, <1>3, <2>1 DEF Progress, Holds, Range
  <2>6. Informed(r)
    BY <1>1, <2>2, <2>5 DEF Informed
  <2>7. req' = [req EXCEPT ![w] = r]
    BY <1>3, <2>1 DEF Set
  <2> QED BY <1>1, <2>4, <2>5, <2>6, <2>7, MoveOnly
<1> QED BY <1>2, <1>3 DEF NextPath

\* Concatenation, element by element.
LEMMA Concatenation ==
  ASSUME NEW S, NEW a \in Seq(S), NEW b \in Seq(S)
  PROVE  /\ a \o b \in Seq(S) /\ Len(a \o b) = Len(a) + Len(b)
         /\ \A i \in 1 .. Len(a) + Len(b) :
               (a \o b)[i] = IF i <= Len(a) THEN a[i] ELSE b[i - Len(a)]
  OBVIOUS

\* What ends with a name has the name's last segment.
LEMMA SuffixOf ==
  ASSUME NEW p \in Seq(Names), NEW r \in Seq(Names), r # <<>>
  PROVE  /\ p \o r \in Seq(Names) /\ p \o r # <<>>
         /\ Last(p \o r) = Last(r) /\ IsSuffix(r, p \o r)
<1>1. /\ Len(p) \in Nat /\ Len(r) \in Nat /\ Len(r) > 0
      /\ p \o r \in Seq(Names) /\ Len(p \o r) = Len(p) + Len(r)
      /\ \A i \in 1 .. Len(p) + Len(r) :
            (p \o r)[i] = IF i <= Len(p) THEN p[i] ELSE r[i - Len(p)]
  OBVIOUS
<1>2. Last(p \o r) = Last(r)
  BY <1>1 DEF Last
<1> DEFINE a == Reverse(r)
           b == Reverse(p \o r)
<1>3. /\ a \in Seq(Names) /\ Len(a) = Len(r)
      /\ \A i \in 1 .. Len(r) : a[i] = r[Len(r) - i + 1]
  BY <1>1 DEF Reverse
<1>4. /\ b \in Seq(Names) /\ Len(b) = Len(p) + Len(r)
      /\ \A i \in 1 .. Len(p) + Len(r) : b[i] = (p \o r)[Len(p) + Len(r) - i + 1]
  BY <1>1 DEF Reverse
<1>5. \A i \in 1 .. Len(a) : a[i] = b[i]
  <2> SUFFICES ASSUME NEW i \in 1 .. Len(r) PROVE a[i] = b[i]
    BY <1>3
  <2>1. b[i] = (p \o r)[Len(p) + Len(r) - i + 1]
    BY <1>1, <1>4
  <2>2. (p \o r)[Len(p) + Len(r) - i + 1] = r[Len(r) - i + 1]
    BY <1>1
  <2> QED BY <1>3, <2>1, <2>2
<1>6. SubSeq(a, 1, Len(a)) = SubSeq(b, 1, Len(a))
  <2>1. Len(a) \in 0 .. Len(a) /\ Len(a) \in 0 .. Len(b)
    BY <1>1, <1>3, <1>4
  <2>2. /\ SubSeq(a, 1, Len(a)) \in Seq(Names) /\ Len(SubSeq(a, 1, Len(a))) = Len(a)
        /\ \A i \in 1 .. Len(a) : SubSeq(a, 1, Len(a))[i] = a[i]
    BY <1>3, <2>1, InitialOf
  <2>3. /\ SubSeq(b, 1, Len(a)) \in Seq(Names) /\ Len(SubSeq(b, 1, Len(a))) = Len(a)
        /\ \A i \in 1 .. Len(a) : SubSeq(b, 1, Len(a))[i] = b[i]
    BY <1>4, <2>1, InitialOf
  <2> QED BY <1>5, <2>2, <2>3, SameSequence
<1> HIDE DEF a, b
<1>7. IsPrefix(a, b)
  BY <1>1, <1>3, <1>4, <1>6 DEF IsPrefix
<1> QED BY <1>1, <1>2, <1>7 DEF IsSuffix, a, b

\* A key is a prefix of it and what comes after.
LEMMA PrefixThenRest ==
  ASSUME NEW p \in Seq(Names), NEW k \in Seq(Names), IsStrictPrefix(p, k)
  PROVE  p \o SubSeq(k, Len(p) + 1, Len(k)) = k
<1>1. /\ Len(p) \in Nat /\ Len(k) \in Nat /\ Len(p) < Len(k)
      /\ \A i \in 1 .. Len(p) : k[i] = p[i]
  BY StrictPrefixOf
<1>2. PICK r : r = SubSeq(k, Len(p) + 1, Len(k))
  OBVIOUS
<1>3. /\ r \in Seq(Names) /\ Len(r) = Len(k) - Len(p)
      /\ \A i \in 1 .. Len(r) : r[i] = k[Len(p) + i]
  BY <1>1, <1>2, RestOf
<1>4. /\ p \o r \in Seq(Names) /\ Len(p \o r) = Len(k)
      /\ \A i \in 1 .. Len(k) : (p \o r)[i] = IF i <= Len(p) THEN p[i] ELSE r[i - Len(p)]
  BY <1>1, <1>3, Concatenation
<1>5. ASSUME NEW i \in 1 .. Len(k) PROVE (p \o r)[i] = k[i]
  <2>1. CASE i <= Len(p)
    <3>1. (p \o r)[i] = p[i] /\ k[i] = p[i]
      BY <1>1, <1>4, <2>1
    <3> QED BY <3>1
  <2>2. CASE i > Len(p)
    <3>1. i - Len(p) \in 1 .. Len(r) /\ Len(p) + (i - Len(p)) = i
      BY <1>1, <1>3, <2>2
    <3>2. (p \o r)[i] = r[i - Len(p)]
      BY <1>1, <1>4, <2>2
    <3> QED BY <1>3, <3>1, <3>2
  <2>3. i <= Len(p) \/ i > Len(p)
    BY <1>1
  <2> QED BY <2>1, <2>2, <2>3
<1> QED BY <1>2, <1>4, <1>5, SameSequence

\* Whatever the store answers, directories and objects have names, and an
\* object's name is the end of its key.
LEMMA AnswerTyped ==
  ASSUME NEW path \in Paths, NEW content \in SUBSET Keys, NEW failing \in BOOLEAN,
         NEW metas \in Answers(path, content, failing)
  PROVE  /\ metas.dirs \in SUBSET (Seq(Names) \ {<<>>})
         /\ metas.objs \in SUBSET Entries
<1>1. path[2] \in Seq(Names) /\ \A k \in content : k \in Seq(Names) /\ k # <<>>
  BY PathsOf, ConstantsAssumption DEF ConstantsAssumption
<1> DEFINE prefix == path[2]
<1>2. CASE metas = NoMetas
  BY <1>2 DEF NoMetas
<1>3. CASE metas = [dirs |-> {}, objs |-> {[rel |-> prefix, key |-> prefix]}] /\ prefix \in content
  <2>1. <<>> \in Seq(Names) /\ prefix # <<>> /\ <<>> \o prefix = prefix
    BY <1>1, <1>3
  <2>2. IsSuffix(prefix, prefix)
    BY <1>1, <2>1, SuffixOf
  <2>3. [rel |-> prefix, key |-> prefix] \in Entries
    BY <1>1, <1>3, <2>1, <2>2 DEF Entries
  <2> QED BY <1>3, <2>3
<1>4. ASSUME NEW l \in SUBSET content, metas = ScanBucket(prefix, l)
      PROVE  /\ metas.dirs \in SUBSET (Seq(Names) \ {<<>>})
             /\ metas.objs \in SUBSET Entries
  <2>1. ASSUME NEW r \in Relative(prefix, l)
        PROVE  r \in Seq(Names) /\ r # <<>> /\ r # <<Marker>> /\ Len(r) \in Nat /\ Len(r) > 0
    <3>1. PICK k \in l : IsStrictPrefix(prefix, k) /\ r = SubSeq(k, Len(prefix) + 1, Len(k))
      BY <2>1 DEF Relative
    <3>2. k \in Seq(Names) /\ Len(prefix) < Len(k)
      BY <1>1, <3>1, StrictPrefixOf
    <3>3. r \in Seq(Names) /\ Len(r) \in Nat /\ Len(r) > 0
      BY <1>1, <3>1, <3>2, RestOf
    <3> QED BY <2>1, <3>3 DEF Relative
  <2>2. ASSUME NEW r \in Relative(prefix, l), NEW d \in DirsOf(r)
        PROVE  d \in Seq(Names) /\ d # <<>>
    <3>1. /\ r \in Seq(Names) /\ r # <<>> /\ r # <<Marker>>
          /\ Len(r) \in Nat /\ Len(r) > 0
      BY <2>1
    <3>2. CASE Last(r) = Marker /\ d = Front(r)
      <4>1. Front(r) \in Seq(Names) /\ Len(Front(r)) = Len(r) - 1 /\ Last(r) = r[Len(r)]
        BY <3>1, FrontOf
      <4>2. Len(r) # 1
        BY <3>1, <3>2, <4>1
      <4> QED BY <3>1, <3>2, <4>1, <4>2
    <3>3. ASSUME NEW i \in 1 .. (Len(r) - 1), d = SubSeq(r, 1, i)
          PROVE  d \in Seq(Names) /\ d # <<>>
      <4>1. i \in 0 .. Len(r) /\ i > 0
        BY <3>1
      <4>2. d \in Seq(Names) /\ Len(d) = i
        BY <3>1, <3>3, <4>1, InitialOf
      <4> QED BY <4>1, <4>2
    <3> QED BY <2>2, <3>2, <3>3 DEF DirsOf
  <2>3. ASSUME NEW r \in Relative(prefix, l)
        PROVE  [rel |-> r, key |-> prefix \o r] \in Entries
    <3>1. PICK k \in l : IsStrictPrefix(prefix, k) /\ r = SubSeq(k, Len(prefix) + 1, Len(k))
      BY <2>3 DEF Relative
    <3>2. prefix \o r = k
      BY <1>1, <3>1, PrefixThenRest
    <3>3. prefix \o r \in Keys
      BY <3>1, <3>2
    <3> QED BY <1>1, <2>1, <3>3, SuffixOf DEF Entries
  <2>4. metas.dirs \in SUBSET (Seq(Names) \ {<<>>})
    <3> SUFFICES ASSUME NEW d \in metas.dirs PROVE d \in Seq(Names) /\ d # <<>>
      OBVIOUS
    <3>1. \/ d = prefix /\ prefix # <<>>
          \/ \E r \in Relative(prefix, l) : d \in DirsOf(r)
      BY <1>4 DEF ScanBucket
    <3> QED BY <1>1, <2>2, <3>1
  <2>5. metas.objs \in SUBSET Entries
    BY <1>4, <2>3 DEF ScanBucket
  <2> QED BY <2>4, <2>5
<1> QED BY <1>2, <1>3, <1>4 DEF Answers

\* A request has an answer of the store.
LEMMA SafeAnswered ==
  ASSUME ScanInv, NEW w \in Requests, req[w].pc = "list", NEW metas,
         metas.dirs \in SUBSET (Seq(Names) \ {<<>>}), metas.objs \in SUBSET Entries,
         Answered(w, metas), UNCHANGED <<store, view, node, items>>
  PROVE  ScanInv'
<1> DEFINE owned == req[w].own[req[w].at[1]]
<1>1. /\ req[w] \in Progress /\ Informed(req[w]) /\ Holds(req[w]) \cap FreshIds = {}
  BY Before
<1>2. req[w].at \in Paths /\ req[w].at[1] \in Buckets /\ req[w].at[1] \in Names
  BY <1>1, PathsOf DEF Informed, Names
<1>3. owned \in NodeIds \cup {0} /\ (owned # 0 => TopOf(owned, req[w].at[1]))
  BY <1>1, <1>2 DEF Informed, Progress
<1>4. PICK r : r = [req[w] EXCEPT
            !.dirs = metas.dirs, !.objs = metas.objs,
            !.segs = IF owned = 0 THEN <<req[w].at[1]>> ELSE <<>>,
            !.chain = IF owned = 0 THEN <<>> ELSE <<owned>>,
            !.obj = None,
            !.pc = IF metas = NoMetas THEN PathDone(w)
                   ELSE IF owned = 0 THEN "upsert" ELSE "meta"]
  OBVIOUS
<1> DEFINE chain == IF owned = 0 THEN <<>> ELSE <<owned>>
           segs == IF owned = 0 THEN <<req[w].at[1]>> ELSE <<>>
           pc == IF metas = NoMetas THEN PathDone(w)
                 ELSE IF owned = 0 THEN "upsert" ELSE "meta"
<1>5. chain \in Seq(NodeIds) /\ segs \in Seq(Names)
  BY <1>2, <1>3
<1>6. pc \in {"final", "path", "upsert", "meta"} /\ (pc = "upsert" => owned = 0)
      /\ (pc = "meta" => owned # 0)
  BY DEF PathDone
<1>7. /\ r.pc = pc /\ r.chain = chain /\ r.segs = segs /\ r.own = req[w].own
      /\ r.at = req[w].at /\ r.id = req[w].id /\ r.obj = None
  BY <1>1, <1>4 DEF Progress
<1>8. r \in Progress
  <2>1. pc \in PCs /\ None \in Entries \cup {None}
    BY <1>6
  <2>2. r = [req[w] EXCEPT !.dirs = metas.dirs, !.objs = metas.objs, !.segs = segs,
                           !.chain = chain, !.obj = None, !.pc = pc]
    BY <1>4
  <2> HIDE DEF pc, chain, segs, PCs, ActivePCs
  <2> QED BY <1>1, <1>5, <2>1, <2>2 DEF Progress
<1>9. Informed(r)
  <2>1. r.pc \in PathPCs \ {"list"} /\ r.chain # <<>> => TopOf(r.chain[1], r.at[1])
    BY <1>3, <1>7
  <2>2. r.pc \in UpsertPCs => r.segs # <<>> /\ (r.chain = <<>> => Head(r.segs) = r.at[1])
    BY <1>6, <1>7
  <2>3. r.pc \in OwnerPCs => r.chain # <<>>
    BY <1>6, <1>7
  <2>4. \A c \in Buckets : r.own[c] # 0 => TopOf(r.own[c], c)
    BY <1>1, <1>7 DEF Informed
  <2>5. r.at \in Paths /\ r.obj = None /\ r.pc \notin ItemPCs \cup {"update"}
    BY <1>2, <1>6, <1>7
  <2> QED BY <2>1, <2>2, <2>3, <2>4, <2>5 DEF Informed
<1>10. Holds(r) \cap FreshIds = {}
  <2>1. chain # <<>> => Range(chain) = {owned} /\ owned \in Range(req[w].own)
    BY <1>1, <1>2, <1>3 DEF Range, Progress
  <2>2. Range(<<>>) = {}
    BY DEF Range
  <2>3. Holds(r) \subseteq Holds(req[w])
    BY <1>7, <2>1, <2>2 DEF Holds
  <2> QED BY <1>1, <2>3
<1>11. req' = [req EXCEPT ![w] = r]
  BY <1>4, Zenon DEF Answered, Set
<1> QED BY <1>8, <1>9, <1>10, <1>11, MoveOnly

LEMMA SafeScanPath == ASSUME ScanInv, NEW w \in Requests, ScanPath(w) PROVE ScanInv'
<1>1. req[w].pc = "list" /\ UNCHANGED <<store, view, node, items>>
  BY DEF ScanPath, dbVars
<1>2. PICK metas \in Answers(req[w].at, store[req[w].at[1]], FALSE) : Answered(w, metas)
  BY DEF ScanPath
<1>3. req[w].at \in Paths /\ store[req[w].at[1]] \in SUBSET Keys
  BY <1>1, Before, PathsOf DEF Informed, ScanInv, Types
<1> QED BY <1>1, <1>2, <1>3, AnswerTyped, SafeAnswered

LEMMA SafeScanPathLossy ==
  ASSUME ScanInv, NEW w \in Requests, ScanPathLossy(w) PROVE ScanInv'
<1>1. req[w].pc = "list" /\ UNCHANGED <<store, view, node, items>>
  BY DEF ScanPathLossy, dbVars, envVars
<1>2. PICK metas \in Answers(req[w].at, store[req[w].at[1]], TRUE) : Answered(w, metas)
  BY DEF ScanPathLossy
<1>3. req[w].at \in Paths /\ store[req[w].at[1]] \in SUBSET Keys
  BY <1>1, Before, PathsOf DEF Informed, ScanInv, Types
<1> QED BY <1>1, <1>2, <1>3, AnswerTyped, SafeAnswered

\* What a request with progress q knows when it upserts its next segment.
Upserting(q) ==
    /\ \A c \in Buckets : q.own[c] # 0 => TopOf(q.own[c], c)
    /\ q.at \in Paths
    /\ q.chain # <<>> => TopOf(q.chain[1], q.at[1])
    /\ q.segs # <<>> /\ (q.chain = <<>> => Head(q.segs) = q.at[1])
    /\ q.chain # <<>> /\ q.obj # None =>
          (node[Last(q.chain)] # None =>
              Segments[Last(q.chain)] \o q.segs = <<q.at[1]>> \o Front(q.obj.rel))

LEMMA UpsertingOf ==
  ASSUME NEW r, Informed(r), r.pc \in UpsertPCs PROVE Upserting(r)
  BY DEF Informed, Upserting

\* The SELECT of upsertNode.
LEMMA SafeSelect ==
  ASSUME ScanInv, NEW w \in Requests, NEW q \in Progress, Upserting(q),
         Holds(q) \cap FreshIds = {}, UpsertSelect(w, q), UNCHANGED <<store, view, node, items>>
  PROVE  ScanInv'
<1>1. CASE Set(w, [q EXCEPT !.pc = "create"])
  <2>1. PICK r : r = [q EXCEPT !.pc = "create"]
    OBVIOUS
  <2>2. r \in Progress
    BY <2>1 DEF Progress
  <2>3. /\ r.pc = "create" /\ r.own = q.own /\ r.at = q.at /\ r.chain = q.chain
        /\ r.segs = q.segs /\ r.obj = q.obj /\ r.id = q.id
    BY <2>1 DEF Progress
  <2>4. Informed(r) /\ Holds(r) = Holds(q)
    BY <2>3 DEF Informed, Upserting, Holds
  <2>5. req' = [req EXCEPT ![w] = r]
    BY <1>1, <2>1 DEF Set
  <2> QED BY <2>2, <2>4, <2>5, MoveOnly
<1>2. ASSUME NEW n \in Children(Above(q), Head(q.segs)),
             Set(w, [q EXCEPT !.id = n, !.pc = "update"])
      PROVE  ScanInv'
  <2>1. PICK r : r = [q EXCEPT !.id = n, !.pc = "update"]
    OBVIOUS
  <2>2. /\ n \in NodeIds /\ node[n] # None /\ n \notin FreshIds
        /\ node[n].parent = Above(q) /\ node[n].name = Head(q.segs)
    BY <1>2, FreshFacts DEF Children, Rows
  <2>3. r \in Progress
    BY <2>1, <2>2 DEF Progress
  <2>4. /\ r.pc = "update" /\ r.own = q.own /\ r.at = q.at /\ r.chain = q.chain
        /\ r.segs = q.segs /\ r.obj = q.obj /\ r.id = n
    BY <2>1 DEF Progress
  <2>5. Informed(r)
    BY <2>2, <2>4 DEF Informed, Upserting, Above
  <2>6. Holds(r) \cap FreshIds = {}
    BY <2>2, <2>4 DEF Holds
  <2>7. req' = [req EXCEPT ![w] = r]
    BY <1>2, <2>1 DEF Set
  <2> QED BY <2>3, <2>5, <2>6, <2>7, MoveOnly
<1> QED BY <1>1, <1>2 DEF UpsertSelect, Above

LEMMA SafeUpsertRead == ASSUME ScanInv, NEW w \in Requests, UpsertRead(w) PROVE ScanInv'
<1>1. PICK q : q = req[w]
  OBVIOUS
<1>2. /\ q \in Progress /\ Upserting(q) /\ Holds(q) \cap FreshIds = {}
      /\ UpsertSelect(w, q) /\ UNCHANGED <<store, view, node, items>>
  BY <1>1, Before, UpsertingOf DEF UpsertRead, dbVars, envVars
<1> QED BY <1>2, SafeSelect

\* A request gives its path up, or everything.
LEMMA GiveUpProgress ==
  ASSUME ScanInv, NEW w \in Requests, NEW r, r = GiveUp(w)
  PROVE  r \in Progress /\ Informed(r) /\ Holds(r) \cap FreshIds = {}
<1>1. /\ req[w] \in Progress /\ Informed(req[w]) /\ Holds(req[w]) \cap FreshIds = {}
  BY Before
<1>2. CASE r = [req[w] EXCEPT !.pc = PathDone(w)]
  <2>1. PathDone(w) \in {"final", "path"}
    BY DEF PathDone
  <2>2. r \in Progress
    BY <1>1, <1>2, <2>1 DEF Progress
  <2>3. r.pc \in {"final", "path"} /\ r.own = req[w].own /\ Holds(r) = Holds(req[w])
    BY <1>1, <1>2, <2>1 DEF Progress, Holds
  <2> QED BY <1>1, <2>2, <2>3 DEF Informed
<1>3. CASE r = Fresh(IF req[w].auto THEN "path" ELSE "failed", req[w].auto, req[w].todo)
  BY <1>1, <1>3, FreshProgress DEF Progress
<1> QED BY <1>2, <1>3 DEF GiveUp

LEMMA SafeGiveUp ==
  ASSUME ScanInv, NEW w \in Requests, Set(w, GiveUp(w)), UNCHANGED <<store, view, node, items>>
  PROVE  ScanInv'
<1>1. PICK r : r = GiveUp(w)
  OBVIOUS
<1>2. req' = [req EXCEPT ![w] = r]
  BY <1>1 DEF Set
<1> QED BY <1>1, <1>2, GiveUpProgress, MoveOnly

\* What upsertNode's INSERT makes of a request and of the tree.
LEMMA SafeUpsertCreate == ASSUME ScanInv, NEW w \in Requests, UpsertCreate(w) PROVE ScanInv'
<1> DEFINE p == Parent(w)
           name == Head(req[w].segs)
           refused == IF p = 0 THEN FALSE ELSE node[p] = None \/ Children(p, name) # {}
<1>1. /\ req[w] \in Progress /\ Informed(req[w]) /\ Holds(req[w]) \cap FreshIds = {}
      /\ req[w].pc = "create" /\ UNCHANGED <<store, view, items>>
  BY Before DEF UpsertCreate, envVars
<1>2. CASE Set(w, GiveUp(w)) /\ UNCHANGED node
  BY <1>1, <1>2, SafeGiveUp
<1>3. ASSUME NEW n \in FreshIds, ~refused,
             node' = [node EXCEPT ![n] = [parent |-> p, name |-> name, pathed |-> FALSE,
                                          status |-> Unscanned, count |-> 0]],
             Set(w, [req[w] EXCEPT !.id = n, !.pc = "update"])
      PROVE  ScanInv'
  <2>1. PICK row : row = [parent |-> p, name |-> name, pathed |-> FALSE,
                          status |-> Unscanned, count |-> 0]
    OBVIOUS
  <2>2. /\ row \in MetaNode /\ row.parent = p /\ row.name = name /\ p = Above(req[w])
    <3>1. p \in NodeIds \cup {0} /\ p = Above(req[w])
      BY <1>1, ChainEnds DEF Parent, Above
    <3>2. name \in Names
      BY <1>1 DEF Informed, Progress
    <3> QED BY <2>1, <3>1, <3>2 DEF MetaNode
  <2>3. /\ n \in NodeIds /\ node[n] = None /\ node'[n] = row
        /\ \A m \in NodeIds : node[m] # None => node'[m] # None
    BY <1>3, <2>1, FreshFacts DEF ScanInv, Types, RowsTyped
  <2>4. Forest' /\ TreeStep
    BY <1>3, <2>1, <2>2, Planted DEF ScanInv
  <2>5. PICK q : q = req[w]
    OBVIOUS
  <2>6. Informed(q)' /\ q \in Progress /\ q.pc = "create"
    BY <1>1, <2>4, <2>5, InformedKept DEF ScanInv
  <2>7. PICK r : r = [q EXCEPT !.id = n, !.pc = "update"]
    OBVIOUS
  <2>8. r \in Progress
    BY <2>3, <2>6, <2>7 DEF Progress
  <2>9. /\ r.pc = "update" /\ r.own = q.own /\ r.at = q.at /\ r.chain = q.chain
        /\ r.segs = q.segs /\ r.obj = q.obj /\ r.id = n
    BY <2>6, <2>7 DEF Progress
  <2>10. row # None
    BY <2>2, ConstantsAssumption DEF ConstantsAssumption
  <2>11. node'[n].parent = Above(r) /\ node'[n].name = Head(r.segs) /\ node'[n] # None
    BY <2>2, <2>3, <2>5, <2>9, <2>10 DEF Above
  <2>12. Informed(r)'
    BY <2>3, <2>6, <2>9, <2>11 DEF Informed, Above
  <2>13. req' = [req EXCEPT ![w] = r]
    BY <1>3, <2>5, <2>7 DEF Set
  <2>14. ItemsInPlace' /\ items' \in SUBSET MetaItem /\ ItemsUnique'
    <3>1. \A i \in items : node'[i.node] # None
      BY <2>3 DEF ScanInv, Types, MetaItem, ItemsInPlace
    <3> QED BY <1>1, <2>4, <3>1, ItemKept DEF ItemsInPlace, ItemsUnique, ScanInv, Types
  <2> QED BY <1>1, <2>4, <2>8, <2>12, <2>13, <2>14, Move
<1> QED BY <1>2, <1>3 DEF UpsertCreate

\* A chain with one more node.
LEMMA ChainAppend ==
  ASSUME NEW chain \in Seq(NodeIds), NEW n \in NodeIds
  PROVE  /\ Append(chain, n) \in Seq(NodeIds) /\ Append(chain, n) # <<>>
         /\ Last(Append(chain, n)) = n
         /\ Append(chain, n)[1] = IF chain = <<>> THEN n ELSE chain[1]
         /\ Range(Append(chain, n)) \subseteq Range(chain) \cup {n}
<1>1. /\ Len(chain) \in Nat /\ Append(chain, n) \in Seq(NodeIds)
      /\ Len(Append(chain, n)) = Len(chain) + 1
      /\ \A i \in 1 .. Len(chain) : Append(chain, n)[i] = chain[i]
      /\ Append(chain, n)[Len(chain) + 1] = n
      /\ DOMAIN chain = 1 .. Len(chain) /\ DOMAIN Append(chain, n) = 1 .. (Len(chain) + 1)
  OBVIOUS
<1>2. chain = <<>> <=> Len(chain) = 0
  OBVIOUS
<1> QED BY <1>1, <1>2 DEF Last, Range

\* One segment more is behind a request, one less before it.
LEMMA PassSegment ==
  ASSUME NEW s \in Seq(Names), NEW t \in Seq(Names), t # <<>>
  PROVE  /\ Append(s, Head(t)) \o Tail(t) = s \o t
         /\ Head(t) \in Names /\ Tail(t) \in Seq(Names)
         /\ Len(t) > 1 <=> Tail(t) # <<>>
         /\ Tail(t) = <<>> => Append(s, Head(t)) = s \o t
<1>1. /\ Len(s) \in Nat /\ Len(t) \in Nat /\ Len(t) > 0
      /\ Head(t) \in Names /\ Tail(t) \in Seq(Names) /\ Len(Tail(t)) = Len(t) - 1
      /\ Head(t) = t[1] /\ \A i \in 1 .. Len(t) - 1 : Tail(t)[i] = t[i + 1]
  OBVIOUS
<1>2. /\ Append(s, Head(t)) \in Seq(Names) /\ Len(Append(s, Head(t))) = Len(s) + 1
      /\ \A i \in 1 .. Len(s) : Append(s, Head(t))[i] = s[i]
      /\ Append(s, Head(t))[Len(s) + 1] = t[1]
  BY <1>1
<1>3. Append(s, Head(t)) \o Tail(t) = s \o t
  <2> DEFINE a == Append(s, Head(t)) \o Tail(t)
             b == s \o t
  <2>1. /\ a \in Seq(Names) /\ Len(a) = Len(s) + Len(t)
        /\ \A i \in 1 .. Len(s) + Len(t) : a[i] =
              IF i <= Len(s) + 1 THEN Append(s, Head(t))[i] ELSE Tail(t)[i - (Len(s) + 1)]
    BY <1>1, <1>2
  <2>2. /\ b \in Seq(Names) /\ Len(b) = Len(s) + Len(t)
        /\ \A i \in 1 .. Len(s) + Len(t) : b[i] = IF i <= Len(s) THEN s[i] ELSE t[i - Len(s)]
    BY <1>1
  <2> HIDE DEF a, b
  <2>3. \A i \in 1 .. Len(s) + Len(t) : a[i] = b[i]
    <3> SUFFICES ASSUME NEW i \in 1 .. Len(s) + Len(t) PROVE a[i] = b[i]
      OBVIOUS
    <3>1. CASE i <= Len(s)
      BY <1>1, <1>2, <2>1, <2>2, <3>1
    <3>2. CASE i = Len(s) + 1
      BY <1>1, <1>2, <2>1, <2>2, <3>2
    <3>3. CASE i > Len(s) + 1
      <4>1. /\ i - (Len(s) + 1) \in 1 .. Len(t) - 1
            /\ i - (Len(s) + 1) + 1 = i - Len(s)
        BY <1>1, <3>3
      <4>2. Tail(t)[i - (Len(s) + 1)] = t[i - Len(s)]
        BY <1>1, <4>1
      <4> QED BY <1>1, <2>1, <2>2, <3>3, <4>2
    <3> QED BY <1>1, <3>1, <3>2, <3>3
  <2>4. a = b
    BY <1>1, <2>1, <2>2, <2>3, SameSequence
  <2> QED BY <2>4 DEF a, b
<1>4. Tail(t) = <<>> => Append(s, Head(t)) \o Tail(t) = Append(s, Head(t))
  <2>1. \A a \in Seq(Names) : a \o <<>> = a
    OBVIOUS
  <2>2. Append(s, Head(t)) \in Seq(Names)
    BY <1>2
  <2> QED BY <2>1, <2>2
<1>5. Len(t) > 1 <=> Tail(t) # <<>>
  <2>1. \A a \in Seq(Names) : a = <<>> <=> Len(a) = 0
    OBVIOUS
  <2>2. Tail(t) = <<>> <=> Len(Tail(t)) = 0
    BY <1>1, <2>1
  <2>3. Len(Tail(t)) = Len(t) - 1 /\ Len(t) \in Nat /\ Len(t) > 0
    BY <1>1
  <2> QED BY <2>2, <2>3
<1> QED BY <1>1, <1>3, <1>4, <1>5

\* The statistics of a request with one node more.
LEMMA AggregateTyped ==
  ASSUME NEW s \in UNION {[D -> Nat] : D \in SUBSET NodeIds}, NEW n \in NodeIds
  PROVE  Aggregate(s, n) \in UNION {[D -> Nat] : D \in SUBSET NodeIds}
<1>1. PICK D \in SUBSET NodeIds : s \in [D -> Nat]
  OBVIOUS
<1>2. Aggregate(s, n) \in [D \cup {n} -> Nat] /\ D \cup {n} \in SUBSET NodeIds
  BY <1>1 DEF Aggregate
<1> QED BY <1>2

\* The row of the last node of a chain and its segments, when one is upserted.
LEMMA NextSegment ==
  ASSUME Forest, NEW q \in Progress, Informed(q), q.pc = "update",
         q.chain # <<>>, q.obj # None, node[q.id] # None
  PROVE  Segments[q.id] \o Tail(q.segs) = <<q.at[1]>> \o Front(q.obj.rel)
         /\ (Tail(q.segs) = <<>> => Segments[q.id] = <<q.at[1]>> \o Front(q.obj.rel))
<1>1. /\ q.id \in NodeIds /\ q.segs \in Seq(Names) /\ q.segs # <<>>
      /\ node[q.id].parent = Last(q.chain) /\ node[q.id].name = Head(q.segs)
  BY DEF Informed, Above, Progress
<1>2. Last(q.chain) \in NodeIds /\ Last(q.chain) # 0
  BY ChainEnds, ConstantsAssumption DEF ConstantsAssumption
<1>3. node[Last(q.chain)] # None
  BY <1>1, <1>2 DEF Forest, TreeSound, Rows
<1>4. Segments[Last(q.chain)] \o q.segs = <<q.at[1]>> \o Front(q.obj.rel)
  BY <1>3 DEF Informed
<1>5. /\ Segments[q.id] = Append(Segments[Last(q.chain)], Head(q.segs))
      /\ Segments[Last(q.chain)] \in Seq(Names)
  BY <1>1, <1>2, SegmentsExist DEF SegmentsDefined
<1> QED BY <1>1, <1>4, <1>5, PassSegment

LEMMA SafeUpsertUpdate == ASSUME ScanInv, NEW w \in Requests, UpsertUpdate(w) PROVE ScanInv'
<1>1. /\ req[w] \in Progress /\ Informed(req[w]) /\ Holds(req[w]) \cap FreshIds = {}
      /\ req[w].pc = "update" /\ UNCHANGED <<store, view, items>>
  BY Before DEF UpsertUpdate, envVars
<1>2. PICK q : q = req[w]
  OBVIOUS
<1>3. q \in Progress /\ Informed(q) /\ Holds(q) \cap FreshIds = {} /\ q.pc = "update"
  BY <1>1, <1>2
<1> DEFINE n == q.id
           top == q.chain = <<>>
           b == q.at[1]
           pc == IF top THEN "reset"
                 ELSE IF Len(q.segs) > 1 THEN "upsert"
                 ELSE IF q.obj # None THEN "item" ELSE "meta"
           own == [q.own EXCEPT ![b] = IF top THEN n ELSE @]
           stat == IF top THEN q.stat ELSE Aggregate(q.stat, n)
<1>4. /\ n \in NodeIds /\ q.segs \in Seq(Names) /\ q.segs # <<>> /\ q.chain \in Seq(NodeIds)
      /\ q.at \in Paths /\ b \in Buckets /\ q.own \in [Buckets -> NodeIds \cup {0}]
      /\ top => TopOf(n, b)
  BY <1>3, PathsOf DEF Informed, Progress, Above, TopOf, Rows
<1>5. Forest' /\ TreeStep /\ \A m \in NodeIds : node[m] # None => node'[m] # None
  <2>1. node' = [node EXCEPT ![n] = IF @ = None THEN @ ELSE [@ EXCEPT !.pathed = TRUE]]
    BY <1>2 DEF UpsertUpdate
  <2>2. node \in [NodeIds -> MetaNode \cup {None}]
    BY DEF ScanInv, Types, RowsTyped
  <2>3. ASSUME NEW row \in MetaNode
        PROVE  /\ [row EXCEPT !.pathed = TRUE] \in MetaNode
               /\ [row EXCEPT !.pathed = TRUE].parent = row.parent
               /\ [row EXCEPT !.pathed = TRUE].name = row.name
    BY DEF MetaNode
  <2>4. \A row \in MetaNode : row # None
    BY ConstantsAssumption DEF ConstantsAssumption
  <2>5. ASSUME NEW m \in NodeIds
        PROVE  /\ node'[m] \in MetaNode \cup {None}
               /\ node'[m] = None <=> node[m] = None
               /\ node[m] # None => SameShape(m)
    BY <2>1, <2>2, <2>3, <2>4 DEF SameShape
  <2>6. RowsTyped'
    BY <2>1, <2>2, <2>5 DEF RowsTyped
  <2> QED BY <2>5, <2>6, Touched DEF ScanInv
<1>6. PICK r : r = [q EXCEPT !.chain = Append(@, n), !.segs = Tail(@), !.id = 0,
                             !.own = own, !.stat = stat, !.pc = pc]
  OBVIOUS
<1>7. req' = [req EXCEPT ![w] = r]
  <2>1. Set(w, [q EXCEPT
                  !.chain = Append(@, n), !.segs = Tail(@), !.id = 0,
                  !.own[b] = IF top THEN n ELSE @,
                  !.stat = IF top THEN @ ELSE Aggregate(@, n), !.pc = pc])
    BY <1>2 DEF UpsertUpdate
  <2>2. [q EXCEPT !.chain = Append(@, n), !.segs = Tail(@), !.id = 0,
                  !.own[b] = IF top THEN n ELSE @,
                  !.stat = IF top THEN @ ELSE Aggregate(@, n), !.pc = pc] = r
    BY <1>3, <1>6 DEF Progress
  <2> QED BY <2>1, <2>2 DEF Set
<1>20. /\ pc \in {"reset", "upsert", "item", "meta"}
       /\ pc = "upsert" => ~top /\ Len(q.segs) > 1
       /\ pc = "item" => ~top /\ ~(Len(q.segs) > 1) /\ q.obj # None
  OBVIOUS
<1>21. stat \in UNION {[D -> Nat] : D \in SUBSET NodeIds}
  <2>1. q.stat \in UNION {[D -> Nat] : D \in SUBSET NodeIds}
    BY <1>3 DEF Progress
  <2>2. Aggregate(q.stat, n) \in UNION {[D -> Nat] : D \in SUBSET NodeIds}
    BY <1>4, <2>1, AggregateTyped
  <2> QED BY <2>1, <2>2, Zenon
<1>22. /\ own \in [Buckets -> NodeIds \cup {0}] /\ own[b] = IF top THEN n ELSE q.own[b]
       /\ \A c \in Buckets \ {b} : own[c] = q.own[c]
  BY <1>4
<1>8. Append(q.chain, n) \in Seq(NodeIds) /\ Tail(q.segs) \in Seq(Names)
  BY <1>4, ChainAppend
<1> HIDE DEF own, stat, pc
<1>9. r \in Progress
  <2>1. pc \in PCs
    BY <1>20
  <2>2. 0 \in NodeIds \cup {0}
    OBVIOUS
  <2> HIDE DEF PCs, ActivePCs
  <2> QED BY <1>3, <1>6, <1>8, <1>21, <1>22, <2>1, <2>2 DEF Progress
<1>10. /\ r.pc = pc /\ r.chain = Append(q.chain, n) /\ r.segs = Tail(q.segs) /\ r.id = 0
       /\ r.own = own /\ r.at = q.at /\ r.obj = q.obj
  BY <1>3, <1>6 DEF Progress
<1>11. /\ r.chain # <<>> /\ Last(r.chain) = n
       /\ r.chain[1] = IF top THEN n ELSE q.chain[1]
       /\ Range(r.chain) \subseteq Range(q.chain) \cup {n}
  BY <1>4, <1>10, ChainAppend
<1>12. Informed(r)
  <2>1. \A c \in Buckets : r.own[c] # 0 => TopOf(r.own[c], c)
    BY <1>3, <1>4, <1>22, <1>10 DEF Informed
  <2>2. TopOf(r.chain[1], r.at[1])
    BY <1>3, <1>4, <1>10, <1>11 DEF Informed
  <2>3. ASSUME r.pc \in UpsertPCs
        PROVE  /\ r.segs # <<>>
               /\ r.obj # None /\ node[Last(r.chain)] # None =>
                     Segments[Last(r.chain)] \o r.segs = <<r.at[1]>> \o Front(r.obj.rel)
    <3>1. ~top /\ Len(q.segs) > 1
      BY <1>10, <1>20, <2>3
    <3> QED BY <1>3, <1>4, <1>10, <1>11, <3>1, NextSegment, PassSegment DEF ScanInv
  <2>4. ASSUME r.pc \in ItemPCs
        PROVE  /\ r.obj \in Entries
               /\ node[Last(r.chain)] # None =>
                     Segments[Last(r.chain)] = <<r.at[1]>> \o Front(r.obj.rel)
    <3>1. ~top /\ ~(Len(q.segs) > 1) /\ q.obj # None
      BY <1>10, <1>20, <2>4
    <3>2. q.obj \in Entries /\ Tail(q.segs) = <<>>
      BY <1>3, <1>4, <3>1, PassSegment DEF Progress
    <3> QED BY <1>3, <1>10, <1>11, <3>1, <3>2, NextSegment DEF ScanInv
  <2>5. r.at \in Paths /\ r.pc # "update"
    BY <1>4, <1>10, <1>20
  <2> QED BY <1>11, <2>1, <2>2, <2>3, <2>4, <2>5 DEF Informed
<1>13. Holds(r) \cap FreshIds = {}
  <2>1. Range(own) \subseteq Range(q.own) \cup {n}
    BY <1>4, <1>22 DEF Range
  <2>2. Holds(r) \subseteq Holds(q) \cup {0}
    BY <1>10, <1>11, <2>1 DEF Holds
  <2>3. 0 \notin FreshIds
    BY FreshFacts, ConstantsAssumption DEF ConstantsAssumption
  <2> QED BY <1>3, <2>2, <2>3
<1>14. items' \subseteq items /\ \A i \in items' : node'[i.node] # None
  BY <1>1, <1>5 DEF ScanInv, ItemsInPlace, Types, MetaItem
<1> QED BY <1>1, <1>5, <1>7, <1>9, <1>12, <1>13, <1>14, MoveOn

\* A step that changes only the state, the count or the path of one row.
LEMMA RowTouched ==
  ASSUME ScanInv, NEW n \in NodeIds, NEW row \in MetaNode \cup {None},
         node' = [node EXCEPT ![n] = row], row = None <=> node[n] = None,
         node[n] # None => row.parent = node[n].parent /\ row.name = node[n].name
  PROVE  Forest' /\ TreeStep /\ \A m \in NodeIds : node[m] # None => node'[m] # None
<1>1. node \in [NodeIds -> MetaNode \cup {None}]
  BY DEF ScanInv, Types, RowsTyped
<1>2. ASSUME NEW m \in NodeIds
      PROVE  /\ node'[m] = None <=> node[m] = None
             /\ node[m] # None => SameShape(m)
  BY <1>1 DEF SameShape
<1>3. RowsTyped'
  BY <1>1 DEF RowsTyped
<1> QED BY <1>2, <1>3, Touched DEF ScanInv

\* A request that goes on with its path.
LEMMA Onward ==
  ASSUME NEW q \in Progress, Informed(q), Holds(q) \cap FreshIds = {}, q.pc \in OwnerPCs,
         NEW p \in {"delnodes", "delitems", "meta"}, NEW r, r = [q EXCEPT !.pc = p]
  PROVE  r \in Progress /\ Informed(r) /\ Holds(r) \cap FreshIds = {}
<1>1. r \in Progress
  BY DEF Progress
<1>2. /\ r.pc = p /\ r.own = q.own /\ r.at = q.at /\ r.chain = q.chain
      /\ r.segs = q.segs /\ r.obj = q.obj /\ r.id = q.id
  BY DEF Progress
<1> QED BY <1>1, <1>2 DEF Informed, Holds

LEMMA SafeResetBucket == ASSUME ScanInv, NEW w \in Requests, ResetBucket(w) PROVE ScanInv'
<1>1. PICK q : q = req[w]
  OBVIOUS
<1>2. /\ q \in Progress /\ Informed(q) /\ Holds(q) \cap FreshIds = {}
      /\ q.pc = "reset" /\ UNCHANGED <<store, view, items>>
  BY <1>1, Before DEF ResetBucket, envVars
<1>3. PICK r : r = [q EXCEPT !.pc = "delnodes"]
  OBVIOUS
<1>4. r \in Progress /\ Informed(r) /\ Holds(r) \cap FreshIds = {}
  BY <1>2, <1>3, Onward
<1>5. req' = [req EXCEPT ![w] = r]
  BY <1>1, <1>3 DEF ResetBucket, Goto, Set
<1>6. PICK n : n = q.chain[1]
  OBVIOUS
<1>7. n \in NodeIds /\ node[n] # None /\ node[n] \in MetaNode
  BY <1>2, <1>6 DEF Informed, TopOf, Rows, ScanInv, Types, RowsTyped
<1>8. PICK row : row = [node[n] EXCEPT !.status = Scanning]
  OBVIOUS
<1>9. row \in MetaNode /\ row.parent = node[n].parent /\ row.name = node[n].name
  BY <1>7, <1>8 DEF MetaNode
<1>10. row # None
  BY <1>9, ConstantsAssumption DEF ConstantsAssumption
<1>11. node' = [node EXCEPT ![n] = row]
  BY <1>1, <1>6, <1>8 DEF ResetBucket
<1>12. Forest' /\ TreeStep /\ \A m \in NodeIds : node[m] # None => node'[m] # None
  BY <1>7, <1>9, <1>10, <1>11, RowTouched
<1>13. items' \subseteq items /\ \A i \in items' : node'[i.node] # None
  BY <1>2, <1>12 DEF ScanInv, ItemsInPlace, Types, MetaItem
<1> QED BY <1>2, <1>4, <1>5, <1>12, <1>13, MoveOn

LEMMA SafeDeleteDescendants ==
  ASSUME ScanInv, NEW w \in Requests, DeleteDescendants(w) PROVE ScanInv'
<1>1. PICK q : q = req[w]
  OBVIOUS
<1>2. /\ q \in Progress /\ Informed(q) /\ Holds(q) \cap FreshIds = {}
      /\ q.pc = "delnodes" /\ UNCHANGED <<store, view>>
  BY <1>1, Before DEF DeleteDescendants, envVars
<1>3. PICK r : r = [q EXCEPT !.pc = "delitems"]
  OBVIOUS
<1>4. r \in Progress /\ Informed(r) /\ Holds(r) \cap FreshIds = {}
  BY <1>2, <1>3, Onward
<1>5. req' = [req EXCEPT ![w] = r]
  BY <1>1, <1>3 DEF DeleteDescendants, Goto, Set
<1>6. PICK b : b = q.chain[1]
  OBVIOUS
<1>7. PICK gone : gone = Descendants(b)
  OBVIOUS
<1>8. /\ node' = [n \in NodeIds |-> IF n \in gone THEN None ELSE node[n]]
      /\ items' = {i \in items : i.node \notin gone}
  BY <1>1, <1>6, <1>7 DEF DeleteDescendants
<1>9. PICK named : /\ named = {n \in Rows \ {b} : node[n].pathed /\ b \in IdPath[n]}
                   /\ gone = {n \in Rows : IdPath[n] \cap named # {}}
  BY <1>7 DEF Descendants
<1>10. IdPathDefined
  BY IdPathExists DEF ScanInv
<1>11. RowsTyped'
  BY <1>8 DEF RowsTyped, ScanInv, Types
<1>12. ASSUME NEW n \in NodeIds, node[n] # None, node[n].parent = 0 PROVE node'[n] # None
  <2>1. IdPath[n] = {n}
    BY <1>10, <1>12 DEF IdPathDefined
  <2>2. n \notin gone
    BY <1>9, <2>1
  <2> QED BY <1>8, <1>12, <2>2
<1>13. ASSUME NEW n \in NodeIds, node'[n] # None, node[n].parent # 0
       PROVE  node'[node[n].parent] # None
  <2>1. n \notin gone /\ node[n] # None /\ n \in Rows
    BY <1>8, <1>13 DEF Rows
  <2>2. node[n].parent \in NodeIds /\ node[node[n].parent] # None
    BY <1>13, <2>1, RowFields DEF ScanInv, Forest, TreeSound
  <2>3. IdPath[n] = IdPath[node[n].parent] \cup {n}
    BY <1>10, <1>13, <2>1 DEF IdPathDefined
  <2>4. node[n].parent \notin gone
    BY <1>9, <2>1, <2>3
  <2> QED BY <1>8, <2>2, <2>4
<1>14. Forest' /\ TreeStep
  BY <1>8, <1>11, <1>12, <1>13, Pruned DEF ScanInv
<1>15. items' \subseteq items /\ \A i \in items' : node'[i.node] # None
  BY <1>8 DEF ScanInv, ItemsInPlace, Types, MetaItem
<1> QED BY <1>2, <1>4, <1>5, <1>14, <1>15, MoveOn

LEMMA SafeDeleteBucketItems ==
  ASSUME ScanInv, NEW w \in Requests, DeleteBucketItems(w) PROVE ScanInv'
<1>1. PICK q : q = req[w]
  OBVIOUS
<1>2. /\ q \in Progress /\ Informed(q) /\ Holds(q) \cap FreshIds = {}
      /\ q.pc = "delitems" /\ UNCHANGED <<store, view, node>> /\ items' \subseteq items
  BY <1>1, Before DEF DeleteBucketItems, envVars
<1>3. PICK r : r = [q EXCEPT !.pc = "meta"]
  OBVIOUS
<1>4. r \in Progress /\ Informed(r) /\ Holds(r) \cap FreshIds = {}
  BY <1>2, <1>3, Onward
<1>5. req' = [req EXCEPT ![w] = r]
  BY <1>1, <1>3 DEF DeleteBucketItems, Goto, Set
<1> QED BY <1>2, <1>4, <1>5, MoveOnly

LEMMA SafeFinalize == ASSUME ScanInv, NEW w \in Requests, Finalize(w) PROVE ScanInv'
<1>1. PICK q : q = req[w]
  OBVIOUS
<1>2. /\ q \in Progress /\ Informed(q) /\ Holds(q) \cap FreshIds = {}
      /\ q.pc = "final" /\ UNCHANGED <<store, view, items>>
  BY <1>1, Before DEF Finalize, envVars
<1>3. PICK left : left = ToFinalize(w)
  OBVIOUS
<1>4. DOMAIN left \in SUBSET NodeIds /\ \A n \in DOMAIN left : left[n] \in Nat
  <2>1. PICK D \in SUBSET NodeIds : q.stat \in [D -> Nat]
    BY <1>2 DEF Progress
  <2>2. Range(q.own) \ {0} \in SUBSET NodeIds
    BY <1>2 DEF Progress, Range
  <2>3. left = [n \in D \cup (Range(q.own) \ {0}) |-> IF n \in D THEN q.stat[n] ELSE 0]
    BY <1>1, <1>3, <2>1 DEF ToFinalize
  <2> QED BY <2>1, <2>2, <2>3
<1>5. CASE Set(w, Fresh(IF q.auto THEN "path" ELSE "done", q.auto, q.todo)) /\ UNCHANGED node
  <2>1. PICK r : r = Fresh(IF q.auto THEN "path" ELSE "done", q.auto, q.todo)
    OBVIOUS
  <2>2. r \in Progress /\ Informed(r) /\ Holds(r) \cap FreshIds = {}
    BY <1>2, <2>1, FreshProgress DEF Progress
  <2>3. req' = [req EXCEPT ![w] = r]
    BY <1>5, <2>1 DEF Set
  <2> QED BY <1>2, <1>5, <2>2, <2>3, MoveOnly
<1>6. ASSUME NEW n \in DOMAIN left,
             node' = [node EXCEPT ![n] =
                       IF @ = None THEN @
                       ELSE [@ EXCEPT !.status = Scanned, !.count = left[n]]],
             Set(w, [req[w] EXCEPT
                        !.own = [b \in Buckets |-> 0],
                        !.stat = [m \in DOMAIN left \ {n} |-> left[m]]])
      PROVE  ScanInv'
  <2>1. PICK own, stat : /\ own = [b \in Buckets |-> 0]
                         /\ stat = [m \in DOMAIN left \ {n} |-> left[m]]
    OBVIOUS
  <2>2. /\ own \in [Buckets -> NodeIds \cup {0}] /\ Range(own) \subseteq {0}
        /\ \A b \in Buckets : own[b] = 0
    BY <2>1 DEF Range
  <2>3. stat \in UNION {[D -> Nat] : D \in SUBSET NodeIds}
    <3>1. stat \in [DOMAIN left \ {n} -> Nat] /\ DOMAIN left \ {n} \in SUBSET NodeIds
      BY <1>4, <2>1
    <3> QED BY <3>1
  <2>4. PICK r : r = [q EXCEPT !.own = own, !.stat = stat]
    OBVIOUS
  <2>5. r \in Progress
    BY <1>2, <2>2, <2>3, <2>4 DEF Progress
  <2>6. r.pc = "final" /\ r.own = own /\ r.chain = q.chain /\ r.id = q.id
    BY <1>2, <2>4 DEF Progress
  <2>7. Informed(r)
    BY <2>2, <2>6 DEF Informed
  <2>8. Holds(r) \cap FreshIds = {}
    <3>1. Holds(r) \subseteq Holds(q) \cup {0}
      BY <2>2, <2>6 DEF Holds
    <3>2. 0 \notin FreshIds
      BY FreshFacts, ConstantsAssumption DEF ConstantsAssumption
    <3> QED BY <1>2, <3>1, <3>2
  <2>9. req' = [req EXCEPT ![w] = r]
    BY <1>1, <1>6, <2>1, <2>4 DEF Set
  <2>10. PICK row : row = IF node[n] = None THEN None
                          ELSE [node[n] EXCEPT !.status = Scanned, !.count = left[n]]
    OBVIOUS
  <2>11. n \in NodeIds /\ left[n] \in Nat /\ node[n] \in MetaNode \cup {None}
    BY <1>4, <1>6 DEF ScanInv, Types, RowsTyped
  <2>12. node[n] # None =>
            row \in MetaNode /\ row.parent = node[n].parent /\ row.name = node[n].name
    BY <2>10, <2>11 DEF MetaNode
  <2>13. row \in MetaNode \cup {None} /\ (row = None <=> node[n] = None)
    BY <2>10, <2>12, ConstantsAssumption DEF ConstantsAssumption
  <2>14. node' = [node EXCEPT ![n] = row]
    BY <1>6, <2>10
  <2>15. Forest' /\ TreeStep /\ \A m \in NodeIds : node[m] # None => node'[m] # None
    BY <2>11, <2>12, <2>13, <2>14, RowTouched
  <2>16. items' \subseteq items /\ \A i \in items' : node'[i.node] # None
    BY <1>2, <2>15 DEF ScanInv, ItemsInPlace, Types, MetaItem
  <2> QED BY <1>2, <2>5, <2>7, <2>8, <2>9, <2>15, <2>16, MoveOn
<1> QED BY <1>1, <1>3, <1>5, <1>6 DEF Finalize

\* A sequence is its front and its last element.
LEMMA FrontThenLast ==
  ASSUME NEW s \in Seq(Names), s # <<>>
  PROVE  Front(s) \in Seq(Names) /\ Front(s) \o <<Last(s)>> = s
<1>1. /\ Len(s) \in Nat /\ Len(s) > 0 /\ s[Len(s)] \in Names
      /\ Front(s) \in Seq(Names) /\ Len(Front(s)) = Len(s) - 1
      /\ \A i \in 1 .. Len(s) - 1 : Front(s)[i] = s[i]
      /\ Last(s) = s[Len(s)]
  BY FrontOf
<1> DEFINE f == Front(s)
           l == Last(s)
<1> HIDE DEF f, l
<1>2. f \in Seq(Names) /\ Len(f) = Len(s) - 1 /\ l \in Names
      /\ \A i \in 1 .. Len(s) - 1 : f[i] = s[i]
  BY <1>1 DEF f, l
<1>3. /\ f \o <<l>> \in Seq(Names) /\ Len(f \o <<l>>) = Len(s)
      /\ \A i \in 1 .. Len(s) : (f \o <<l>>)[i] = IF i <= Len(f) THEN f[i] ELSE <<l>>[i - Len(f)]
  BY <1>1, <1>2
<1>4. \A i \in 1 .. Len(s) : (f \o <<l>>)[i] = s[i]
  BY <1>1, <1>2, <1>3 DEF l
<1>5. f \o <<l>> = s
  BY <1>3, <1>4, SameSequence
<1> QED BY <1>1, <1>5 DEF f, l

\* Concatenation is associative.
LEMMA Associative ==
  ASSUME NEW a \in Seq(Names), NEW b \in Seq(Names), NEW c \in Seq(Names)
  PROVE  (a \o b) \o c = a \o (b \o c)
<1>1. Len(a) \in Nat /\ Len(b) \in Nat /\ Len(c) \in Nat
  OBVIOUS
<1>2. /\ a \o b \in Seq(Names) /\ Len(a \o b) = Len(a) + Len(b)
      /\ \A i \in 1 .. Len(a) + Len(b) : (a \o b)[i] = IF i <= Len(a) THEN a[i] ELSE b[i - Len(a)]
  OBVIOUS
<1>3. /\ b \o c \in Seq(Names) /\ Len(b \o c) = Len(b) + Len(c)
      /\ \A i \in 1 .. Len(b) + Len(c) : (b \o c)[i] = IF i <= Len(b) THEN b[i] ELSE c[i - Len(b)]
  OBVIOUS
<1> DEFINE ab == a \o b
           bc == b \o c
<1>4. /\ ab \o c \in Seq(Names) /\ Len(ab \o c) = Len(a) + Len(b) + Len(c)
      /\ \A i \in 1 .. Len(a) + Len(b) + Len(c) :
            (ab \o c)[i] = IF i <= Len(a) + Len(b) THEN ab[i] ELSE c[i - (Len(a) + Len(b))]
  <2> HIDE DEF ab
  <2>1. ab \in Seq(Names) /\ Len(ab) = Len(a) + Len(b)
    BY <1>2 DEF ab
  <2>2. Len(ab \o c) = Len(ab) + Len(c) /\ ab \o c \in Seq(Names)
    BY <2>1, Concatenation
  <2>3. ASSUME NEW i \in 1 .. Len(a) + Len(b) + Len(c)
        PROVE  (ab \o c)[i] = IF i <= Len(a) + Len(b) THEN ab[i] ELSE c[i - (Len(a) + Len(b))]
    <3>1. i \in 1 .. Len(ab) + Len(c)
      BY <1>1, <2>1
    <3>2. (ab \o c)[i] = IF i <= Len(ab) THEN ab[i] ELSE c[i - Len(ab)]
      BY <2>1, <3>1, Concatenation
    <3> QED BY <2>1, <3>2
  <2> QED BY <1>1, <2>1, <2>2, <2>3
<1>5. /\ a \o bc \in Seq(Names) /\ Len(a \o bc) = Len(a) + Len(b) + Len(c)
      /\ \A i \in 1 .. Len(a) + Len(b) + Len(c) :
            (a \o bc)[i] = IF i <= Len(a) THEN a[i] ELSE bc[i - Len(a)]
  <2> HIDE DEF bc
  <2>1. bc \in Seq(Names) /\ Len(bc) = Len(b) + Len(c)
    BY <1>3 DEF bc
  <2>2. Len(a \o bc) = Len(a) + Len(bc) /\ a \o bc \in Seq(Names)
    BY <2>1, Concatenation
  <2>3. ASSUME NEW i \in 1 .. Len(a) + Len(b) + Len(c)
        PROVE  (a \o bc)[i] = IF i <= Len(a) THEN a[i] ELSE bc[i - Len(a)]
    <3>1. i \in 1 .. Len(a) + Len(bc)
      BY <1>1, <2>1
    <3> QED BY <2>1, <3>1, Concatenation
  <2> QED BY <1>1, <2>1, <2>2, <2>3
<1>6. ASSUME NEW i \in 1 .. Len(a) + Len(b) + Len(c) PROVE (ab \o c)[i] = (a \o bc)[i]
  <2>1. CASE i <= Len(a)
    <3>1. (ab \o c)[i] = ab[i] /\ ab[i] = a[i]
      <4>1. (ab \o c)[i] = ab[i]
        BY <1>1, <1>4, <2>1
      <4>2. (a \o b)[i] = a[i]
        BY <1>1, <1>2, <2>1
      <4> QED BY <4>1, <4>2 DEF ab
    <3>2. (a \o bc)[i] = a[i]
      BY <1>1, <1>5, <2>1
    <3> QED BY <3>1, <3>2
  <2>2. CASE i > Len(a) /\ i <= Len(a) + Len(b)
    <3>1. (ab \o c)[i] = ab[i] /\ ab[i] = b[i - Len(a)]
      <4>1. (ab \o c)[i] = ab[i]
        BY <1>1, <1>4, <2>2
      <4>2. (a \o b)[i] = b[i - Len(a)]
        BY <1>1, <1>2, <2>2
      <4> QED BY <4>1, <4>2 DEF ab
    <3>2. (a \o bc)[i] = bc[i - Len(a)]
      BY <1>1, <1>5, <2>2
    <3>3. (b \o c)[i - Len(a)] = b[i - Len(a)]
      BY <1>1, <1>3, <2>2
    <3> QED BY <3>1, <3>2, <3>3 DEF bc
  <2>3. CASE i > Len(a) + Len(b)
    <3>1. (ab \o c)[i] = c[i - (Len(a) + Len(b))]
      BY <1>1, <1>4, <2>3
    <3>2. (a \o bc)[i] = bc[i - Len(a)]
      BY <1>1, <1>5, <2>3
    <3>3. (b \o c)[i - Len(a)] = c[(i - Len(a)) - Len(b)]
      BY <1>1, <1>3, <2>3
    <3>4. (i - Len(a)) - Len(b) = i - (Len(a) + Len(b))
      BY <1>1
    <3> QED BY <3>1, <3>2, <3>3, <3>4 DEF bc
  <2> QED BY <1>1, <2>1, <2>2, <2>3
<1> HIDE DEF ab, bc
<1>7. ab \o c = a \o bc
  BY <1>4, <1>5, <1>6, SameSequence
<1> QED BY <1>7 DEF ab, bc

\* What a request with progress q knows when it looks its object up.
Filing(q) ==
    /\ \A c \in Buckets : q.own[c] # 0 => TopOf(q.own[c], c)
    /\ q.at \in Paths /\ q.chain # <<>> /\ TopOf(q.chain[1], q.at[1])
    /\ q.obj \in Entries
    /\ node[Last(q.chain)] # None =>
          Segments[Last(q.chain)] = <<q.at[1]>> \o Front(q.obj.rel)

LEMMA FilingOf ==
  ASSUME NEW r, Informed(r), r.pc \in ItemPCs PROVE Filing(r)
  BY DEF Informed, Filing

\* The SELECT of upsertItem.
LEMMA SafeItemSelect ==
  ASSUME ScanInv, NEW w \in Requests, NEW q \in Progress, Filing(q),
         Holds(q) \cap FreshIds = {}, ItemSelect(w, q), UNCHANGED <<store, view, node, items>>
  PROVE  ScanInv'
<1>1. PICK pc \in {"insert", "updateitem"} : Set(w, [q EXCEPT !.pc = pc])
  BY DEF ItemSelect
<1>2. PICK r : r = [q EXCEPT !.pc = pc]
  OBVIOUS
<1>3. r \in Progress
  BY <1>2 DEF Progress
<1>4. /\ r.pc = pc /\ r.own = q.own /\ r.at = q.at /\ r.chain = q.chain
      /\ r.segs = q.segs /\ r.obj = q.obj /\ r.id = q.id
  BY <1>2 DEF Progress
<1>5. Informed(r) /\ Holds(r) = Holds(q)
  BY <1>4 DEF Informed, Filing, Holds
<1>6. req' = [req EXCEPT ![w] = r]
  BY <1>1, <1>2 DEF Set
<1> QED BY <1>3, <1>5, <1>6, MoveOnly

LEMMA SafeItemRead == ASSUME ScanInv, NEW w \in Requests, ItemRead(w) PROVE ScanInv'
<1>1. PICK q : q = req[w]
  OBVIOUS
<1>2. /\ q \in Progress /\ Filing(q) /\ Holds(q) \cap FreshIds = {}
      /\ ItemSelect(w, q) /\ UNCHANGED <<store, view, node, items>>
  BY <1>1, Before, FilingOf DEF ItemRead, dbVars, envVars
<1> QED BY <1>2, SafeItemSelect

\* The chain of the next entry is the bucket's row.
LEMMA TopChain ==
  ASSUME NEW chain \in Seq(NodeIds), chain # <<>>
  PROVE  /\ SubSeq(chain, 1, 1) \in Seq(NodeIds) /\ SubSeq(chain, 1, 1) # <<>>
         /\ SubSeq(chain, 1, 1)[1] = chain[1] /\ Last(SubSeq(chain, 1, 1)) = chain[1]
         /\ Head(SubSeq(chain, 1, 1)) = chain[1]
         /\ Range(SubSeq(chain, 1, 1)) \subseteq Range(chain) /\ chain[1] \in NodeIds
<1>1. Len(chain) \in Nat /\ Len(chain) > 0 /\ DOMAIN chain = 1 .. Len(chain)
  OBVIOUS
<1>2. 1 \in 0 .. Len(chain) /\ 1 \in DOMAIN chain
  BY <1>1
<1>3. PICK s : s = SubSeq(chain, 1, 1)
  OBVIOUS
<1>4. s \in Seq(NodeIds) /\ Len(s) = 1 /\ s[1] = chain[1]
  BY <1>2, <1>3, InitialOf
<1>5. s # <<>> /\ Last(s) = chain[1] /\ Head(s) = chain[1] /\ DOMAIN s = 1 .. Len(s)
  <2>1. s # <<>> /\ DOMAIN s = 1 .. Len(s)
    <3>1. \A t \in Seq(NodeIds) : t = <<>> => Len(t) = 0
      OBVIOUS
    <3>2. \A t \in Seq(NodeIds) : DOMAIN t = 1 .. Len(t)
      OBVIOUS
    <3>3. s \in Seq(NodeIds) /\ Len(s) # 0
      BY <1>4
    <3>4. s # <<>>
      BY <3>1, <3>3, Zenon
    <3> QED BY <3>2, <3>3, <3>4, Zenon
  <2>2. Head(s) = s[1]
    BY <1>4, <2>1
  <2> QED BY <1>4, <2>1, <2>2 DEF Last
<1> QED BY <1>1, <1>2, <1>3, <1>4, <1>5 DEF Range

LEMMA SafeNextMeta == ASSUME ScanInv, NEW w \in Requests, NextMeta(w) PROVE ScanInv'
<1>1. PICK q : q = req[w]
  OBVIOUS
<1>2. /\ q \in Progress /\ Informed(q) /\ Holds(q) \cap FreshIds = {}
      /\ q.pc = "meta" /\ UNCHANGED <<store, view, node, items>>
  BY <1>1, Before DEF NextMeta, dbVars, envVars
<1>3. PICK r : r = [q EXCEPT !.obj = None, !.chain = SubSeq(@, 1, 1)]
  OBVIOUS
<1>4. q.chain \in Seq(NodeIds) /\ q.chain # <<>>
  BY <1>2 DEF Informed, Progress
<1>5. PICK n : n = q.chain[1]
  OBVIOUS
<1>6. /\ r.chain \in Seq(NodeIds) /\ r.chain # <<>> /\ r.chain[1] = n /\ Last(r.chain) = n
      /\ Head(r.chain) = n /\ Range(r.chain) \subseteq Range(q.chain) /\ n \in NodeIds
  <2>1. r.chain = SubSeq(q.chain, 1, 1)
    BY <1>2, <1>3 DEF Progress
  <2> QED BY <1>4, <1>5, <2>1, TopChain
<1>7. /\ r.pc = "meta" /\ r.own = q.own /\ r.at = q.at /\ r.id = q.id /\ r.obj = None
      /\ r.dirs = q.dirs /\ r.objs = q.objs /\ r.stat = q.stat
  BY <1>2, <1>3 DEF Progress
<1>8. r \in Progress
  BY <1>2, <1>3, <1>6, <1>7 DEF Progress
<1>9. /\ \A c \in Buckets : r.own[c] # 0 => TopOf(r.own[c], c)
      /\ r.at \in Paths /\ TopOf(n, r.at[1])
  BY <1>2, <1>4, <1>5, <1>7 DEF Informed
<1>10. Holds(r) \cap FreshIds = {}
  BY <1>2, <1>6, <1>7 DEF Holds
<1>11. Segments[n] = <<r.at[1]>> /\ r.at[1] \in Names
  BY <1>6, <1>9, SegmentsExist, PathsOf DEF SegmentsDefined, TopOf, Rows, ScanInv, Names
<1>12. ASSUME NEW d \in r.dirs, UpsertSelect(w, [r EXCEPT !.dirs = @ \ {d}, !.segs = d])
       PROVE  ScanInv'
  <2>1. PICK s : s = [r EXCEPT !.dirs = @ \ {d}, !.segs = d]
    OBVIOUS
  <2>2. d \in Seq(Names) /\ d # <<>>
    BY <1>8, <1>12 DEF Progress
  <2>3. s \in Progress
    BY <1>8, <2>1, <2>2 DEF Progress
  <2>4. /\ s.own = r.own /\ s.at = r.at /\ s.chain = r.chain /\ s.segs = d
        /\ s.obj = None /\ s.id = r.id
    BY <1>7, <1>8, <2>1 DEF Progress
  <2>5. Upserting(s) /\ Holds(s) = Holds(r)
    BY <1>6, <1>9, <2>2, <2>4 DEF Upserting, Holds
  <2> QED BY <1>2, <1>10, <1>12, <2>1, <2>3, <2>5, SafeSelect
<1>13. ASSUME NEW o \in r.objs, NEW s,
              s = [r EXCEPT !.objs = @ \ {o}, !.obj = o, !.segs = Front(o.rel)],
              IF s.segs = <<>> THEN ItemSelect(w, s) ELSE UpsertSelect(w, s)
       PROVE  ScanInv'
  <2>1. o \in Entries /\ o.rel \in Seq(Names) /\ o.rel # <<>>
    BY <1>8, <1>13 DEF Progress, Entries
  <2>2. Front(o.rel) \in Seq(Names)
    BY <2>1, FrontOf
  <2>3. s \in Progress
    BY <1>8, <1>13, <2>1, <2>2 DEF Progress
  <2>4. /\ s.own = r.own /\ s.at = r.at /\ s.chain = r.chain /\ s.segs = Front(o.rel)
        /\ s.obj = o /\ s.id = r.id
    BY <1>7, <1>8, <1>13 DEF Progress
  <2>5. Holds(s) = Holds(r)
    BY <2>4 DEF Holds
  <2>6. CASE s.segs = <<>>
    <3>1. <<s.at[1]>> \o <<>> = <<s.at[1]>>
      <4>1. <<s.at[1]>> \in Seq(Names)
        BY <1>11, <2>4
      <4> QED BY <4>1
    <3>2. Filing(s)
      BY <1>6, <1>9, <1>11, <2>1, <2>4, <2>6, <3>1 DEF Filing
    <3> QED BY <1>2, <1>10, <1>13, <2>3, <2>5, <2>6, <3>2, SafeItemSelect
  <2>7. CASE s.segs # <<>>
    <3>1. Upserting(s)
      BY <1>6, <1>9, <1>11, <2>1, <2>4, <2>7 DEF Upserting
    <3> QED BY <1>2, <1>10, <1>13, <2>3, <2>5, <2>7, <3>1, SafeSelect
  <2> QED BY <2>6, <2>7
<1>14. CASE Set(w, [r EXCEPT !.pc = PathDone(w), !.stat = Aggregate(@, n)])
  <2>1. PICK pc, stat : pc = PathDone(w) /\ stat = Aggregate(r.stat, n)
    OBVIOUS
  <2>2. stat \in UNION {[D -> Nat] : D \in SUBSET NodeIds}
    BY <1>6, <1>8, <2>1, AggregateTyped DEF Progress
  <2>3. PICK s : s = [r EXCEPT !.pc = pc, !.stat = stat]
    OBVIOUS
  <2>4. pc \in {"final", "path"}
    BY <2>1 DEF PathDone
  <2>5. s \in Progress
    BY <1>8, <2>2, <2>3, <2>4 DEF Progress
  <2>6. s.pc \in {"final", "path"} /\ s.own = r.own /\ s.chain = r.chain /\ s.id = r.id
    BY <1>8, <2>3, <2>4 DEF Progress
  <2>7. Informed(s) /\ Holds(s) = Holds(r)
    BY <1>9, <2>6 DEF Informed, Holds
  <2>8. req' = [req EXCEPT ![w] = s]
    BY <1>14, <2>1, <2>3 DEF Set
  <2> QED BY <1>2, <1>10, <2>5, <2>7, <2>8, MoveOnly
<1>15. \/ \E d \in r.dirs : UpsertSelect(w, [r EXCEPT !.dirs = @ \ {d}, !.segs = d])
       \/ \E o \in r.objs : \E s :
             /\ s = [r EXCEPT !.objs = @ \ {o}, !.obj = o, !.segs = Front(o.rel)]
             /\ IF s.segs = <<>> THEN ItemSelect(w, s) ELSE UpsertSelect(w, s)
       \/ Set(w, [r EXCEPT !.pc = PathDone(w), !.stat = Aggregate(@, n)])
  BY <1>1, <1>3, <1>6 DEF NextMeta
<1> QED BY <1>12, <1>13, <1>14, <1>15

\* The object that a request has filed counts for the nodes of its chain.
LEMMA CountedProgress ==
  ASSUME ScanInv, NEW w \in Requests, req[w].pc \in ItemPCs, Counted(w)
  PROVE  \E r \in Progress : /\ req' = [req EXCEPT ![w] = r]
                             /\ Informed(r) /\ Holds(r) \cap FreshIds = {}
<1>1. PICK q : q = req[w]
  OBVIOUS
<1>2. /\ q \in Progress /\ Informed(q) /\ Holds(q) \cap FreshIds = {} /\ q.pc \in ItemPCs
  BY <1>1, Before
<1>3. PICK D \in SUBSET NodeIds : q.stat \in [D -> Nat]
  BY <1>2 DEF Progress
<1>4. PICK stat : stat = [m \in D \cup Range(q.chain) |->
                            (IF m \in D THEN q.stat[m] ELSE 0)
                            + (IF m \in Range(q.chain) THEN 1 ELSE 0)]
  OBVIOUS
<1>5. stat \in UNION {[E -> Nat] : E \in SUBSET NodeIds}
  <2>1. Range(q.chain) \in SUBSET NodeIds
    <3>1. q.chain \in Seq(NodeIds)
      BY <1>2 DEF Progress
    <3> QED BY <3>1 DEF Range
  <2>2. stat \in [D \cup Range(q.chain) -> Nat] /\ D \cup Range(q.chain) \in SUBSET NodeIds
    BY <1>3, <1>4, <2>1
  <2> QED BY <2>2
<1>6. PICK r : r = [q EXCEPT !.pc = "meta", !.stat = stat]
  OBVIOUS
<1>7. r \in Progress
  BY <1>2, <1>5, <1>6 DEF Progress
<1>8. /\ r.pc = "meta" /\ r.own = q.own /\ r.at = q.at /\ r.chain = q.chain
      /\ r.segs = q.segs /\ r.obj = q.obj /\ r.id = q.id
  BY <1>2, <1>6 DEF Progress
<1>9. Informed(r) /\ Holds(r) = Holds(q)
  BY <1>2, <1>8 DEF Informed, Holds
<1>10. req' = [req EXCEPT ![w] = r]
  BY <1>1, <1>3, <1>4, <1>6 DEF Counted, Set
<1> QED BY <1>2, <1>7, <1>9, <1>10

\* A request that files its object, in place of a row of the same name.
LEMMA SafeFiled ==
  ASSUME ScanInv, NEW w \in Requests, req[w].pc \in ItemPCs, Counted(w),
         node[ItemRow(req[w]).node] # None, UNCHANGED <<store, view, node>>,
         NEW old \in SUBSET items, old \cap SameItem(req[w]) = {},
         items' = old \cup {ItemRow(req[w])}
  PROVE  ScanInv'
<1>1. PICK r \in Progress : /\ req' = [req EXCEPT ![w] = r]
                            /\ Informed(r) /\ Holds(r) \cap FreshIds = {}
  BY CountedProgress
<1>2. PICK q : q = req[w]
  OBVIOUS
<1>3. q \in Progress /\ Filing(q)
  BY <1>2, Before, FilingOf
<1>4. PICK i : i = ItemRow(q)
  OBVIOUS
<1>5. /\ i.node = Last(q.chain) /\ i.name = Last(q.obj.key) /\ i.rel = q.obj.rel
      /\ i.bucket = q.at[1] /\ i.key = q.obj.key
  BY <1>4 DEF ItemRow
<1>6. /\ q.obj.rel \in Seq(Names) /\ q.obj.key \in Seq(Names) /\ q.obj.rel # <<>>
      /\ q.obj.key # <<>> /\ q.obj.key \in Keys /\ Last(q.obj.rel) = Last(q.obj.key)
      /\ IsSuffix(q.obj.rel, q.obj.key) /\ q.at[1] \in Buckets /\ q.at[1] \in Names
  BY <1>3, PathsOf, ConstantsAssumption DEF Filing, Entries, Names, ConstantsAssumption
<1>7. Last(q.obj.key) \in Names
  BY <1>6 DEF Last
<1>8. i \in MetaItem
  BY <1>3, <1>4, <1>6, <1>7, ChainEnds DEF MetaItem, ItemRow, Filing
<1>9. node[i.node] # None
  BY <1>2, <1>4
<1>10. Segments[i.node] = <<q.at[1]>> \o Front(q.obj.rel)
  BY <1>3, <1>5, <1>9 DEF Filing
<1>11. Segments[i.node] \o <<i.name>> = <<i.bucket>> \o i.rel
  <2>1. Front(q.obj.rel) \in Seq(Names) /\ Front(q.obj.rel) \o <<Last(q.obj.rel)>> = q.obj.rel
    BY <1>6, FrontThenLast
  <2>2. \A a, b, c \in Seq(Names) : (a \o b) \o c = a \o (b \o c)
    BY Associative
  <2>3. <<q.at[1]>> \in Seq(Names) /\ <<Last(q.obj.rel)>> \in Seq(Names)
    BY <1>6, <1>7
  <2>4. (<<q.at[1]>> \o Front(q.obj.rel)) \o <<Last(q.obj.rel)>>
           = <<q.at[1]>> \o (Front(q.obj.rel) \o <<Last(q.obj.rel)>>)
    BY <2>1, <2>2, <2>3
  <2>5. i.name = Last(q.obj.rel)
    BY <1>5, <1>6
  <2> QED BY <1>5, <1>10, <2>1, <2>4, <2>5
<1>12. RowsTyped'
  BY DEF ScanInv, Types, RowsTyped
<1>13. Forest' /\ TreeStep
  BY <1>12, Touched DEF ScanInv, SameShape
<1>14. Informed(r)'
  BY <1>1, <1>13, InformedKept DEF ScanInv
<1>15. items' = old \cup {i} /\ node' = node
  BY <1>2, <1>4
<1>16. items' \in SUBSET MetaItem
  BY <1>8, <1>15 DEF ScanInv, Types
<1>17. ASSUME NEW j \in items'
       PROVE  /\ node'[j.node] # None
              /\ Segments'[j.node] \o <<j.name>> = <<j.bucket>> \o j.rel
              /\ IsSuffix(j.rel, j.key)
  <2>1. CASE j \in items
    <3>1. node'[j.node] # None
      BY <1>15, <2>1 DEF ScanInv, ItemsInPlace
    <3> QED BY <1>13, <2>1, <3>1, ItemKept
  <2>2. CASE j = i
    <3>1. i.node \in NodeIds /\ node'[i.node] # None
      BY <1>8, <1>9, <1>15 DEF MetaItem
    <3>2. Segments'[i.node] = Segments[i.node]
      BY <1>9, <1>13, <3>1, SegmentsKept DEF ScanInv
    <3>3. Segments'[i.node] \o <<i.name>> = <<i.bucket>> \o i.rel
      BY <1>11, <3>2
    <3>4. IsSuffix(i.rel, i.key)
      BY <1>5, <1>6
    <3> QED BY <2>2, <3>1, <3>3, <3>4
  <2> QED BY <1>15, <2>1, <2>2
<1>18. ItemsInPlace'
  BY <1>17 DEF ItemsInPlace
<1>19. ItemsUnique'
  <2>1. \A j \in old : ~(j.node = i.node /\ j.name = i.name)
    BY <1>2, <1>4 DEF SameItem
  <2> QED BY <1>15, <2>1 DEF ItemsUnique, ScanInv
<1> QED BY <1>1, <1>13, <1>14, <1>16, <1>18, <1>19, Move

LEMMA SafeInsertItem == ASSUME ScanInv, NEW w \in Requests, InsertItem(w) PROVE ScanInv'
<1>1. UNCHANGED <<store, view, node>> /\ req[w].pc \in ItemPCs
  BY DEF InsertItem, envVars
<1>2. CASE Set(w, GiveUp(w)) /\ UNCHANGED items
  BY <1>1, <1>2, SafeGiveUp
<1>3. CASE /\ SameItem(req[w]) = {} /\ node[ItemRow(req[w]).node] # None
           /\ items' = items \cup {ItemRow(req[w])} /\ Counted(w)
  BY <1>1, <1>3, SafeFiled
<1> QED BY <1>2, <1>3 DEF InsertItem

LEMMA SafeUpdateItem == ASSUME ScanInv, NEW w \in Requests, UpdateItem(w) PROVE ScanInv'
<1>1. UNCHANGED <<store, view, node>> /\ req[w].pc \in ItemPCs /\ Counted(w)
  BY DEF UpdateItem, envVars
<1>2. CASE SameItem(req[w]) # {} /\ items' = (items \ SameItem(req[w])) \cup {ItemRow(req[w])}
  <2>1. node[ItemRow(req[w]).node] # None
    BY <1>2 DEF SameItem, ScanInv, ItemsInPlace
  <2>2. PICK old : old = items \ SameItem(req[w])
    OBVIOUS
  <2>3. old \in SUBSET items /\ old \cap SameItem(req[w]) = {}
    BY <2>2
  <2> QED BY <1>1, <1>2, <2>1, <2>2, <2>3, SafeFiled
<1>3. CASE UNCHANGED items
  <2>1. PICK r \in Progress : /\ req' = [req EXCEPT ![w] = r]
                              /\ Informed(r) /\ Holds(r) \cap FreshIds = {}
    BY <1>1, CountedProgress
  <2> QED BY <1>1, <1>3, <2>1, MoveOnly
<1> QED BY <1>2, <1>3 DEF UpdateItem

LEMMA SafeStatementFails ==
  ASSUME ScanInv, NEW w \in Requests, StatementFails(w) PROVE ScanInv'
  BY SafeGiveUp DEF StatementFails, dbVars, envVars

\* A step that leaves the tables alone, and every request as it is or dead.
LEMMA Elsewhere ==
  ASSUME ScanInv, UNCHANGED <<node, items>>, store' \in [Buckets -> SUBSET Keys],
         req' \in [Requests -> Progress],
         \A v \in Requests : req'[v] \in {req[v], Fresh("dead", FALSE, {})},
         UNCHANGED view \/ ViewSound'
  PROVE  ScanInv'
<1>1. RowsTyped'
  BY DEF ScanInv, Types, RowsTyped
<1>2. Forest' /\ TreeStep
  BY <1>1, Touched DEF ScanInv, SameShape
<1>3. Types'
  BY <1>1 DEF ScanInv, Types
<1>4. ItemsInPlace'
  BY <1>2, ItemKept DEF ScanInv, ItemsInPlace
<1>6. ItemsUnique' /\ ViewSound'
  BY <1>2, ViewKept DEF ScanInv, ItemsUnique
<1>5. ASSUME NEW v \in Requests PROVE Informed(req[v])'
  <2>1. PICK s : s \in {req[v], Fresh("dead", FALSE, {})} /\ req'[v] = s
    OBVIOUS
  <2>2. s \in Progress /\ Informed(s) /\ Holds(s) \cap FreshIds = {}
    <3>1. Fresh("dead", FALSE, {}) = s => s \in Progress /\ Informed(s) /\ Holds(s) \cap FreshIds = {}
      BY FreshProgress
    <3> QED BY <2>1, <3>1, Before
  <2>3. Informed(s)'
    BY <1>2, <2>2, InformedKept DEF ScanInv
  <2> QED BY <2>1, <2>3, InformedAt
<1> QED BY <1>2, <1>3, <1>4, <1>5, <1>6 DEF ScanInv

LEMMA SafeCrash == ASSUME ScanInv, Crash PROVE ScanInv'
<1>1. PICK f : f = Fresh("dead", FALSE, {})
  OBVIOUS
<1>2. f \in Progress
  BY <1>1, FreshProgress
<1>3. req' = [w \in Requests |-> IF Active(w) THEN f ELSE req[w]] /\ UNCHANGED <<store, view, node, items>>
  BY <1>1 DEF Crash, dbVars, envVars
<1>4. req' \in [Requests -> Progress] /\ \A v \in Requests : req'[v] \in {req[v], f}
  BY <1>2, <1>3 DEF ScanInv, Types
<1>5. store' \in [Buckets -> SUBSET Keys]
  BY <1>3 DEF ScanInv, Types
<1> QED BY <1>1, <1>3, <1>4, <1>5, Elsewhere

LEMMA SafeStoreChange ==
  ASSUME ScanInv, NEW b \in Buckets, StoreChange(b) PROVE ScanInv'
  BY Elsewhere DEF StoreChange, dbVars, ScanInv, Types

LEMMA SafeElse ==
  ASSUME ScanInv, UNCHANGED <<store, view, node, items, req>> PROVE ScanInv'
  BY Elsewhere DEF ScanInv, Types

\* A reader that holds nothing.
LEMMA NoViewSound == view = NoView => ViewSound
<1> SUFFICES ASSUME view = NoView PROVE ViewSound
  OBVIOUS
<1>1. view.rows = [n \in {} |-> None] /\ view.pc = "idle"
  BY DEF NoView
<1>2. view.rows \in [{} -> MetaNode] /\ DOMAIN view.rows = {}
  BY <1>1
<1>3. [n \in NodeIds |-> 0] \in [NodeIds -> 0 .. 0] /\ 0 \in Nat
  OBVIOUS
<1>4. view.rows \in UNION {[D -> MetaNode] : D \in SUBSET NodeIds}
  BY <1>2
<1> QED BY <1>1, <1>2, <1>3, <1>4 DEF ViewSound

LEMMA NoViewSoundNext == (view = NoView)' => ViewSound'
  BY NoViewSound, PTL

LEMMA ScanInit == Init => ScanInv
<1> SUFFICES ASSUME Init PROVE ScanInv
  OBVIOUS
<1>1. /\ node = [n \in NodeIds |-> None] /\ items = {} /\ store \in [Buckets -> SUBSET Keys]
      /\ req = [w \in Requests |-> Fresh("idle", FALSE, {})]
  BY DEF Init
<1>2. RowsTyped /\ Rows = {}
  BY <1>1 DEF RowsTyped, Rows
<1>3. Ranked
  <2>1. [n \in NodeIds |-> 0] \in [NodeIds -> 0 .. 0] /\ 0 \in Nat
    OBVIOUS
  <2> QED BY <1>2, <2>1 DEF Ranked
<1>4. Forest /\ ItemsInPlace
  BY <1>1, <1>2, <1>3 DEF Forest, TreeSound, ItemsInPlace
<1>5. PICK f : f = Fresh("idle", FALSE, {})
  OBVIOUS
<1>6. f \in Progress /\ Informed(f)
  BY <1>5, FreshProgress
<1>7. ItemsUnique /\ ViewSound
  BY <1>1, NoViewSound DEF ItemsUnique, Init
<1> QED BY <1>1, <1>2, <1>4, <1>5, <1>6, <1>7 DEF ScanInv, Types

LEMMA ScanStep == ASSUME ScanInv, NEW w \in Requests, Step(w) PROVE ScanInv'
<1>1. CASE NextPath(w) \/ ScanPath(w) \/ UpsertRead(w) \/ UpsertCreate(w) \/ UpsertUpdate(w)
  BY <1>1, SafeNextPath, SafeScanPath, SafeUpsertRead, SafeUpsertCreate, SafeUpsertUpdate
<1>2. CASE ResetBucket(w) \/ DeleteDescendants(w) \/ DeleteBucketItems(w) \/ NextMeta(w)
  BY <1>2, SafeResetBucket, SafeDeleteDescendants, SafeDeleteBucketItems, SafeNextMeta
<1>3. CASE ItemRead(w) \/ InsertItem(w) \/ UpdateItem(w) \/ Finalize(w)
  BY <1>3, SafeItemRead, SafeInsertItem, SafeUpdateItem, SafeFinalize
<1> QED BY <1>1, <1>2, <1>3 DEF Step

LEMMA ScanNextSafe == ASSUME ScanInv, ScanNext PROVE ScanInv'
<1>1. ASSUME NEW w \in Requests, BeginAuto(w) \/ BeginManual(w) \/ Step(w) PROVE ScanInv'
  BY <1>1, SafeBegin, ScanStep
<1>2. ASSUME NEW w \in Requests, ScanPathLossy(w) \/ StatementFails(w) PROVE ScanInv'
  BY <1>2, SafeScanPathLossy, SafeStatementFails
<1>3. ASSUME NEW b \in Buckets, StoreChange(b) PROVE ScanInv'
  BY <1>3, SafeStoreChange
<1> QED BY <1>1, <1>2, <1>3, SafeCrash DEF ScanNext

LEMMA SafeReadTops == ASSUME ScanInv, ReadTops PROVE ScanInv'
<1>1. /\ view' = [pc |-> "nodes", rows |-> [n \in TopRows |-> node[n]]]
      /\ UNCHANGED <<store, node, items, req>>
  BY DEF ReadTops, dbVars
<1>2. /\ view'.pc = "nodes" /\ view'.rows = [n \in TopRows |-> node[n]]
      /\ DOMAIN view'.rows = TopRows
  BY <1>1
<1>3. \A n \in TopRows : n \in NodeIds /\ node[n] \in MetaNode /\ node[n].parent = 0
  BY RowFields DEF TopRows, Rows, ScanInv, Types
<1>4. view'.rows \in [TopRows -> MetaNode] /\ TopRows \in SUBSET NodeIds
  BY <1>2, <1>3
<1>5. view'.rows \in UNION {[D -> MetaNode] : D \in SUBSET NodeIds}
  BY <1>4
<1>6. \A n \in DOMAIN view'.rows : view'.rows[n] = node[n] /\ node'[n] = node[n]
                                   /\ view'.rows[n].parent = 0
  BY <1>1, <1>2, <1>3
<1>7. [n \in NodeIds |-> 0] \in [NodeIds -> 0 .. 0] /\ 0 \in Nat
  OBVIOUS
<1>8. ViewSound'
  BY <1>5, <1>6, <1>7 DEF ViewSound
<1> QED BY <1>1, <1>8, Elsewhere DEF ScanInv, Types

LEMMA SafeReadNodes == ASSUME ScanInv, ReadNodes PROVE ScanInv'
<1>1. /\ view' = [pc |-> "items", rows |->
                     [n \in DOMAIN view.rows \cup ChildRows |->
                         IF n \in ChildRows THEN node[n] ELSE view.rows[n]]]
      /\ UNCHANGED <<store, node, items, req>>
  BY DEF ReadNodes, dbVars
<1>2. /\ view'.pc = "items" /\ DOMAIN view'.rows = DOMAIN view.rows \cup ChildRows
      /\ view'.rows = [n \in DOMAIN view.rows \cup ChildRows |->
                         IF n \in ChildRows THEN node[n] ELSE view.rows[n]]
  BY <1>1
<1>3. \A n \in ChildRows : n \in Rows /\ n \in NodeIds /\ node[n] \in MetaNode
  BY RowFields DEF ChildRows, Rows, ScanInv, Types
<1>4. /\ DOMAIN view.rows \in SUBSET NodeIds
      /\ \A n \in DOMAIN view.rows : view.rows[n] \in MetaNode /\ view.rows[n].parent = 0
  BY DEF ReadNodes, ScanInv, ViewSound
<1>5. view'.rows \in UNION {[D -> MetaNode] : D \in SUBSET NodeIds}
  <2>1. view'.rows \in [DOMAIN view.rows \cup ChildRows -> MetaNode]
    BY <1>2, <1>3, <1>4
  <2>2. DOMAIN view.rows \cup ChildRows \in SUBSET NodeIds
    BY <1>3, <1>4
  <2> QED BY <2>1, <2>2
<1>6. ASSUME NEW n \in DOMAIN view'.rows
      PROVE  /\ view'.rows[n] = IF n \in ChildRows THEN node[n] ELSE view.rows[n]
             /\ view'.rows[n].parent # 0 => n \in ChildRows
             /\ node'[n] # None => /\ node'[n].parent = view'.rows[n].parent
                                   /\ node'[n].name = view'.rows[n].name
  BY <1>1, <1>2, <1>4, <1>6 DEF ScanInv, ViewSound
<1>7. PICK height \in Nat : \E rank \in [NodeIds -> 0 .. height] :
         \A n \in Rows : node[n].parent # 0 => rank[node[n].parent] < rank[n]
  BY DEF ScanInv, Forest, Ranked
<1>8. PICK rank \in [NodeIds -> 0 .. height] :
         \A n \in Rows : node[n].parent # 0 => rank[node[n].parent] < rank[n]
  BY <1>7
<1>9. \A n \in DOMAIN view'.rows : view'.rows[n].parent # 0 =>
         rank[view'.rows[n].parent] < rank[n]
  BY <1>3, <1>6, <1>8
<1>10. ViewSound'
  BY <1>2, <1>5, <1>6, <1>7, <1>8, <1>9 DEF ViewSound
<1> QED BY <1>1, <1>10, Elsewhere DEF ScanInv, Types

LEMMA ExploreSafe == ASSUME ScanInv, Explore PROVE ScanInv'
<1>1. CASE ReadItems
  <2>1. ViewSound' /\ UNCHANGED <<store, node, items, req>>
    <3>1. (view = NoView)' /\ UNCHANGED <<store, node, items, req>>
      BY <1>1 DEF ReadItems, dbVars, NoView
    <3> QED BY <3>1, NoViewSoundNext
  <2> QED BY <2>1, Elsewhere DEF ScanInv, Types
<1> QED BY <1>1, SafeReadTops, SafeReadNodes DEF Explore

\* However many object scans overlap, fail and die: the rows of meta_node are
\* well-formed and form a forest, each request knows where the nodes that it
\* holds are, unless another one deleted them, and items are in place.
THEOREM ScanInvariant == ExplorerSpec => []ScanInv
<1>1. ScanInv /\ [ExplorerNext]_vars => ScanInv'
  <2> SUFFICES ASSUME ScanInv, [ExplorerNext]_vars PROVE ScanInv'
    OBVIOUS
  <2>1. CASE UNCHANGED vars
    BY <2>1, SafeElse DEF vars, scanVars
  <2> QED BY <2>1, ScanNextSafe, ExploreSafe DEF ExplorerNext
<1> QED BY <1>1, ScanInit, PTL DEF ExplorerSpec

\* A path leads to one directory: no prefix row loses its parent, and no two
\* rows of one parent get one name, whatever overlaps, fails or dies
\* (upsertNode, hardDeleteDescendantNodes).
THEOREM TreeIsSound == ExplorerSpec => []TreeSound
<1>1. ScanInv => TreeSound
  BY DEF ScanInv, Forest
<1> QED BY <1>1, ScanInvariant, PTL

\* No scan ever files an object under another directory than its key says,
\* although other scans delete and create the directories that it walks through
\* (persistObjectMetas, upsertItem).
THEOREM ItemsStayInPlace == ExplorerSpec => []ItemsInPlace
<1>1. ScanInv => ItemsInPlace
  BY DEF ScanInv
<1> QED BY <1>1, ScanInvariant, PTL

\* The same without a reader.
THEOREM ScanAlone == Spec => [](TreeSound /\ ItemsInPlace)
<1>1. ScanInv /\ [Next]_scanVars => ScanInv'
  <2> SUFFICES ASSUME ScanInv, [Next]_scanVars PROVE ScanInv'
    OBVIOUS
  <2>1. CASE UNCHANGED scanVars
    BY <2>1, SafeElse DEF scanVars
  <2> QED BY <2>1, ScanNextSafe DEF Next
<1>2. ScanInv => TreeSound /\ ItemsInPlace
  BY DEF ScanInv, Forest
<1> QED BY <1>1, <1>2, ScanInit, PTL DEF Spec
-----------------------------------------------------------------------------
(* Scans that do not overlap *)

\* No two rows are of one bucket.
TopsOnce ==
    \A m, n \in Rows :
        node[m].parent = 0 /\ node[n].parent = 0 /\ node[m].name = node[n].name => m = n

\* As long as no two requests were in progress at once: one at most is, a bucket
\* has one row, and no row at all when a request is about to insert it.
OneByOne ==
    ~overlap =>
        /\ \A v, w \in Requests : Active(v) /\ Active(w) => v = w
        /\ TopsOnce
        /\ \A w \in Requests : req[w].pc = "create" /\ req[w].chain = <<>> =>
              Children(0, Head(req[w].segs)) = {}

\* No row of a bucket is new or renamed.
SameTops ==
    \A n \in Rows' : node'[n].parent = 0 =>
        n \in Rows /\ node[n].parent = 0 /\ node[n].name = node'[n].name

LEMMA SameTopsOf == UNCHANGED node => SameTops
  BY DEF SameTops, Rows

\* A step of the active request that adds no row of a bucket.
LEMMA NextOne ==
  ASSUME ScanInv, OneByOne, NEW w \in Requests, Active(w), NEW r,
         req' = [req EXCEPT ![w] = r], UNCHANGED overlap, SameTops,
         r.pc = "create" /\ r.chain = <<>> => Children(0, Head(r.segs)) = {}
  PROVE  OneByOne'
<1> SUFFICES ASSUME ~overlap PROVE OneByOne'
  BY DEF OneByOne
<1>1. /\ \A v \in Requests \ {w} : ~Active(v) /\ req'[v] = req[v]
      /\ req'[w] = r
  BY DEF OneByOne, ScanInv, Types
<1>2. \A u, v \in Requests : Active(u)' /\ Active(v)' => u = v
  BY <1>1 DEF Active
<1>3. TopsOnce'
  <2> SUFFICES ASSUME NEW m \in Rows', NEW n \in Rows', node'[m].parent = 0,
                      node'[n].parent = 0, node'[m].name = node'[n].name
               PROVE  m = n
    BY DEF TopsOnce
  <2>1. /\ m \in Rows /\ node[m].parent = 0 /\ node[m].name = node'[m].name
        /\ n \in Rows /\ node[n].parent = 0 /\ node[n].name = node'[n].name
    BY DEF SameTops
  <2> QED BY <2>1 DEF OneByOne, TopsOnce
<1>4. ASSUME NEW v \in Requests, req'[v].pc = "create", req'[v].chain = <<>>
      PROVE  \A n \in Rows' : ~(node'[n].parent = 0 /\ node'[n].name = Head(req'[v].segs))
  <2>1. v = w
    BY <1>1, <1>4 DEF Active
  <2>2. Children(0, Head(r.segs)) = {} /\ req'[v].segs = r.segs
    BY <1>1, <1>4, <2>1
  <2>3. \A n \in Rows' : ~(node'[n].parent = 0 /\ node'[n].name = Head(r.segs))
    BY <2>2 DEF SameTops, Children
  <2> QED BY <2>2, <2>3
<1> QED BY <1>2, <1>3, <1>4 DEF OneByOne, Children

\* Request w goes on, and not with an INSERT of upsertNode.
NoCreate(w) == \E r : req' = [req EXCEPT ![w] = r] /\ r.pc # "create"

LEMMA NextOneElse ==
  ASSUME ScanInv, OneByOne, NEW w \in Requests, Active(w), NoCreate(w),
         UNCHANGED overlap, SameTops
  PROVE  OneByOne'
  BY NextOne DEF NoCreate

LEMMA NoCreateSet ==
  ASSUME NEW w, NEW r, Set(w, r), r.pc # "create" PROVE NoCreate(w)
  BY DEF NoCreate, Set

\* The fields that the steps below ask for.
HasFields(q) == {"pc", "chain", "segs"} \subseteq DOMAIN q

LEMMA ProgressFields == \A q \in Progress : HasFields(q)
  BY DEF Progress, HasFields

LEMMA OneGoto ==
  ASSUME ScanInv, NEW w \in Requests, NEW p, Goto(w, p), p # "create" PROVE NoCreate(w)
<1>1. PICK q : q = req[w]
  OBVIOUS
<1>2. PICK r : r = [q EXCEPT !.pc = p]
  OBVIOUS
<1>3. r.pc = p
  BY <1>1, <1>2, Before DEF Progress
<1> QED BY <1>1, <1>2, <1>3, NoCreateSet DEF Goto

LEMMA OneGiveUp ==
  ASSUME ScanInv, NEW w \in Requests, Set(w, GiveUp(w)) PROVE NoCreate(w)
<1>1. PICK q : q = req[w]
  OBVIOUS
<1>2. q \in Progress
  BY <1>1, Before
<1>3. [q EXCEPT !.pc = PathDone(w)].pc = PathDone(w)
  BY <1>2 DEF Progress
<1>4. Fresh(IF q.auto THEN "path" ELSE "failed", q.auto, q.todo).pc # "create"
  BY DEF Fresh
<1>5. GiveUp(w).pc # "create"
  BY <1>1, <1>3, <1>4 DEF GiveUp, PathDone
<1> QED BY <1>5, NoCreateSet

LEMMA OneCounted ==
  ASSUME ScanInv, NEW w \in Requests, Counted(w) PROVE NoCreate(w)
<1>1. PICK stat : Set(w, [req[w] EXCEPT !.pc = "meta", !.stat = stat])
  BY DEF Counted
<1>2. PICK r : r = [req[w] EXCEPT !.pc = "meta", !.stat = stat]
  OBVIOUS
<1>3. r.pc = "meta"
  BY <1>2, Before DEF Progress
<1> QED BY <1>1, <1>2, <1>3, NoCreateSet

\* The SELECT of upsertNode is followed by an INSERT of a bucket's row only if
\* it has found none.
LEMMA OneSelect ==
  ASSUME ScanInv, OneByOne, NEW w \in Requests, Active(w), NEW q, HasFields(q),
         UpsertSelect(w, q), UNCHANGED <<overlap, node>>
  PROVE  OneByOne'
<1>1. CASE Children(Above(q), Head(q.segs)) = {} /\ Set(w, [q EXCEPT !.pc = "create"])
  <2>1. PICK r : r = [q EXCEPT !.pc = "create"]
    OBVIOUS
  <2>2. r.chain = q.chain /\ r.segs = q.segs
    BY <2>1 DEF HasFields
  <2>3. req' = [req EXCEPT ![w] = r]
    BY <1>1, <2>1 DEF Set
  <2>4. r.chain = <<>> => Children(0, Head(r.segs)) = {}
    BY <1>1, <2>2 DEF Above
  <2> QED BY <2>3, <2>4, NextOne, SameTopsOf
<1>2. ASSUME NEW n, Set(w, [q EXCEPT !.id = n, !.pc = "update"]) PROVE OneByOne'
  <2>1. PICK r : r = [q EXCEPT !.id = n, !.pc = "update"]
    OBVIOUS
  <2>2. r.pc = "update"
    BY <2>1 DEF HasFields
  <2>3. NoCreate(w)
    BY <1>2, <2>1, <2>2, NoCreateSet
  <2> QED BY <2>3, NextOneElse, SameTopsOf
<1> QED BY <1>1, <1>2 DEF UpsertSelect, Above

LEMMA OneItemSelect ==
  ASSUME NEW w \in Requests, NEW q, HasFields(q), ItemSelect(w, q) PROVE NoCreate(w)
<1>1. PICK pc \in {"insert", "updateitem"} : Set(w, [q EXCEPT !.pc = pc])
  BY DEF ItemSelect
<1>2. PICK r : r = [q EXCEPT !.pc = pc]
  OBVIOUS
<1>3. r.pc = pc
  BY <1>2 DEF HasFields
<1> QED BY <1>1, <1>2, <1>3, NoCreateSet

LEMMA OneNextPath == ASSUME ScanInv, NEW w \in Requests, NextPath(w) PROVE NoCreate(w)
<1>1. CASE Goto(w, IF req[w].auto THEN "done" ELSE "final")
  BY <1>1, OneGoto
<1>2. ASSUME NEW p, NEW pc \in {"path", "list"},
             Set(w, [req[w] EXCEPT !.todo = @ \ {p}, !.at = p, !.chain = <<>>, !.pc = pc])
      PROVE  NoCreate(w)
  <2>1. PICK r : r = [req[w] EXCEPT !.todo = @ \ {p}, !.at = p, !.chain = <<>>, !.pc = pc]
    OBVIOUS
  <2>2. r.pc = pc
    BY <2>1, Before DEF Progress
  <2> QED BY <1>2, <2>1, <2>2, NoCreateSet
<1> QED BY <1>1, <1>2 DEF NextPath

LEMMA OneAnswered ==
  ASSUME ScanInv, NEW w \in Requests, NEW metas, Answered(w, metas) PROVE NoCreate(w)
<1>1. PICK segs, chain, pc :
         /\ pc # "create"
         /\ Set(w, [req[w] EXCEPT !.dirs = metas.dirs, !.objs = metas.objs,
                                  !.segs = segs, !.chain = chain, !.obj = None, !.pc = pc])
  BY DEF Answered, PathDone
<1>2. PICK r : r = [req[w] EXCEPT !.dirs = metas.dirs, !.objs = metas.objs,
                                  !.segs = segs, !.chain = chain, !.obj = None, !.pc = pc]
  OBVIOUS
<1>3. r.pc = pc
  BY <1>2, Before DEF Progress
<1> QED BY <1>1, <1>2, <1>3, NoCreateSet

\* upsertNode's INSERT of the row of a bucket finds that there is none.
LEMMA OneCreate ==
  ASSUME ScanInv, OneByOne, NEW w \in Requests, UpsertCreate(w) PROVE OneByOne'
<1>1. PICK q : q = req[w]
  OBVIOUS
<1>2. /\ q \in Progress /\ q.pc = "create" /\ Active(w) /\ UNCHANGED overlap
  BY <1>1, Before DEF UpsertCreate, Active
<1>3. CASE Set(w, GiveUp(w)) /\ UNCHANGED node
  BY <1>2, <1>3, OneGiveUp, NextOneElse, SameTopsOf
<1>4. ASSUME NEW n \in FreshIds, NEW row,
             row = [parent |-> Parent(w), name |-> Head(q.segs), pathed |-> FALSE,
                    status |-> Unscanned, count |-> 0],
             node' = [node EXCEPT ![n] = row],
             Set(w, [q EXCEPT !.id = n, !.pc = "update"])
      PROVE  OneByOne'
  <2>1. PICK r : r = [q EXCEPT !.id = n, !.pc = "update"]
    OBVIOUS
  <2>2. req' = [req EXCEPT ![w] = r] /\ r.pc = "update"
    BY <1>2, <1>4, <2>1 DEF Set, Progress
  <2>3. n \in NodeIds /\ node[n] = None /\ node'[n] = row
        /\ \A m \in NodeIds \ {n} : node'[m] = node[m]
    BY <1>4, FreshFacts DEF ScanInv, Types, RowsTyped
  <2>4. row.parent = Parent(w) /\ row.name = Head(q.segs)
    BY <1>4
  <2>5. Rows' \subseteq Rows \cup {n} /\ n \notin Rows
    BY <2>3 DEF Rows
  <2>6. CASE q.chain # <<>>
    <3>1. row.parent # 0
      BY <1>1, <1>2, <2>4, <2>6, ChainEnds, ConstantsAssumption
      DEF Parent, ConstantsAssumption
    <3>2. SameTops
      BY <2>3, <2>5, <3>1 DEF SameTops, Rows
    <3> QED BY <1>2, <2>2, <3>2, NextOne
  <2>7. CASE q.chain = <<>>
    <3> SUFFICES ASSUME ~overlap PROVE OneByOne'
      BY <1>2 DEF OneByOne
    <3>1. Children(0, Head(q.segs)) = {} /\ \A v \in Requests \ {w} : ~Active(v)
      BY <1>1, <1>2, <2>7 DEF OneByOne
    <3>2. \A m \in Rows : node[m].parent = 0 => node[m].name # row.name
      BY <2>4, <3>1 DEF Children
    <3>3. TopsOnce'
      <4> SUFFICES ASSUME NEW k \in Rows', NEW m \in Rows', node'[k].parent = 0,
                          node'[m].parent = 0, node'[k].name = node'[m].name
                   PROVE  k = m
        BY DEF TopsOnce
      <4>1. /\ k # n => k \in Rows /\ node'[k] = node[k]
            /\ m # n => m \in Rows /\ node'[m] = node[m]
        BY <2>3, <2>5 DEF Rows
      <4>2. k = n <=> m = n
        BY <2>3, <3>2, <4>1
      <4> QED BY <4>1, <4>2 DEF OneByOne, TopsOnce
    <3>4. \A v \in Requests \ {w} : req'[v] = req[v]
      BY <2>2 DEF ScanInv, Types
    <3>5. req'[w] = r
      BY <2>2, Before
    <3>6. \A u, v \in Requests : Active(u)' /\ Active(v)' => u = v
      BY <3>1, <3>4 DEF Active
    <3>7. \A v \in Requests : req'[v].pc # "create"
      BY <2>2, <3>1, <3>4, <3>5 DEF Active
    <3> QED BY <3>3, <3>6, <3>7 DEF OneByOne
  <2> QED BY <2>6, <2>7
<1> QED BY <1>1, <1>3, <1>4 DEF UpsertCreate

LEMMA OneUpdate ==
  ASSUME ScanInv, OneByOne, NEW w \in Requests, UpsertUpdate(w) PROVE OneByOne'
<1>1. PICK n, chain, segs, own, stat, pc :
         /\ pc \in {"reset", "upsert", "item", "meta"}
         /\ node' = [node EXCEPT ![n] = IF @ = None THEN @ ELSE [@ EXCEPT !.pathed = TRUE]]
         /\ Set(w, [req[w] EXCEPT !.chain = chain, !.segs = segs, !.id = 0, !.own[req[w].at[1]] = own,
                                  !.stat = stat, !.pc = pc])
  BY DEF UpsertUpdate
<1>2. PICK r : r = [req[w] EXCEPT !.chain = chain, !.segs = segs, !.id = 0,
                                  !.own[req[w].at[1]] = own, !.stat = stat, !.pc = pc]
  OBVIOUS
<1>3. r.pc = pc
  BY <1>2, Before DEF Progress
<1>4. NoCreate(w)
  BY <1>1, <1>2, <1>3, NoCreateSet
<1>5. SameTops
  BY <1>1 DEF SameTops, Rows, ScanInv, Types, RowsTyped, MetaNode
<1>6. Active(w) /\ UNCHANGED overlap
  BY DEF UpsertUpdate, Active
<1> QED BY <1>4, <1>5, <1>6, NextOneElse

LEMMA OneReset ==
  ASSUME ScanInv, OneByOne, NEW w \in Requests, ResetBucket(w) PROVE OneByOne'
<1>1. NoCreate(w) /\ Active(w) /\ UNCHANGED overlap
  BY OneGoto DEF ResetBucket, Active
<1>2. PICK n : node' = [node EXCEPT ![n].status = Scanning] /\ n = req[w].chain[1]
  BY DEF ResetBucket
<1>3. TopOf(n, req[w].at[1])
  BY <1>2, Before DEF Informed, ResetBucket
<1>4. SameTops
  BY <1>2, <1>3 DEF SameTops, Rows, ScanInv, Types, RowsTyped, MetaNode, TopOf
<1> QED BY <1>1, <1>4, NextOneElse

LEMMA OneDelete ==
  ASSUME ScanInv, OneByOne, NEW w \in Requests,
         DeleteDescendants(w) \/ DeleteBucketItems(w)
  PROVE  OneByOne'
<1>1. NoCreate(w) /\ Active(w) /\ UNCHANGED overlap
  BY OneGoto DEF DeleteDescendants, DeleteBucketItems, Active
<1>2. SameTops
  BY DEF DeleteDescendants, DeleteBucketItems, SameTops, Rows
<1> QED BY <1>1, <1>2, NextOneElse

LEMMA OneNextMeta ==
  ASSUME ScanInv, OneByOne, NEW w \in Requests, NextMeta(w) PROVE OneByOne'
<1>1. Active(w) /\ UNCHANGED <<overlap, node>> /\ SameTops
  BY SameTopsOf DEF NextMeta, Active, dbVars
<1>2. PICK r : r = [req[w] EXCEPT !.obj = None, !.chain = SubSeq(@, 1, 1)]
  OBVIOUS
<1>3. HasFields(r)
  BY <1>2, Before, ProgressFields DEF HasFields
<1>4. ASSUME NEW d, UpsertSelect(w, [r EXCEPT !.dirs = @ \ {d}, !.segs = d])
      PROVE  OneByOne'
  <2>1. HasFields([r EXCEPT !.dirs = @ \ {d}, !.segs = d])
    BY <1>3 DEF HasFields
  <2> QED BY <1>1, <1>4, <2>1, OneSelect
<1>5. ASSUME NEW o, NEW s, s = [r EXCEPT !.objs = @ \ {o}, !.obj = o, !.segs = Front(o.rel)],
             IF s.segs = <<>> THEN ItemSelect(w, s) ELSE UpsertSelect(w, s)
      PROVE  OneByOne'
  <2>1. HasFields(s)
    BY <1>3, <1>5 DEF HasFields
  <2> QED BY <1>1, <1>5, <2>1, OneSelect, OneItemSelect, NextOneElse
<1>6. ASSUME NEW stat, Set(w, [r EXCEPT !.pc = PathDone(w), !.stat = stat])
      PROVE  OneByOne'
  <2>1. PICK s : s = [r EXCEPT !.pc = PathDone(w), !.stat = stat]
    OBVIOUS
  <2>2. s.pc = PathDone(w)
    BY <1>3, <2>1 DEF HasFields
  <2>3. NoCreate(w)
    <3>1. PathDone(w) # "create"
      BY DEF PathDone
    <3> QED BY <1>6, <2>1, <2>2, <3>1, NoCreateSet
  <2> QED BY <1>1, <2>3, NextOneElse
<1>7. \/ \E d \in r.dirs : UpsertSelect(w, [r EXCEPT !.dirs = @ \ {d}, !.segs = d])
      \/ \E o \in r.objs : \E s :
            /\ s = [r EXCEPT !.objs = @ \ {o}, !.obj = o, !.segs = Front(o.rel)]
            /\ IF s.segs = <<>> THEN ItemSelect(w, s) ELSE UpsertSelect(w, s)
      \/ \E stat : Set(w, [r EXCEPT !.pc = PathDone(w), !.stat = stat])
  BY <1>2 DEF NextMeta
<1> QED BY <1>4, <1>5, <1>6, <1>7

LEMMA OneFinalize ==
  ASSUME ScanInv, OneByOne, NEW w \in Requests, Finalize(w) PROVE OneByOne'
<1>1. Active(w) /\ UNCHANGED overlap
  BY DEF Finalize, Active
<1>2. CASE Set(w, Fresh(IF req[w].auto THEN "path" ELSE "done", req[w].auto, req[w].todo))
           /\ UNCHANGED node
  <2>1. Fresh(IF req[w].auto THEN "path" ELSE "done", req[w].auto, req[w].todo).pc # "create"
    BY DEF Fresh
  <2> QED BY <1>1, <1>2, <2>1, NoCreateSet, NextOneElse, SameTopsOf
<1>3. ASSUME NEW n, NEW count, NEW own, NEW stat,
             node' = [node EXCEPT ![n] =
                       IF @ = None THEN @
                       ELSE [@ EXCEPT !.status = Scanned, !.count = count]],
             Set(w, [req[w] EXCEPT !.own = own, !.stat = stat])
      PROVE  OneByOne'
  <2>1. PICK r : r = [req[w] EXCEPT !.own = own, !.stat = stat]
    OBVIOUS
  <2>2. r.pc = "final"
    BY <2>1, Before DEF Progress, Finalize
  <2>3. NoCreate(w)
    BY <1>3, <2>1, <2>2, NoCreateSet
  <2>4. SameTops
    BY <1>3 DEF SameTops, Rows, ScanInv, Types, RowsTyped, MetaNode
  <2> QED BY <1>1, <2>3, <2>4, NextOneElse
<1> QED BY <1>2, <1>3 DEF Finalize

LEMMA OneStep == ASSUME ScanInv, OneByOne, NEW w \in Requests, Step(w) PROVE OneByOne'
<1>1. CASE NextPath(w)
  BY <1>1, OneNextPath, NextOneElse, SameTopsOf DEF NextPath, Active, dbVars
<1>2. CASE ScanPath(w)
  BY <1>2, OneAnswered, NextOneElse, SameTopsOf DEF ScanPath, Active, dbVars
<1>3. CASE UpsertRead(w)
  <2>1. Active(w) /\ UNCHANGED <<overlap, node>> /\ UpsertSelect(w, req[w])
    BY <1>3 DEF UpsertRead, Active, dbVars
  <2>2. HasFields(req[w])
    BY Before, ProgressFields
  <2> QED BY <2>1, <2>2, OneSelect
<1>4. CASE ItemRead(w)
  <2>1. Active(w) /\ UNCHANGED <<overlap, node>> /\ ItemSelect(w, req[w])
    BY <1>4 DEF ItemRead, Active, dbVars
  <2>2. HasFields(req[w])
    BY Before, ProgressFields
  <2> QED BY <2>1, <2>2, OneItemSelect, NextOneElse, SameTopsOf
<1>5. CASE InsertItem(w)
  BY <1>5, OneGiveUp, OneCounted, NextOneElse, SameTopsOf DEF InsertItem, Active
<1>6. CASE UpdateItem(w)
  BY <1>6, OneCounted, NextOneElse, SameTopsOf DEF UpdateItem, Active
<1>7. CASE UpsertCreate(w) \/ UpsertUpdate(w) \/ ResetBucket(w) \/ NextMeta(w) \/ Finalize(w)
  BY <1>7, OneCreate, OneUpdate, OneReset, OneNextMeta, OneFinalize
<1>8. CASE DeleteDescendants(w) \/ DeleteBucketItems(w)
  BY <1>8, OneDelete
<1> QED BY <1>1, <1>2, <1>3, <1>4, <1>5, <1>6, <1>7, <1>8 DEF Step

LEMMA OneBegin ==
  ASSUME ScanInv, OneByOne, NEW w \in Requests, BeginAuto(w) \/ BeginManual(w)
  PROVE  OneByOne'
<1>1. PICK auto, todo : Begin(w, auto, todo)
  BY DEF BeginAuto, BeginManual
<1>2. PICK r : r = Fresh("path", auto, todo)
  OBVIOUS
<1>3. /\ req' = [req EXCEPT ![w] = r] /\ r.pc = "path" /\ UNCHANGED node
      /\ overlap' = (overlap \/ \E v \in Requests : Active(v))
  BY <1>1, <1>2 DEF Begin, Set, Fresh, dbVars
<1> SUFFICES ASSUME ~overlap' PROVE OneByOne'
  BY DEF OneByOne
<1>4. ~overlap /\ \A v \in Requests : ~Active(v)
  BY <1>3
<1>5. req'[w] = r /\ \A v \in Requests \ {w} : req'[v] = req[v]
  BY <1>3 DEF ScanInv, Types
<1>6. \A u, v \in Requests : Active(u)' /\ Active(v)' => u = v
  BY <1>4, <1>5 DEF Active
<1>7. \A v \in Requests : req'[v].pc # "create"
  BY <1>3, <1>4, <1>5 DEF Active
<1>8. TopsOnce'
  BY <1>3, <1>4 DEF OneByOne, TopsOnce, Rows
<1> QED BY <1>6, <1>7, <1>8 DEF OneByOne

LEMMA OneCrash == ASSUME OneByOne, Crash PROVE OneByOne'
<1>1. PICK f : f = Fresh("dead", FALSE, {})
  OBVIOUS
<1>2. f.pc = "dead"
  BY <1>1 DEF Fresh
<1>3. /\ req' = [w \in Requests |-> IF Active(w) THEN f ELSE req[w]]
      /\ UNCHANGED <<overlap, node>>
  BY <1>1 DEF Crash, dbVars
<1>4. \A v \in Requests : ~Active(v)' /\ req'[v].pc # "create"
  BY <1>2, <1>3 DEF Active
<1>5. ~overlap' => TopsOnce'
  BY <1>3 DEF OneByOne, TopsOnce, Rows
<1> QED BY <1>4, <1>5 DEF OneByOne

LEMMA OneElse ==
  ASSUME OneByOne, UNCHANGED <<node, req, overlap>> PROVE OneByOne'
  BY DEF OneByOne, TopsOnce, Children, Rows, Active

LEMMA OneInit == Init => OneByOne
<1> SUFFICES ASSUME Init PROVE OneByOne
  OBVIOUS
<1>1. node = [n \in NodeIds |-> None] /\ req = [w \in Requests |-> Fresh("idle", FALSE, {})]
  BY DEF Init
<1>2. Rows = {} /\ \A w \in Requests : req[w].pc = "idle"
  BY <1>1 DEF Rows, Fresh
<1> QED BY <1>2 DEF OneByOne, TopsOnce, Active

\* As long as no two requests are in progress at once, a bucket has one row.
THEOREM OneRowPerBucket == ExplorerSpec => []OneByOne
<1>1. ScanInv /\ OneByOne /\ [ExplorerNext]_vars => OneByOne'
  <2> SUFFICES ASSUME ScanInv, OneByOne, [ExplorerNext]_vars PROVE OneByOne'
    OBVIOUS
  <2>1. ASSUME NEW w \in Requests, BeginAuto(w) \/ BeginManual(w) \/ Step(w) PROVE OneByOne'
    BY <2>1, OneBegin, OneStep
  <2>2. ASSUME NEW w \in Requests, ScanPathLossy(w) \/ StatementFails(w) PROVE OneByOne'
    <3>1. Active(w) /\ UNCHANGED <<node, overlap>> /\ NoCreate(w)
      BY <2>2, OneAnswered, OneGiveUp DEF ScanPathLossy, StatementFails, Active, dbVars
    <3> QED BY <3>1, NextOneElse, SameTopsOf
  <2>3. ASSUME NEW b \in Buckets, StoreChange(b) PROVE OneByOne'
    BY <2>3, OneElse DEF StoreChange, dbVars
  <2>4. CASE Explore
    BY <2>4, OneElse DEF Explore, ReadTops, ReadNodes, ReadItems, dbVars
  <2>5. CASE UNCHANGED vars
    BY <2>5, OneElse DEF vars, scanVars
  <2> QED BY <2>1, <2>2, <2>3, <2>4, <2>5, OneCrash DEF ExplorerNext, ScanNext
<1> QED BY <1>1, OneInit, ScanInvariant, PTL DEF ExplorerSpec
-----------------------------------------------------------------------------
(* What a reader shows *)

\* Sequences with one element more.
LEMMA Appended ==
  ASSUME NEW s \in Seq(Names), NEW x \in Names
  PROVE  /\ Append(s, x) \in Seq(Names) /\ Append(s, x) # <<>>
         /\ Append(s, x) = s \o <<x>>
         /\ Len(s) \in Nat /\ Len(Append(s, x)) = Len(s) + 1
         /\ \A i \in 1 .. Len(s) : Append(s, x)[i] = s[i]
         /\ Append(s, x)[Len(s) + 1] = x
<1>1. /\ Len(s) \in Nat /\ Append(s, x) \in Seq(Names) /\ Len(Append(s, x)) = Len(s) + 1
      /\ \A i \in 1 .. Len(s) : Append(s, x)[i] = s[i]
      /\ Append(s, x)[Len(s) + 1] = x
  OBVIOUS
<1>2. s \o <<x>> = Append(s, x)
  <2>1. <<x>> \in Seq(Names) /\ Len(<<x>>) = 1 /\ <<x>>[1] = x
    OBVIOUS
  <2>2. /\ s \o <<x>> \in Seq(Names) /\ Len(s \o <<x>>) = Len(s) + 1
        /\ \A i \in 1 .. Len(s) + 1 :
              (s \o <<x>>)[i] = IF i <= Len(s) THEN s[i] ELSE <<x>>[i - Len(s)]
    BY <2>1, Concatenation
  <2>3. \A i \in 1 .. Len(s) + 1 : (s \o <<x>>)[i] = Append(s, x)[i]
    BY <1>1, <2>1, <2>2
  <2> QED BY <1>1, <2>2, <2>3, SameSequence
<1> QED BY <1>1, <1>2

LEMMA AppendedNotOne ==
  ASSUME NEW s \in Seq(Names), NEW x \in Names, NEW y \in Names, Append(s, x) = <<y>>
  PROVE  s = <<>>
<1>1. Len(s) \in Nat /\ Len(Append(s, x)) = Len(s) + 1 /\ Len(<<y>>) = 1
  BY Appended
<1> QED BY <1>1

LEMMA AppendedSame ==
  ASSUME NEW s \in Seq(Names), NEW t \in Seq(Names), NEW x \in Names, NEW y \in Names,
         Append(s, x) = Append(t, y)
  PROVE  s = t /\ x = y
<1>1. Len(s) = Len(t) /\ x = y
  <2>1. /\ Len(s) \in Nat /\ Len(Append(s, x)) = Len(s) + 1 /\ Append(s, x)[Len(s) + 1] = x
        /\ Len(t) \in Nat /\ Len(Append(t, y)) = Len(t) + 1 /\ Append(t, y)[Len(t) + 1] = y
    BY Appended
  <2> QED BY <2>1
<1>2. \A i \in 1 .. Len(s) : s[i] = t[i]
  BY <1>1, Appended
<1> QED BY <1>1, <1>2, SameSequence

\* What the definition of ShownAt means.
ShownDefined ==
    /\ ShownAt \in [DOMAIN view.rows -> Seq(Names)]
    /\ \A n \in DOMAIN view.rows : ShownAt[n] =
          IF view.rows[n].parent = 0 THEN <<view.rows[n].name>>
          ELSE IF view.rows[n].parent \notin DOMAIN view.rows THEN <<>>
          ELSE IF ShownAt[view.rows[n].parent] = <<>> THEN <<>>
          ELSE Append(ShownAt[view.rows[n].parent], view.rows[n].name)

\* ShownAt is what its recursive definition says.
LEMMA ShownExists == ASSUME ViewSound PROVE ShownDefined
<1> DEFINE D == DOMAIN view.rows
           row(n) == view.rows[n]
           Root == {n \in D : row(n).parent = 0 \/ row(n).parent \notin D}
           up == [n \in D \ Root |-> row(n).parent]
           base == [n \in Root |-> IF row(n).parent = 0 THEN <<row(n).name>> ELSE <<>>]
           step == [n \in D \ Root |->
                       [s \in Seq(Names) |-> IF s = <<>> THEN <<>> ELSE Append(s, row(n).name)]]
<1>1. D \in SUBSET NodeIds /\ \A n \in D : row(n).name \in Names
  BY DEF ViewSound, MetaNode
<1>2. /\ <<>> \in Seq(Names) /\ Root \in SUBSET D /\ up \in [D \ Root -> D]
      /\ base \in [Root -> Seq(Names)]
      /\ step \in [D \ Root -> [Seq(Names) -> Seq(Names)]]
  BY <1>1
<1>3. PICK height \in Nat : \E rank \in [NodeIds -> 0 .. height] :
         \A n \in D : row(n).parent # 0 => rank[row(n).parent] < rank[n]
  BY DEF ViewSound
<1>4. PICK rank \in [NodeIds -> 0 .. height] :
         \A n \in D : row(n).parent # 0 => rank[row(n).parent] < rank[n]
  BY <1>3
<1>5. PICK low : low = [n \in D |-> rank[n]]
  OBVIOUS
<1>6. low \in [D -> 0 .. height] /\ \A n \in D \ Root : low[up[n]] < low[n]
  BY <1>1, <1>2, <1>4, <1>5
<1> HIDE DEF Root, up, base, step
<1>7. IsTree(D, Seq(Names), Root, up, base, step, height, low)
  BY <1>2, <1>3, <1>6 DEF IsTree
<1>8. PICK f \in [D -> Seq(Names)] :
         \A n \in D : f[n] = IF n \in Root THEN base[n] ELSE step[n][f[up[n]]]
  BY <1>7, TreeRecursion
<1>9. ASSUME NEW n \in D PROVE
         f[n] = IF row(n).parent = 0 THEN <<row(n).name>>
                ELSE IF row(n).parent \notin D THEN <<>>
                ELSE IF f[row(n).parent] = <<>> THEN <<>>
                ELSE Append(f[row(n).parent], row(n).name)
  <2>1. n \notin Root => up[n] = row(n).parent /\ up[n] \in D /\ f[up[n]] \in Seq(Names)
    BY <1>2, <1>8 DEF up
  <2> QED BY <1>8, <2>1 DEF Root, base, step
<1>10. f = [n \in DOMAIN view.rows |->
             LET r == view.rows[n]
             IN  IF r.parent = 0 THEN <<r.name>>
                 ELSE IF r.parent \notin DOMAIN view.rows THEN <<>>
                 ELSE IF f[r.parent] = <<>> THEN <<>>
                 ELSE Append(f[r.parent], r.name)]
  BY <1>9
<1>11. ShownAt = [n \in DOMAIN view.rows |->
             LET r == view.rows[n]
             IN  IF r.parent = 0 THEN <<r.name>>
                 ELSE IF r.parent \notin DOMAIN view.rows THEN <<>>
                 ELSE IF ShownAt[r.parent] = <<>> THEN <<>>
                 ELSE Append(ShownAt[r.parent], r.name)]
  BY <1>10, Zenon DEF ShownAt
<1>12. \A n \in DOMAIN view.rows : ShownAt[n] =
          IF view.rows[n].parent = 0 THEN <<view.rows[n].name>>
          ELSE IF view.rows[n].parent \notin DOMAIN view.rows THEN <<>>
          ELSE IF ShownAt[view.rows[n].parent] = <<>> THEN <<>>
          ELSE Append(ShownAt[view.rows[n].parent], view.rows[n].name)
  BY <1>11
<1>13. ASSUME NEW n \in D PROVE ShownAt[n] \in Seq(Names)
  <2> SUFFICES ASSUME ShownAt[n] \notin Seq(Names) PROVE FALSE
    OBVIOUS
  <2> DEFINE Bad == {m \in D : ShownAt[m] \notin Seq(Names)}
  <2>1. PICK m \in Bad : \A k \in Bad : rank[m] <= rank[k]
    <3>1. {rank[m] : m \in Bad} \in SUBSET Nat /\ {rank[m] : m \in Bad} # {}
      BY <1>1
    <3>2. PICK l \in {rank[m] : m \in Bad} : \A k \in {rank[m] : m \in Bad} : l <= k
      BY <3>1, LeastElement
    <3> QED BY <3>2
  <2>2. m \in D /\ row(m).name \in Names /\ <<row(m).name>> \in Seq(Names)
    BY <1>1, <2>1
  <2>3. row(m).parent # 0 /\ row(m).parent \in D /\ ShownAt[row(m).parent] # <<>>
    <3>1. <<>> \in Seq(Names) /\ ShownAt[m] \notin Seq(Names)
      BY <2>1
    <3>2. ShownAt[m] # <<row(m).name>> /\ ShownAt[m] # <<>>
      BY <2>2, <3>1
    <3> QED BY <1>12, <2>2, <3>2
  <2>4. rank[row(m).parent] < rank[m] /\ rank[row(m).parent] \in Nat /\ rank[m] \in Nat
    BY <1>1, <1>4, <2>2, <2>3
  <2>5. ShownAt[row(m).parent] \in Seq(Names)
    BY <2>1, <2>3, <2>4
  <2>6. ShownAt[m] = Append(ShownAt[row(m).parent], row(m).name)
    BY <1>12, <2>2, <2>3
  <2>7. Append(ShownAt[row(m).parent], row(m).name) \in Seq(Names)
    BY <2>2, <2>5, Appended
  <2> QED BY <2>1, <2>6, <2>7
<1> QED BY <1>11, <1>12, <1>13 DEF ShownDefined

\* A row that is shown is shown at its segments, if it is in the table still.
LEMMA ShownInPlace ==
  ASSUME ScanInv, NEW n \in ShownRows, node[n] # None PROVE ShownAt[n] = Segments[n]
<1>1. SegmentsDefined /\ ShownDefined
  BY SegmentsExist, ShownExists DEF ScanInv
<1>2. \A m \in DOMAIN view.rows : m \in NodeIds
  BY DEF ScanInv, ViewSound
<1>3. PICK height \in Nat : \E rank \in [NodeIds -> 0 .. height] :
         \A m \in Rows : node[m].parent # 0 => rank[node[m].parent] < rank[m]
  BY DEF ScanInv, Forest, Ranked
<1>4. PICK rank \in [NodeIds -> 0 .. height] :
         \A m \in Rows : node[m].parent # 0 => rank[node[m].parent] < rank[m]
  BY <1>3
<1> DEFINE Bad == {m \in ShownRows : node[m] # None /\ ShownAt[m] # Segments[m]}
<1> SUFFICES ASSUME n \in Bad PROVE FALSE
  OBVIOUS
<1>5. PICK m \in Bad : \A k \in Bad : rank[m] <= rank[k]
  <2>1. {rank[m] : m \in Bad} \in SUBSET Nat /\ {rank[m] : m \in Bad} # {}
    BY <1>2 DEF ShownRows
  <2>2. PICK l \in {rank[m] : m \in Bad} : \A k \in {rank[m] : m \in Bad} : l <= k
    BY <2>1, LeastElement
  <2> QED BY <2>2
<1>6. /\ m \in DOMAIN view.rows /\ m \in NodeIds /\ m \in Rows
      /\ ShownAt[m] # <<>> /\ ShownAt[m] # Segments[m]
      /\ node[m].parent = view.rows[m].parent /\ node[m].name = view.rows[m].name
  BY <1>2, <1>5 DEF ShownRows, Rows, ScanInv, ViewSound
<1>7. node[m].parent # 0
  BY <1>1, <1>6 DEF SegmentsDefined, ShownDefined, Rows
<1>8. /\ node[m].parent \in DOMAIN view.rows /\ ShownAt[node[m].parent] # <<>>
      /\ ShownAt[m] = Append(ShownAt[node[m].parent], node[m].name)
  BY <1>1, <1>6, <1>7 DEF ShownDefined
<1>9. Segments[m] = Append(Segments[node[m].parent], node[m].name)
  BY <1>1, <1>6, <1>7 DEF SegmentsDefined, Rows
<1>10. node[node[m].parent] # None
  BY <1>6, <1>7 DEF ScanInv, Forest, TreeSound
<1>11. node[m].parent \in Bad
  BY <1>6, <1>8, <1>9, <1>10 DEF ShownRows
<1>12. rank[node[m].parent] < rank[m] /\ rank[node[m].parent] \in Nat /\ rank[m] \in Nat
  BY <1>2, <1>4, <1>6, <1>7, <1>8
<1> QED BY <1>5, <1>11, <1>12

\* Different rows have different segments, if no bucket has two rows.
LEMMA SegmentsDiffer ==
  ASSUME ScanInv, TopsOnce, NEW n \in Rows, NEW k \in Rows, Segments[n] = Segments[k]
  PROVE  n = k
<1>1. SegmentsDefined
  BY SegmentsExist DEF ScanInv
<1>2. PICK height \in Nat : \E rank \in [NodeIds -> 0 .. height] :
         \A m \in Rows : node[m].parent # 0 => rank[node[m].parent] < rank[m]
  BY DEF ScanInv, Forest, Ranked
<1>3. PICK rank \in [NodeIds -> 0 .. height] :
         \A m \in Rows : node[m].parent # 0 => rank[node[m].parent] < rank[m]
  BY <1>2
<1> DEFINE Bad == {m \in Rows : \E l \in Rows : l # m /\ Segments[l] = Segments[m]}
<1> SUFFICES ASSUME Bad # {} PROVE FALSE
  OBVIOUS
<1>4. PICK m \in Bad : \A l \in Bad : rank[m] <= rank[l]
  <2>1. {rank[m] : m \in Bad} \in SUBSET Nat /\ {rank[m] : m \in Bad} # {}
    BY DEF Rows
  <2>2. PICK l \in {rank[m] : m \in Bad} : \A i \in {rank[m] : m \in Bad} : l <= i
    BY <2>1, LeastElement
  <2> QED BY <2>2
<1>5. PICK l \in Rows : l # m /\ Segments[l] = Segments[m]
  BY <1>4
<1>6. ASSUME NEW i \in Rows
      PROVE  /\ i \in NodeIds /\ node[i] # None /\ node[i].name \in Names
             /\ node[i].parent = 0 => Segments[i] = <<node[i].name>>
             /\ node[i].parent # 0 =>
                   /\ node[i].parent \in Rows /\ rank[node[i].parent] < rank[i]
                   /\ Segments[i] = Append(Segments[node[i].parent], node[i].name)
                   /\ Segments[node[i].parent] \in Seq(Names)
                   /\ Segments[node[i].parent] # <<>>
  <2>1. i \in NodeIds /\ node[i] # None /\ node[i].name \in Names
        /\ node[i].parent \in NodeIds \cup {0}
    BY RowFields DEF Rows, ScanInv, Types
  <2>2. node[i].parent # 0 => node[i].parent \in Rows /\ rank[node[i].parent] < rank[i]
    BY <1>3, <2>1 DEF ScanInv, Forest, TreeSound, Rows
  <2>3. ASSUME NEW p \in Rows PROVE Segments[p] # <<>> /\ Segments[p] \in Seq(Names)
    <3>1. p \in NodeIds /\ node[p] # None /\ node[p].name \in Names
          /\ node[p].parent \in NodeIds \cup {0}
      BY RowFields DEF Rows, ScanInv, Types
    <3>2. CASE node[p].parent = 0
      <4>1. Segments[p] = <<node[p].name>>
        BY <1>1, <3>1, <3>2 DEF SegmentsDefined
      <4>2. <<node[p].name>> # <<>> /\ <<node[p].name>> \in Seq(Names)
        BY <3>1
      <4> QED BY <4>1, <4>2
    <3>3. CASE node[p].parent # 0
      <4>1. /\ Segments[p] = Append(Segments[node[p].parent], node[p].name)
            /\ Segments[node[p].parent] \in Seq(Names) /\ Segments[p] \in Seq(Names)
        BY <1>1, <3>1, <3>3 DEF SegmentsDefined
      <4> QED BY <3>1, <4>1, Appended
    <3> QED BY <3>2, <3>3
  <2> QED BY <1>1, <2>1, <2>2, <2>3 DEF SegmentsDefined
<1>7. m \in Rows
  BY <1>4
<1>10. ASSUME NEW i \in Rows, NEW j \in Rows, node[i].parent = 0, node[j].parent # 0
       PROVE  Segments[i] # Segments[j]
  <2>1. PICK s, x, y : s = Segments[node[j].parent] /\ x = node[j].name /\ y = node[i].name
    OBVIOUS
  <2>2. /\ s \in Seq(Names) /\ s # <<>> /\ x \in Names /\ y \in Names
        /\ Segments[i] = <<y>> /\ Segments[j] = Append(s, x)
    BY <1>6, <1>10, <2>1
  <2>3. Append(s, x) # <<y>>
    BY <2>2, AppendedNotOne
  <2> QED BY <2>2, <2>3
<1>8. CASE node[m].parent = 0
  <2>1. node[l].parent = 0
    BY <1>5, <1>7, <1>8, <1>10
  <2>2. node[l].name = node[m].name
    BY <1>5, <1>6, <1>7, <1>8, <2>1
  <2> QED BY <1>5, <1>7, <1>8, <2>1, <2>2 DEF TopsOnce
<1>9. CASE node[m].parent # 0
  <2>1. node[l].parent # 0
    BY <1>5, <1>7, <1>9, <1>10
  <2>2. Segments[node[l].parent] = Segments[node[m].parent] /\ node[l].name = node[m].name
    <3>1. PICK s, t, x, y : /\ s = Segments[node[l].parent] /\ x = node[l].name
                            /\ t = Segments[node[m].parent] /\ y = node[m].name
      OBVIOUS
    <3>2. /\ s \in Seq(Names) /\ t \in Seq(Names) /\ x \in Names /\ y \in Names
          /\ Append(s, x) = Append(t, y)
      <4>1. /\ s \in Seq(Names) /\ x \in Names /\ Segments[l] = Append(s, x)
        BY <1>5, <1>6, <2>1, <3>1
      <4>2. /\ t \in Seq(Names) /\ y \in Names /\ Segments[m] = Append(t, y)
        BY <1>6, <1>7, <1>9, <3>1
      <4> QED BY <1>5, <4>1, <4>2
    <3>3. s = t /\ x = y
      BY <3>2, AppendedSame
    <3> QED BY <3>1, <3>3
  <2>3. node[l].parent = node[m].parent
    <3>1. rank[node[m].parent] < rank[m] /\ node[m].parent \in Rows /\ node[l].parent \in Rows
          /\ rank[node[m].parent] \in Nat /\ rank[m] \in Nat
      BY <1>3, <1>5, <1>6, <1>7, <1>9, <2>1
    <3>2. node[m].parent \notin Bad
      BY <1>4, <3>1
    <3> QED BY <2>2, <3>1, <3>2
  <2>4. Children(node[m].parent, node[m].name) = {m}
    BY <1>7, <1>9 DEF ScanInv, Forest, TreeSound
  <2>5. l \in Children(node[m].parent, node[m].name)
    BY <1>5, <2>2, <2>3 DEF Children
  <2> QED BY <1>5, <2>4, <2>5
<1> QED BY <1>8, <1>9

\* The tree that a reader builds is right, whatever happened between its reads.
LEMMA TreeRight ==
  ASSUME ScanInv, OneByOne
  PROVE  /\ \A e \in ObjectEntries : e.path = <<e.item.bucket>> \o e.item.rel
         /\ ~overlap => \A e, f \in ObjectEntries : e.path = f.path => e = f
<1>1. ASSUME NEW e \in ObjectEntries
      PROVE  /\ e = [path |-> e.path, item |-> e.item] /\ e.item \in items
             /\ e.item.node \in Rows /\ e.item.name \in Names
             /\ Segments[e.item.node] \in Seq(Names)
             /\ e.path = Append(Segments[e.item.node], e.item.name)
             /\ e.path = <<e.item.bucket>> \o e.item.rel
  <2>1. PICK i \in items : /\ i.node \in ShownRows
                           /\ e = [path |-> Append(ShownAt[i.node], i.name), item |-> i]
    BY <1>1 DEF ObjectEntries
  <2>2. e.item = i /\ e.path = Append(ShownAt[i.node], i.name)
    BY <2>1
  <2>3. node[i.node] # None /\ i.node \in NodeIds /\ i.name \in Names
    BY DEF ScanInv, Types, MetaItem, ItemsInPlace
  <2>4. ShownAt[i.node] = Segments[i.node]
    BY <2>1, <2>3, ShownInPlace
  <2>5. Segments[i.node] \in Seq(Names)
    BY <2>3, SegmentsExist DEF ScanInv, SegmentsDefined
  <2>6. Append(Segments[i.node], i.name) = <<i.bucket>> \o i.rel
    BY <2>3, <2>5, Appended DEF ScanInv, ItemsInPlace
  <2> QED BY <2>1, <2>2, <2>3, <2>4, <2>5, <2>6 DEF Rows
<1>2. ASSUME ~overlap, NEW e \in ObjectEntries, NEW f \in ObjectEntries, e.path = f.path
      PROVE  e = f
  <2>1. Segments[e.item.node] = Segments[f.item.node] /\ e.item.name = f.item.name
    <3>1. PICK s, t, x, y : /\ s = Segments[e.item.node] /\ x = e.item.name
                            /\ t = Segments[f.item.node] /\ y = f.item.name
      OBVIOUS
    <3>2. /\ s \in Seq(Names) /\ t \in Seq(Names) /\ x \in Names /\ y \in Names
          /\ Append(s, x) = Append(t, y)
      BY <1>1, <1>2, <3>1
    <3>3. s = t /\ x = y
      BY <3>2, AppendedSame
    <3> QED BY <3>1, <3>3
  <2>2. TopsOnce
    BY <1>2 DEF OneByOne
  <2>3. e.item.node = f.item.node
    BY <1>1, <2>1, <2>2, SegmentsDiffer
  <2>4. e.item = f.item
    BY <1>1, <2>1, <2>3 DEF ScanInv, ItemsUnique
  <2> QED BY <1>1, <1>2, <2>4
<1> QED BY <1>1, <1>2

\* Whatever scans do between the three SELECTs of a reader: the tree has every
\* object where its key puts it, and none twice unless scans overlap
\* (GetResourceTree, buildObjectStorageTree).
THEOREM TreeStaysInPlace == ExplorerSpec => TreeInPlace
<1>1. ScanInv /\ OneByOne =>
        [TreeBuilt => /\ \A e \in ObjectEntries : e.path = <<e.item.bucket>> \o e.item.rel
                      /\ ~overlap => \A e, f \in ObjectEntries : e.path = f.path => e = f]_vars
  BY TreeRight
<1> QED BY <1>1, ScanInvariant, OneRowPerBucket, PTL DEF TreeInPlace

\* No key is the name of a bucket with another key below it.
KeysApart == \A b \in Buckets, k, l \in Keys : k # <<b>> \o l

\* A bucket's name is cut off.
LEMMA CutOff ==
  ASSUME NEW b \in Names, NEW s \in Seq(Names), s # <<>>
  PROVE  ObjectPath(b, <<b>> \o s) = s
<1>1. <<b>> \in Seq(Names) /\ Len(<<b>>) = 1 /\ <<b>>[1] = b
  OBVIOUS
<1>2. PICK t : t = <<b>> \o s
  OBVIOUS
<1>3. /\ t \in Seq(Names) /\ Len(t) = 1 + Len(s) /\ Len(s) \in Nat /\ Len(s) > 0
      /\ \A i \in 1 .. 1 + Len(s) : t[i] = IF i <= 1 THEN <<b>>[i] ELSE s[i - 1]
  <2>1. Len(s) \in Nat /\ Len(s) > 0
    BY NotEmpty
  <2>2. /\ t \in Seq(Names) /\ Len(t) = Len(<<b>>) + Len(s)
        /\ \A i \in 1 .. Len(<<b>>) + Len(s) :
              t[i] = IF i <= Len(<<b>>) THEN <<b>>[i] ELSE s[i - Len(<<b>>)]
    BY <1>1, <1>2, Concatenation
  <2> QED BY <1>1, <2>1, <2>2
<1>4. t[1] = b /\ Len(t) > 1
  BY <1>1, <1>3
<1>5. /\ Tail(t) \in Seq(Names) /\ Len(Tail(t)) = Len(s)
      /\ \A i \in 1 .. Len(s) : Tail(t)[i] = t[i + 1]
  BY <1>3
<1>6. ASSUME NEW i \in 1 .. Len(s) PROVE Tail(t)[i] = s[i]
  <2>1. i + 1 \in 1 .. 1 + Len(s) /\ ~(i + 1 <= 1) /\ (i + 1) - 1 = i
    BY <1>3
  <2> QED BY <1>3, <1>5, <2>1
<1>7. Tail(t) = s
  BY <1>5, <1>6, SameSequence
<1> QED BY <1>2, <1>4, <1>7 DEF ObjectPath

\* The path shown for an item, as previewObjectStorage uses it.
LEMMA ItemOpens ==
  ASSUME ScanInv, KeysApart, \A j \in items : j.rel = j.key, NEW i \in items
  PROVE  LET path == ObjectPath(i.bucket, Append(Segments[i.node], i.name))
         IN  /\ path = i.key /\ PreviewType(i.bucket, path) = "object"
             /\ \A j \in ItemsAt(i.bucket, path) : j.key = i.key
<1>1. /\ i.node \in NodeIds /\ node[i.node] # None /\ i.name \in Names
      /\ i.bucket \in Buckets /\ i.bucket \in Names /\ i.key \in Keys /\ i.rel = i.key
      /\ i.key \in Seq(Names) /\ i.key # <<>>
  BY ConstantsAssumption DEF ScanInv, Types, MetaItem, ItemsInPlace, Names, ConstantsAssumption
<1>2. Segments[i.node] \in Seq(Names)
  BY <1>1, SegmentsExist DEF ScanInv, SegmentsDefined
<1>3. Append(Segments[i.node], i.name) = <<i.bucket>> \o i.key
  <2>1. Append(Segments[i.node], i.name) = Segments[i.node] \o <<i.name>>
    BY <1>1, <1>2, Appended
  <2> QED BY <1>1, <2>1 DEF ScanInv, ItemsInPlace
<1>4. PICK path : path = ObjectPath(i.bucket, Append(Segments[i.node], i.name))
  OBVIOUS
<1>5. path = i.key
  BY <1>1, <1>3, <1>4, CutOff
<1>6. i \in ItemsAt(i.bucket, path)
  BY <1>1, <1>5 DEF ItemsAt
<1>7. PreviewType(i.bucket, path) = "object"
  BY <1>1, <1>5, <1>6 DEF PreviewType
<1>8. ASSUME NEW j \in ItemsAt(i.bucket, path) PROVE j.key = i.key
  <2>1. j \in items /\ (path = <<i.bucket>> \o j.key \/ path = j.rel)
    BY DEF ItemsAt
  <2>2. j.key \in Keys /\ j.rel = j.key
    BY <2>1 DEF ScanInv, Types, MetaItem
  <2> QED BY <1>1, <1>5, <2>1, <2>2 DEF KeysApart
<1> QED BY <1>4, <1>5, <1>7, <1>8

\* A row has segments.
LEMMA RowSegments ==
  ASSUME ScanInv, NEW p \in Rows
  PROVE  Segments[p] \in Seq(Names) /\ Segments[p] # <<>>
<1>1. SegmentsDefined
  BY SegmentsExist DEF ScanInv
<1>2. p \in NodeIds /\ node[p] # None /\ node[p].name \in Names
  BY RowFields DEF Rows, ScanInv, Types
<1>3. Segments[p] \in Seq(Names)
  BY <1>1, <1>2 DEF SegmentsDefined
<1>4. CASE node[p].parent = 0
  <2>1. Segments[p] = <<node[p].name>>
    BY <1>1, <1>2, <1>4 DEF SegmentsDefined
  <2>2. <<node[p].name>> # <<>>
    OBVIOUS
  <2> QED BY <1>3, <2>1, <2>2
<1>5. CASE node[p].parent # 0
  <2>1. node[p].parent \in NodeIds
    BY <1>2, <1>5, RowFields DEF ScanInv, Types
  <2>2. Segments[node[p].parent] \in Seq(Names)
    BY <1>1, <2>1 DEF SegmentsDefined
  <2>3. Segments[p] = Append(Segments[node[p].parent], node[p].name)
    BY <1>1, <1>2, <1>5 DEF SegmentsDefined
  <2> QED BY <1>2, <1>3, <2>2, <2>3, Appended
<1> QED BY <1>4, <1>5

\* Sequences with the same first element and the same rest.
LEMMA SameRest ==
  ASSUME NEW s \in Seq(Names), NEW t \in Seq(Names), s # <<>>, t # <<>>,
         s[1] = t[1], Tail(s) = Tail(t)
  PROVE  s = t
<1>1. Len(s) \in Nat /\ Len(s) > 0 /\ Len(t) \in Nat /\ Len(t) > 0
  BY NotEmpty
<1>2. Len(s) = Len(t)
  BY <1>1
<1>3. ASSUME NEW i \in 1 .. Len(s) PROVE s[i] = t[i]
  <2>1. CASE i = 1
    BY <2>1
  <2>2. CASE i # 1
    <3>1. i - 1 \in 1 .. Len(s) - 1 /\ (i - 1) + 1 = i
      BY <1>1, <2>2
    <3>2. Tail(s)[i - 1] = s[i] /\ Tail(t)[i - 1] = t[i]
      BY <1>1, <1>2, <3>1
    <3> QED BY <3>2
  <2> QED BY <2>1, <2>2
<1> QED BY <1>1, <1>2, <1>3, SameSequence

\* The path shown for a directory.
LEMMA DirectoryOpens ==
  ASSUME ScanInv, OneByOne, NEW n \in ChildRows
  PROVE  LET b == Segments[n][1]
             path == ObjectPath(b, Segments[n])
             own == {m \in NodesAt(b, path) : Segments[m][1] = b}
         IN  /\ path = Tail(Segments[n]) /\ n \in own
             /\ path[1] # b => \A m \in own :
                   Segments[m] = Segments[n] /\ (~overlap => m = n)
<1>1. SegmentsDefined
  BY SegmentsExist DEF ScanInv
<1>2. /\ n \in Rows /\ n \in NodeIds /\ node[n] # None /\ node[n].name \in Names
      /\ node[n].parent # 0 /\ node[n].parent \in NodeIds
      /\ node[node[n].parent] # None /\ node[n].parent \in Rows
  BY RowFields DEF ChildRows, ScanInv, Types, Forest, TreeSound, Rows
<1>3. PICK p : p = node[n].parent
  OBVIOUS
<1>4. node[p].name \in Names
  BY <1>2, <1>3, RowFields DEF ScanInv, Types
<1>5. Segments[p] \in Seq(Names) /\ Segments[p] # <<>>
  BY <1>2, <1>3, RowSegments
<1>6. PICK s : s = Segments[n]
  OBVIOUS
<1>7. s = Append(Segments[p], node[n].name)
  BY <1>1, <1>2, <1>3, <1>6 DEF SegmentsDefined
<1>8. s \in Seq(Names) /\ Len(s) \in Nat /\ Len(s) > 1
  <2>1. Len(Segments[p]) \in Nat /\ Len(Segments[p]) > 0
    BY <1>5, NotEmpty
  <2>2. Len(s) = Len(Segments[p]) + 1 /\ s \in Seq(Names)
    BY <1>2, <1>5, <1>7, Appended
  <2> QED BY <2>1, <2>2
<1>9. ObjectPath(s[1], s) = Tail(s)
  BY <1>8 DEF ObjectPath
<1>10. Tail(s) # <<>>
  <2>1. PICK t : t = Tail(s)
    OBVIOUS
  <2>2. PICK l : l = Len(s)
    OBVIOUS
  <2>3. t \in Seq(Names) /\ Len(t) = l - 1
    <3>1. s # <<>>
      BY <1>8, NotEmpty
    <3> QED BY <1>8, <2>1, <2>2, <3>1
  <2>4. l \in Nat /\ l > 1
    BY <1>8, <2>2
  <2>5. Len(t) # 0
    BY <2>3, <2>4
  <2>6. \A u \in Seq(Names) : u = <<>> => Len(u) = 0
    OBVIOUS
  <2> QED BY <2>1, <2>3, <2>5, <2>6
<1>11. n \in NodesAt(s[1], Tail(s))
  BY <1>2, <1>6, <1>10 DEF NodesAt
<1>12. ASSUME NEW m \in NodesAt(s[1], Tail(s)), Segments[m][1] = s[1], Tail(s)[1] # s[1]
       PROVE  Segments[m] = s /\ (~overlap => m = n)
  <2>1. m \in Rows /\ Tail(s) \in {Tail(Segments[m]), Segments[m]}
    BY <1>10, <1>12 DEF NodesAt
  <2>2. Tail(s) = Tail(Segments[m])
    BY <1>12, <2>1
  <2>3. PICK t : t = Segments[m]
    OBVIOUS
  <2>4. t \in Seq(Names) /\ t # <<>>
    BY <2>1, <2>3, RowSegments
  <2>5. s # <<>>
    BY <1>8, NotEmpty
  <2>6. t = s
    BY <1>8, <1>12, <2>2, <2>3, <2>4, <2>5, SameRest
  <2>7. ~overlap => m = n
    BY <1>2, <1>6, <2>1, <2>3, <2>6, SegmentsDiffer DEF OneByOne
  <2> QED BY <2>3, <2>6, <2>7
<1> DEFINE b == Segments[n][1]
           path == ObjectPath(b, Segments[n])
           own == {m \in NodesAt(b, path) : Segments[m][1] = b}
<1>13. b = s[1] /\ path = Tail(s)
  BY <1>6, <1>9
<1>14. n \in own /\ \A m \in own : m \in NodesAt(s[1], Tail(s)) /\ Segments[m][1] = s[1]
  BY <1>6, <1>11, <1>13
<1> HIDE DEF b, path, own
<1>15. /\ path = Tail(Segments[n]) /\ n \in own
       /\ path[1] # b => \A m \in own : Segments[m] = Segments[n] /\ (~overlap => m = n)
  BY <1>6, <1>12, <1>13, <1>14
<1> QED BY <1>15 DEF b, path, own

\* A click on an object of the tree opens that object and no other one, provided
\* that no key is the name of a bucket with another key below it: the one look-up
\* by path with bucket or path without it (GetObjectMetadataItem) could find both.
\* The path of a directory finds the directory's row and, in its bucket, no row
\* of another directory, and without overlapping scans no other row. (Rows of
\* other buckets are found, too, if these have the same path.)
THEOREM ClicksOpen ==
  ASSUME KeysApart
  PROVE  ExplorerSpec => []ClickOpens
<1>1. ScanInv /\ OneByOne => ClickOpens
  BY ItemOpens, DirectoryOpens DEF ClickOpens
<1> QED BY <1>1, ScanInvariant, OneRowPerBucket, PTL

-----------------------------------------------------------------------------
(* Counts, of scans that do not overlap *)

\* The names that objects get which a scan of path p may find.
Rels(p) ==
    {o.rel : o \in UNION {metas.objs :
        metas \in UNION {Answers(p, c, f) : c \in SUBSET Keys, f \in BOOLEAN}}}

\* Paths that are selected together do not give one name in a bucket twice.
Disjoint(paths) ==
    \A p, q \in paths : p # q /\ p[1] = q[1] => Rels(p) \cap Rels(q) = {}

SelectedOnce == \A sel \in Selections : Disjoint(sel)

\* The items below row n, and those of bucket b by their names.
Under(n) == {i \in items : n \in IdPath[i.node]}
Filed(b) == {i.rel : i \in {j \in items : j.bucket = b}}

\* Only rows whose path has been written have rows or items below them, or are
\* scanned.
Written ==
    /\ \A n \in Rows : ~node[n].pathed => node[n].status = Unscanned
    /\ \A i \in items : node[i.node].pathed
    /\ \A n \in Rows : node[n].parent # 0 => node[node[n].parent].pathed

HeldIds(r) == Range(r.chain) \cup Range(r.own) \cup DOMAIN r.stat
HeldWritten(r) == \A n \in HeldIds(r) \cap Rows : node[n].pathed

\* The buckets that a request with progress r has cleared, and the rows below.
ClearPCs == {"reset", "delnodes", "delitems"}
Cleared(r) == (Range(r.own) \ {0}) \ (IF r.pc \in ClearPCs THEN {r.chain[1]} ELSE {})
Mine(r) == {n \in Rows : IdPath[n] \cap Cleared(r) # {}}

\* The chain of a request ends at a row and has all rows above it.
Chained(r) ==
    r.pc \in PathPCs \ {"list"} =>
        IF r.chain = <<>> THEN r.own[r.at[1]] = 0
        ELSE /\ r.own[r.at[1]] = r.chain[1]
             /\ node[Last(r.chain)] # None => Range(r.chain) = IdPath[Last(r.chain)]

\* The statistics of a request are those of the rows that it has written.
CountOf(r, n) == IF n \in DOMAIN r.stat THEN r.stat[n] ELSE 0
Tally(r) ==
    IF r.pc = "final"
    THEN \A n \in Rows :
            /\ n \in DOMAIN r.stat => r.stat[n] = Cardinality(Under(n))
            /\ n \in Range(r.own) /\ n \notin DOMAIN r.stat => Under(n) = {}
    ELSE /\ \A n \in Mine(r) :
               node[n].status # Scanned /\ CountOf(r, n) = Cardinality(Under(n))
         /\ DOMAIN r.stat \cap Rows \subseteq Mine(r)

\* What a request has done to a bucket that it is clearing.
Clearing(r) ==
    /\ r.pc \in {"delnodes", "delitems"} => node[r.chain[1]].status = Scanning
    /\ r.pc = "delitems" => \A n \in Rows \ {r.chain[1]} :
          r.chain[1] \in IdPath[n] => ~node[n].pathed

\* Nothing that a request has still to write is there already: of the paths it
\* has not listed yet, and of the one in work.
Ahead(r) ==
    /\ Disjoint(r.todo)
    /\ r.pc \in PathPCs => r.at \notin r.todo /\ Disjoint(r.todo \cup {r.at})
    /\ r.pc # "final" => \A p \in r.todo \cup (IF r.pc = "list" THEN {r.at} ELSE {}) :
          r.own[p[1]] \in Cleared(r) => Rels(p) \cap Filed(p[1]) = {}

InWork(r) == r.pc \in ItemPCs \/ (r.pc \in UpsertPCs /\ r.obj # None)
Waiting(r) == r.objs \cup (IF InWork(r) THEN {r.obj} ELSE {})
Queued(r) ==
    r.pc \in PathPCs \ {"list"} =>
        /\ \A o \in Waiting(r) : o.rel \in Rels(r.at)
        /\ \A o, p \in Waiting(r) : o.rel = p.rel => o = p
        /\ InWork(r) => r.obj \notin r.objs
        /\ r.chain # <<>> /\ r.pc \notin ClearPCs =>
              \A o \in Waiting(r) : o.rel \notin Filed(r.at[1])

Counting(r) ==
    /\ Chained(r) /\ Tally(r) /\ Clearing(r) /\ Ahead(r) /\ Queued(r)
    /\ r.pc # "updateitem"

CountsRight ==
    \A n \in Rows : node[n].status = Scanned => node[n].count = Cardinality(Under(n))

CountInv ==
    /\ IsFiniteSet(items)
    /\ Written
    /\ \A w \in Requests : HeldWritten(req[w])
    /\ ~overlap => CountsRight /\ \A w \in Requests : Active(w) => Counting(req[w])

-----------------------------------------------------------------------------

\* The rows above a row: one of them is that of a bucket, the one that its
\* segments begin with.
Lined(n) ==
    /\ n \in IdPath[n] /\ IdPath[n] \subseteq Rows
    /\ Segments[n] # <<>>
    /\ \E t \in IdPath[n] : /\ node[t].parent = 0 /\ node[t].name = Segments[n][1]
                            /\ \A s \in IdPath[n] : node[s].parent = 0 => s = t
    /\ \A m \in IdPath[n] : IdPath[m] \subseteq IdPath[n]

LEMMA Lineage == ASSUME Forest, NEW n \in Rows PROVE Lined(n)
<1>1. SegmentsDefined /\ IdPathDefined
  BY SegmentsExist, IdPathExists
<1>2. PICK height \in Nat : \E rank \in [NodeIds -> 0 .. height] :
         \A m \in Rows : node[m].parent # 0 => rank[node[m].parent] < rank[m]
  BY DEF Forest, Ranked
<1>3. PICK rank \in [NodeIds -> 0 .. height] :
         \A m \in Rows : node[m].parent # 0 => rank[node[m].parent] < rank[m]
  BY <1>2
<1> DEFINE Bad == {m \in Rows : ~Lined(m)}
<1> SUFFICES ASSUME Bad # {} PROVE FALSE
  OBVIOUS
<1>4. PICK m \in Bad : \A k \in Bad : rank[m] <= rank[k]
  <2>1. {rank[k] : k \in Bad} \in SUBSET Nat /\ {rank[k] : k \in Bad} # {}
    BY DEF Rows
  <2>2. PICK l \in {rank[k] : k \in Bad} : \A k \in {rank[j] : j \in Bad} : l <= k
    BY <2>1, LeastElement
  <2> QED BY <2>2
<1>5. m \in Rows /\ m \in NodeIds /\ node[m] # None /\ node[m].name \in Names
  BY <1>4, RowFields DEF Rows, Forest
<1>6. node[m].parent # 0
  <2> SUFFICES ASSUME node[m].parent = 0 PROVE Lined(m)
    BY <1>4
  <2>1. IdPath[m] = {m} /\ Segments[m] = <<node[m].name>>
    BY <1>1, <1>5 DEF SegmentsDefined, IdPathDefined
  <2>2. <<node[m].name>> # <<>> /\ <<node[m].name>>[1] = node[m].name
    OBVIOUS
  <2> QED BY <1>5, <2>1, <2>2 DEF Lined
<1>7. PICK p : p = node[m].parent
  OBVIOUS
<1>8. p \in Rows /\ p \in NodeIds
  BY <1>5, <1>6, <1>7, RowFields DEF Forest, TreeSound, Rows
<1>9. Lined(p)
  <2>1. rank[p] < rank[m] /\ rank[p] \in Nat /\ rank[m] \in Nat
    BY <1>3, <1>5, <1>6, <1>7, <1>8
  <2> QED BY <1>4, <1>8, <2>1
<1>10. IdPath[m] = IdPath[p] \cup {m}
  BY <1>1, <1>5, <1>6, <1>7 DEF IdPathDefined
<1>11. Segments[m] # <<>> /\ Segments[m][1] = Segments[p][1]
  <2>1. Segments[m] = Append(Segments[p], node[m].name) /\ Segments[p] \in Seq(Names)
    BY <1>1, <1>5, <1>6, <1>7, <1>8 DEF SegmentsDefined
  <2>2. Segments[p] # <<>>
    BY <1>9 DEF Lined
  <2>3. Len(Segments[p]) \in Nat /\ Len(Segments[p]) > 0
    BY <2>1, <2>2, NotEmpty
  <2>4. /\ Segments[m] \in Seq(Names) /\ Len(Segments[m]) = Len(Segments[p]) + 1
        /\ \A i \in 1 .. Len(Segments[p]) : Segments[m][i] = Segments[p][i]
    BY <1>5, <2>1, Appended
  <2>5. Len(Segments[m]) # 0 /\ 1 \in 1 .. Len(Segments[p])
    BY <2>3, <2>4
  <2>6. Segments[m] # <<>>
    BY <2>5
  <2> QED BY <2>4, <2>5, <2>6
<1>12. \E t \in IdPath[m] : /\ node[t].parent = 0 /\ node[t].name = Segments[m][1]
                            /\ \A s \in IdPath[m] : node[s].parent = 0 => s = t
  BY <1>6, <1>9, <1>10, <1>11 DEF Lined
<1>13. m \in IdPath[m] /\ IdPath[m] \subseteq Rows
  BY <1>5, <1>9, <1>10 DEF Lined
<1>14. \A k \in IdPath[m] : IdPath[k] \subseteq IdPath[m]
  BY <1>9, <1>10 DEF Lined
<1>15. Lined(m)
  BY <1>11, <1>12, <1>13, <1>14 DEF Lined
<1> QED BY <1>4, <1>15

LEMMA IdPathExistsNext == Forest' => IdPathDefined'
  BY IdPathExists, PTL

\* A row that survives a step keeps the rows above it.
LEMMA IdPathKept ==
  ASSUME Forest, Forest', \A n \in Rows : n \in Rows' => SameShape(n),
         NEW n \in Rows, n \in Rows'
  PROVE  IdPath'[n] = IdPath[n]
<1>1. IdPathDefined /\ IdPathDefined'
  BY IdPathExists, IdPathExistsNext
<1>11. PICK height \in Nat : \E rank \in [NodeIds -> 0 .. height] :
         \A m \in Rows : node[m].parent # 0 => rank[node[m].parent] < rank[m]
  BY DEF Forest, Ranked
<1>2. PICK rank \in [NodeIds -> 0 .. height] :
         \A m \in Rows : node[m].parent # 0 => rank[node[m].parent] < rank[m]
  BY <1>11
<1> DEFINE Bad == {m \in Rows : m \in Rows' /\ IdPath'[m] # IdPath[m]}
<1> SUFFICES ASSUME n \in Bad PROVE FALSE
  OBVIOUS
<1>3. PICK m \in Bad : \A k \in Bad : rank[m] <= rank[k]
  <2>1. {rank[k] : k \in Bad} \in SUBSET Nat /\ {rank[k] : k \in Bad} # {}
    BY DEF Rows
  <2>2. PICK l \in {rank[k] : k \in Bad} : \A k \in {rank[j] : j \in Bad} : l <= k
    BY <2>1, LeastElement
  <2> QED BY <2>2
<1>4. /\ m \in NodeIds /\ m \in Rows /\ m \in Rows' /\ node[m] # None /\ node'[m] # None
      /\ SameShape(m)
  BY <1>3 DEF Rows
<1>5. node[m].parent # 0
  BY <1>1, <1>3, <1>4 DEF IdPathDefined, SameShape
<1>6. /\ node[m].parent \in NodeIds /\ node[m].parent \in Rows /\ node[m].parent \in Rows'
  BY <1>4, <1>5, RowFields DEF Forest, TreeSound, SameShape, Rows
<1>7. node[m].parent \notin Bad
  <2>1. rank[node[m].parent] < rank[m] /\ rank[node[m].parent] \in Nat /\ rank[m] \in Nat
    BY <1>2, <1>4, <1>5, <1>6
  <2> QED BY <1>3, <2>1
<1>8. IdPath'[node[m].parent] = IdPath[node[m].parent]
  BY <1>6, <1>7
<1>9. IdPath[m] = IdPath[node[m].parent] \cup {m}
  BY <1>1, <1>4, <1>5 DEF IdPathDefined
<1>10. IdPath'[m] = IdPath'[node[m].parent] \cup {m}
  BY <1>1, <1>4, <1>5 DEF IdPathDefined, SameShape
<1> QED BY <1>3, <1>8, <1>9, <1>10

\* A step that moves no row.
LEMMA IdPathSame ==
  ASSUME Forest, Forest', Rows' = Rows, \A n \in Rows : SameShape(n)
  PROVE  IdPath' = IdPath
<1>1. IdPathDefined /\ IdPathDefined'
  BY IdPathExists, IdPathExistsNext
<1>2. ASSUME NEW n \in NodeIds PROVE IdPath'[n] = IdPath[n]
  <2>1. CASE n \in Rows
    BY <2>1, IdPathKept
  <2>2. CASE n \notin Rows
    BY <1>1, <2>2 DEF IdPathDefined, Rows
  <2> QED BY <2>1, <2>2
<1> QED BY <1>1, <1>2 DEF IdPathDefined

\* A row below bucket c has no other bucket above it.
LEMMA OneTop ==
  ASSUME Forest, NEW n \in Rows, NEW s \in IdPath[n], NEW t \in IdPath[n],
         node[s].parent = 0, node[t].parent = 0
  PROVE  s = t
  BY Lineage DEF Lined

\* What is below a row that is not below c is not below c.
LEMMA BelowApart ==
  ASSUME Forest, NEW m \in Rows, NEW n \in IdPath[m], NEW c \in Rows, node[c].parent = 0,
         c \in IdPath[m]
  PROVE  c \in IdPath[n]
<1>1. n \in Rows /\ IdPath[n] \subseteq IdPath[m]
  BY Lineage DEF Lined
<1>2. PICK t \in IdPath[n] : node[t].parent = 0
  BY <1>1, Lineage DEF Lined
<1> QED BY <1>1, <1>2, OneTop

LEMMA CountingAt ==
  ASSUME NEW v \in Requests, NEW s, Counting(s)', req'[v] = s
  PROVE  Counting(req[v])'
  BY DEF Counting, Chained, Tally, Mine, Cleared, CountOf, Clearing, Ahead, Queued, InWork, Waiting

LEMMA RowFieldsNext ==
  ASSUME RowsTyped', NEW n \in Rows'
  PROVE  node'[n].parent \in NodeIds \cup {0}
  BY DEF RowsTyped, Rows, MetaNode

LEMMA ChainIn ==
  ASSUME NEW r \in Progress, r.chain # <<>>
  PROVE  r.chain[1] \in Range(r.chain) /\ Last(r.chain) \in Range(r.chain)
<1>1. r.chain \in Seq(NodeIds)
  BY DEF Progress
<1>2. Len(r.chain) \in Nat /\ Len(r.chain) # 0 /\ DOMAIN r.chain = 1 .. Len(r.chain)
  BY <1>1
<1>3. 1 \in DOMAIN r.chain /\ Len(r.chain) \in DOMAIN r.chain
  BY <1>2
<1> QED BY <1>3 DEF Last, Range

-----------------------------------------------------------------------------

\* A step of the active request.
LEMMA CountMoved ==
  ASSUME ScanInv, ScanInv', OneByOne, CountInv, NEW w \in Requests, Active(w),
         UNCHANGED overlap, NEW r, req' = [req EXCEPT ![w] = r],
         \A n \in Rows' :
            \/ /\ n \in Rows /\ SameShape(n) /\ (node[n].pathed => node'[n].pathed)
               /\ ~node'[n].pathed => node'[n].status = node[n].status
            \/ /\ n \in FreshIds /\ node'[n].status = Unscanned
               /\ node'[n].parent # 0 => node'[node'[n].parent].pathed,
         IsFiniteSet(items'), \A i \in items' : i \in items \/ node'[i.node].pathed,
         \A n \in Rows' : n \in HeldIds(r) => n \in HeldIds(req[w]) \/ node'[n].pathed,
         ~overlap => CountsRight' /\ (r.pc \in ActivePCs => Counting(r)')
  PROVE  CountInv'
<1>1. Written'
  <2>1. ASSUME NEW n \in Rows', ~node'[n].pathed PROVE node'[n].status = Unscanned
    BY <2>1 DEF CountInv, Written, RowsTyped, Rows, ScanInv, Types, MetaNode
  <2>2. ASSUME NEW i \in items' PROVE node'[i.node].pathed
    <3>1. i.node \in Rows'
      BY DEF ScanInv, Types, MetaItem, ItemsInPlace, Rows
    <3>2. i \in items => i.node \notin FreshIds
      BY FreshFacts DEF ScanInv, ItemsInPlace
    <3> QED BY <3>1, <3>2 DEF CountInv, Written
  <2>3. ASSUME NEW n \in Rows', node'[n].parent # 0 PROVE node'[node'[n].parent].pathed
    <3>1. node'[n].parent \in Rows'
      BY <2>3, RowFieldsNext DEF ScanInv, Forest, TreeSound, Rows
    <3>2. CASE n \in FreshIds
      BY <2>3, <3>2, FreshFacts DEF Rows
    <3>3. CASE n \notin FreshIds
      <4>1. node'[n].parent = node[n].parent /\ n \in Rows
        BY <3>3 DEF SameShape
      <4>2. node[n].parent \in Rows
        BY <2>3, <4>1, RowFields DEF ScanInv, Forest, TreeSound, Rows
      <4>3. node[n].parent \notin FreshIds
        BY <4>2, FreshFacts DEF Rows
      <4> QED BY <2>3, <3>1, <4>1, <4>2, <4>3 DEF CountInv, Written
    <3> QED BY <3>2, <3>3
  <2> QED BY <2>1, <2>2, <2>3 DEF Written
<1>2. req'[w] = r /\ \A v \in Requests \ {w} : req'[v] = req[v]
  BY DEF ScanInv, Types
<1>3. ASSUME NEW v \in Requests PROVE HeldWritten(req[v])'
  <2> SUFFICES ASSUME NEW n \in Rows', n \in HeldIds(req'[v]) PROVE node'[n].pathed
    BY DEF HeldWritten, HeldIds
  <2>3. n \in FreshIds => n \notin HeldIds(req[v])
    BY FreshFacts DEF HeldIds
  <2>1. CASE v = w
    BY <1>2, <2>1, <2>3 DEF CountInv, HeldWritten
  <2>2. CASE v # w
    BY <1>2, <2>2, <2>3 DEF CountInv, HeldWritten
  <2> QED BY <2>1, <2>2
<1>4. ASSUME ~overlap', NEW v \in Requests, Active(v)' PROVE Counting(req[v])'
  <2>1. v = w
    BY <1>2, <1>4 DEF Active, OneByOne
  <2>2. r.pc \in ActivePCs /\ Counting(r)'
    BY <1>2, <1>4, <2>1 DEF Active
  <2> QED BY <1>2, <2>1, <2>2, CountingAt
<1> QED BY <1>1, <1>3, <1>4 DEF CountInv

\* Where no row or item changes, what is counted does not.
LEMMA CountingSame ==
  ASSUME ScanInv, ScanInv', UNCHANGED <<node, items>>, NEW r, Counting(r)
  PROVE  Counting(r)'
<1>1. IdPath' = IdPath /\ Rows' = Rows
  <2>1. Rows' = Rows
    BY DEF Rows
  <2> QED BY <2>1, IdPathSame DEF ScanInv, SameShape
<1>2. \A n : Under(n)' = Under(n) /\ Filed(n)' = Filed(n)
  BY <1>1 DEF Under, Filed
<1>3. Mine(r)' = Mine(r)
  BY <1>1 DEF Mine, Cleared
<1>4. Chained(r)'
  BY <1>1 DEF Counting, Chained
<1>5. Tally(r)'
  BY <1>1, <1>2, <1>3 DEF Counting, Tally, CountOf
<1>6. Clearing(r)'
  BY <1>1 DEF Counting, Clearing
<1>7. Ahead(r)'
  BY <1>2 DEF Counting, Ahead, Cleared
<1>8. Queued(r)'
  BY <1>2 DEF Counting, Queued, InWork, Waiting
<1> QED BY <1>4, <1>5, <1>6, <1>7, <1>8 DEF Counting

LEMMA CountsSame ==
  ASSUME ScanInv, ScanInv', UNCHANGED <<node, items>>, CountsRight PROVE CountsRight'
<1>1. IdPath' = IdPath /\ Rows' = Rows
  <2>1. Rows' = Rows
    BY DEF Rows
  <2> QED BY <2>1, IdPathSame DEF ScanInv, SameShape
<1>2. \A n : Under(n)' = Under(n)
  BY <1>1 DEF Under
<1> QED BY <1>1, <1>2 DEF CountsRight

\* A step of the active request that changes no row and no item.
LEMMA CountMovedOn ==
  ASSUME ScanInv, ScanInv', OneByOne, CountInv, NEW w \in Requests, Active(w),
         UNCHANGED <<overlap, node, items>>, NEW r, req' = [req EXCEPT ![w] = r],
         HeldIds(r) \subseteq HeldIds(req[w]) \cup {0},
         ~overlap /\ Counting(req[w]) /\ r.pc \in ActivePCs => Counting(r)
  PROVE  CountInv'
<1>1. \A n \in Rows' : n \in Rows /\ SameShape(n) /\ n # 0
  BY ConstantsAssumption DEF Rows, SameShape, ConstantsAssumption
<1>2. ~overlap => CountsRight' /\ (r.pc \in ActivePCs => Counting(r)')
  BY CountingSame, CountsSame DEF CountInv
<1> QED BY <1>1, <1>2, CountMoved DEF CountInv

\* Steps that leave the tables alone and begin nothing.
LEMMA CountElsewhere ==
  ASSUME ScanInv, ScanInv', CountInv, UNCHANGED <<node, items, overlap>>,
         \A v \in Requests : \/ req'[v] = req[v]
                             \/ req'[v] = Fresh("dead", FALSE, {})
  PROVE  CountInv'
<1>1. \A v \in Requests : req'[v] = req[v] \/ (~Active(v)' /\ HeldIds(req'[v]) \subseteq {0})
  <2>1. PICK f : f = Fresh("dead", FALSE, {})
    OBVIOUS
  <2>2. f.pc = "dead" /\ HeldIds(f) \subseteq {0}
    BY <2>1 DEF Fresh, HeldIds, Range
  <2> QED BY <2>1, <2>2 DEF Active, ActivePCs
<1>2. Rows' = Rows /\ 0 \notin Rows
  BY ConstantsAssumption DEF Rows, ConstantsAssumption
<1>3. Written'
  BY <1>2 DEF CountInv, Written
<1>4. ASSUME NEW v \in Requests PROVE HeldWritten(req[v])'
  <2> SUFFICES ASSUME NEW n \in Rows', n \in HeldIds(req'[v]) PROVE node'[n].pathed
    BY DEF HeldWritten, HeldIds
  <2> QED BY <1>1, <1>2 DEF CountInv, HeldWritten
<1>5. ASSUME ~overlap', NEW v \in Requests, Active(v)' PROVE Counting(req[v])'
  <2>1. req'[v] = req[v] /\ Active(v) /\ Counting(req[v])
    BY <1>1, <1>5 DEF Active, CountInv
  <2>2. PICK r : r = req[v]
    OBVIOUS
  <2>3. Counting(r)
    BY <2>1, <2>2
  <2> QED BY <2>1, <2>2, <2>3, CountingSame, CountingAt
<1> QED BY <1>3, <1>4, <1>5, CountsSame DEF CountInv

-----------------------------------------------------------------------------

\* A request that has no path in work, and holds nothing.
LEMMA CountFresh ==
  ASSUME NEW auto, NEW todo, NEW pc \in {"path", "failed", "done", "dead"}, Disjoint(todo),
         NEW r, r = Fresh(pc, auto, todo)
  PROVE  HeldIds(r) \subseteq {0} /\ (r.pc \in ActivePCs => Counting(r))
<1>1. /\ r.pc = pc /\ r.todo = todo /\ r.chain = <<>> /\ DOMAIN r.stat = {}
      /\ Range(r.own) \subseteq {0} /\ r.own \in [Buckets -> {0}]
  BY DEF Fresh, Range
<1>2. HeldIds(r) \subseteq {0}
  BY <1>1 DEF HeldIds, Range
<1>3. ASSUME r.pc \in ActivePCs PROVE Counting(r)
  <2>1. r.pc = "path"
    BY <1>1, <1>3 DEF ActivePCs
  <2>2. r.pc \notin PathPCs /\ r.pc \notin ClearPCs
    BY <2>1 DEF PathPCs, ClearPCs
  <2>3. Cleared(r) = {} /\ Mine(r) = {}
    BY <1>1 DEF Cleared, Mine
  <2>4. Tally(r)
    BY <1>1, <2>1, <2>3 DEF Tally
  <2>5. Chained(r) /\ Clearing(r) /\ Queued(r)
    BY <2>1, <2>2 DEF Chained, Clearing, Queued
  <2>6. Ahead(r)
    BY <1>1, <2>1, <2>2, <2>3 DEF Ahead
  <2> QED BY <2>1, <2>4, <2>5, <2>6 DEF Counting
<1> QED BY <1>2, <1>3

LEMMA CountBegin ==
  ASSUME SelectedOnce, ScanInv, ScanInv', CountInv, NEW w \in Requests,
         BeginAuto(w) \/ BeginManual(w)
  PROVE  CountInv'
<1>1. PICK auto, todo : Begin(w, auto, todo) /\ Disjoint(todo)
  <2>1. Disjoint(WholeBuckets)
    BY DEF Disjoint, WholeBuckets
  <2> QED BY <2>1 DEF BeginAuto, BeginManual, SelectedOnce
<1>2. PICK r : r = Fresh("path", auto, todo)
  OBVIOUS
<1>3. HeldIds(r) \subseteq {0} /\ (r.pc \in ActivePCs => Counting(r))
  BY <1>1, <1>2, CountFresh
<1>4. /\ req' = [req EXCEPT ![w] = r] /\ UNCHANGED <<node, items>>
      /\ overlap' = (overlap \/ \E v \in Requests : Active(v))
  BY <1>1, <1>2 DEF Begin, Set, dbVars
<1>5. req'[w] = r /\ \A v \in Requests \ {w} : req'[v] = req[v]
  BY <1>4 DEF ScanInv, Types
<1>6. Rows' = Rows /\ 0 \notin Rows
  BY <1>4, ConstantsAssumption DEF Rows, ConstantsAssumption
<1>7. Written'
  BY <1>4, <1>6 DEF CountInv, Written
<1>8. ASSUME NEW v \in Requests PROVE HeldWritten(req[v])'
  <2> SUFFICES ASSUME NEW n \in Rows', n \in HeldIds(req'[v]) PROVE node'[n].pathed
    BY DEF HeldWritten, HeldIds
  <2>1. v # w
    BY <1>3, <1>5, <1>6
  <2> QED BY <1>4, <1>5, <1>6, <2>1 DEF CountInv, HeldWritten
<1>9. ASSUME ~overlap', NEW v \in Requests, Active(v)' PROVE Counting(req[v])'
  <2>1. v = w
    BY <1>4, <1>5, <1>9 DEF Active
  <2>2. Counting(r)
    BY <1>3, <1>5, <1>9, <2>1 DEF Active
  <2> QED BY <1>4, <1>5, <2>1, <2>2, CountingSame, CountingAt
<1>10. ~overlap' => CountsRight'
  BY <1>4, CountsSame DEF CountInv
<1> QED BY <1>4, <1>7, <1>8, <1>9, <1>10 DEF CountInv

\* Statistics that stay as they are, apart from zeros, are right for the rows
\* to finalize too.
LEMMA TallyOn ==
  ASSUME ScanInv, IsFiniteSet(items), NEW q \in Progress, NEW r, Tally(q), q.pc # "final",
         Cleared(r) = Cleared(q), r.pc = "final" => r.own = q.own /\ q.pc \notin ClearPCs,
         \A n \in Rows : CountOf(r, n) = CountOf(q, n), DOMAIN r.stat \cap Rows \subseteq Mine(q)
  PROVE  Tally(r)
<1>1. /\ \A n \in Mine(q) : node[n].status # Scanned /\ CountOf(q, n) = Cardinality(Under(n))
      /\ Mine(r) = Mine(q)
  BY DEF Tally, Mine
<1>2. CASE r.pc # "final"
  BY <1>1, <1>2 DEF Tally, Mine
<1>3. CASE r.pc = "final"
  <2>1. ASSUME NEW n \in Rows, n \in DOMAIN r.stat PROVE r.stat[n] = Cardinality(Under(n))
    BY <1>1, <2>1 DEF CountOf
  <2>2. ASSUME NEW n \in Rows, n \in Range(r.own), n \notin DOMAIN r.stat PROVE Under(n) = {}
    <3>1. n \in Cleared(q)
      BY <1>3, <2>2, ConstantsAssumption DEF Cleared, Rows, ConstantsAssumption
    <3>2. n \in Mine(q)
      BY <3>1, Lineage DEF Mine, Lined, ScanInv
    <3>3. Cardinality(Under(n)) = 0
      BY <1>1, <2>2, <3>2 DEF CountOf
    <3>4. IsFiniteSet(Under(n))
      BY FS_Subset DEF Under
    <3> QED BY <3>3, <3>4, FS_EmptySet
  <2> QED BY <1>3, <2>1, <2>2 DEF Tally
<1> QED BY <1>2, <1>3

\* A request that gives up its path.
LEMMA CountGiveUp ==
  ASSUME ScanInv, CountInv, NEW w \in Requests, NEW r, r = GiveUp(w),
         req[w].pc \in ActivePCs \ {"path", "list", "meta"}
  PROVE  /\ HeldIds(r) \subseteq HeldIds(req[w]) \cup {0}
         /\ Counting(req[w]) /\ r.pc \in ActivePCs => Counting(r)
<1>1. PICK q : q = req[w]
  OBVIOUS
<1>2. q \in Progress
  BY <1>1, Before
<1>3. CASE q.chain # <<>> /\ q.pc \notin {"reset", "delnodes", "delitems", "final"}
  <2>1. r = [q EXCEPT !.pc = PathDone(w)] /\ PathDone(w) \in {"path", "final"}
    BY <1>1, <1>3 DEF GiveUp, PathDone
  <2>2. /\ r.pc \in {"path", "final"} /\ r.chain = q.chain /\ r.own = q.own /\ r.stat = q.stat
        /\ r.todo = q.todo
    BY <1>2, <2>1 DEF Progress
  <2>3. HeldIds(r) = HeldIds(q)
    BY <2>2 DEF HeldIds
  <2>4. ASSUME Counting(q) PROVE Counting(r)
    <3>1. q.pc \notin ClearPCs /\ q.pc # "final" /\ r.pc \notin ClearPCs /\ r.pc \notin PathPCs
      BY <1>3, <2>2 DEF ClearPCs, PathPCs
    <3>2. Cleared(r) = Cleared(q)
      BY <2>2, <3>1 DEF Cleared
    <3>3. Tally(r)
      <4>1. DOMAIN r.stat \cap Rows \subseteq Mine(q) /\ Tally(q)
        BY <2>2, <2>4, <3>1 DEF Counting, Tally
      <4>2. \A n \in Rows : CountOf(r, n) = CountOf(q, n)
        BY <2>2 DEF CountOf
      <4> QED BY <1>2, <2>2, <3>1, <3>2, <4>1, <4>2, TallyOn DEF CountInv
    <3>4. Ahead(r)
      BY <2>2, <2>4, <3>1, <3>2 DEF Counting, Ahead
    <3>5. Chained(r) /\ Clearing(r) /\ Queued(r) /\ r.pc # "updateitem"
      BY <2>2, <3>1 DEF Chained, Clearing, Queued
    <3> QED BY <3>3, <3>4, <3>5 DEF Counting
  <2> QED BY <1>1, <2>3, <2>4
<1>4. CASE ~(q.chain # <<>> /\ q.pc \notin {"reset", "delnodes", "delitems", "final"})
  <2>1. PICK pc : pc \in {"path", "failed"} /\ r = Fresh(pc, q.auto, q.todo)
    BY <1>1, <1>4 DEF GiveUp
  <2>2. r.pc = pc
    BY <2>1 DEF Fresh
  <2>3. HeldIds(r) \subseteq {0}
    BY <2>1 DEF Fresh, HeldIds, Range
  <2>4. ASSUME Counting(q), r.pc \in ActivePCs PROVE Counting(r)
    <3>1. Disjoint(q.todo)
      BY <2>4 DEF Counting, Ahead
    <3> QED BY <2>1, <2>4, <3>1, CountFresh
  <2> QED BY <1>1, <2>3, <2>4
<1> QED BY <1>3, <1>4

LEMMA CountGivenUp ==
  ASSUME ScanInv, ScanInv', OneByOne, CountInv, NEW w \in Requests,
         req[w].pc \in ActivePCs \ {"path", "list", "meta"},
         Set(w, GiveUp(w)), UNCHANGED <<overlap, node, items>>
  PROVE  CountInv'
<1>1. PICK r : r = GiveUp(w)
  OBVIOUS
<1>2. req' = [req EXCEPT ![w] = r] /\ Active(w)
  BY <1>1 DEF Set, Active
<1> QED BY <1>1, <1>2, CountGiveUp, CountMovedOn

LEMMA CountNextPath ==
  ASSUME ScanInv, ScanInv', OneByOne, CountInv, NEW w \in Requests, NextPath(w)
  PROVE  CountInv'
<1>1. PICK q : q = req[w]
  OBVIOUS
<1>2. q \in Progress /\ q.pc = "path" /\ Active(w) /\ UNCHANGED <<overlap, node, items>>
  BY <1>1, Before DEF NextPath, Active, ActivePCs, dbVars
<1>3. q.pc \notin ClearPCs /\ q.pc # "final"
  BY <1>2 DEF ClearPCs
<1>4. CASE q.todo = {} /\ Goto(w, IF q.auto THEN "done" ELSE "final")
  <2>1. PICK r : r = [q EXCEPT !.pc = IF q.auto THEN "done" ELSE "final"]
    OBVIOUS
  <2>2. /\ r.pc \in {"done", "final"} /\ r.chain = q.chain /\ r.own = q.own /\ r.stat = q.stat
        /\ r.todo = q.todo
    BY <1>2, <2>1 DEF Progress
  <2>3. req' = [req EXCEPT ![w] = r]
    BY <1>1, <1>4, <2>1 DEF Goto, Set
  <2>4. HeldIds(r) = HeldIds(q)
    BY <2>2 DEF HeldIds
  <2>5. ASSUME Counting(q), r.pc \in ActivePCs PROVE Counting(r)
    <3>1. r.pc = "final" /\ r.pc \notin PathPCs /\ r.pc \notin ClearPCs
      BY <2>2, <2>5 DEF ActivePCs, PathPCs, ClearPCs
    <3>2. Cleared(r) = Cleared(q)
      BY <1>3, <2>2, <3>1 DEF Cleared
    <3>3. Tally(r)
      <4>1. DOMAIN r.stat \cap Rows \subseteq Mine(q) /\ Tally(q)
        BY <1>3, <2>2, <2>5 DEF Counting, Tally
      <4>2. \A n \in Rows : CountOf(r, n) = CountOf(q, n)
        BY <2>2 DEF CountOf
      <4> QED BY <1>2, <1>3, <2>2, <3>2, <4>1, <4>2, TallyOn DEF CountInv
    <3>4. Ahead(r)
      BY <2>2, <2>5, <3>1 DEF Counting, Ahead
    <3>5. Chained(r) /\ Clearing(r) /\ Queued(r) /\ r.pc # "updateitem"
      BY <3>1 DEF Chained, Clearing, Queued
    <3> QED BY <3>3, <3>4, <3>5 DEF Counting
  <2> QED BY <1>1, <1>2, <2>3, <2>4, <2>5, CountMovedOn
<1>5. ASSUME NEW p \in q.todo, NEW pc \in {"path", "list"},
             Set(w, [q EXCEPT !.todo = @ \ {p}, !.at = p, !.chain = <<>>, !.pc = pc])
      PROVE  CountInv'
  <2>1. PICK r : r = [q EXCEPT !.todo = @ \ {p}, !.at = p, !.chain = <<>>, !.pc = pc]
    OBVIOUS
  <2>2. /\ r.pc = pc /\ r.chain = <<>> /\ r.own = q.own /\ r.stat = q.stat
        /\ r.todo = q.todo \ {p} /\ r.at = p
    BY <1>2, <2>1 DEF Progress
  <2>3. req' = [req EXCEPT ![w] = r]
    BY <1>5, <2>1 DEF Set
  <2>4. HeldIds(r) \subseteq HeldIds(q)
    BY <2>2 DEF HeldIds, Range
  <2>5. ASSUME Counting(q) PROVE Counting(r)
    <3>1. r.pc # "final" /\ r.pc \notin PathPCs \ {"list"} /\ r.pc \notin ClearPCs
      BY <2>2 DEF PathPCs, ClearPCs
    <3>2. Cleared(r) = Cleared(q)
      BY <1>3, <2>2, <3>1 DEF Cleared
    <3>3. Tally(r)
      <4>1. DOMAIN r.stat \cap Rows \subseteq Mine(q) /\ Tally(q)
        BY <1>3, <2>2, <2>5 DEF Counting, Tally
      <4>2. \A n \in Rows : CountOf(r, n) = CountOf(q, n)
        BY <2>2 DEF CountOf
      <4> QED BY <1>2, <1>3, <2>2, <3>1, <3>2, <4>1, <4>2, TallyOn DEF CountInv
    <3>4. Ahead(r)
      <4>1. Disjoint(r.todo) /\ r.at \notin r.todo /\ Disjoint(r.todo \cup {r.at})
        <5>1. r.todo \cup {r.at} = q.todo /\ r.todo \subseteq q.todo
          BY <2>2
        <5> QED BY <2>2, <2>5, <5>1 DEF Counting, Ahead, Disjoint
      <4>2. \A x \in q.todo : q.own[x[1]] \in Cleared(q) => Rels(x) \cap Filed(x[1]) = {}
        BY <1>3, <2>5 DEF Counting, Ahead
      <4> QED BY <2>2, <3>2, <4>1, <4>2 DEF Ahead
    <3>5. Chained(r) /\ Clearing(r) /\ Queued(r) /\ r.pc # "updateitem"
      BY <2>2, <3>1 DEF Chained, Clearing, Queued
    <3> QED BY <3>3, <3>4, <3>5 DEF Counting
  <2> QED BY <1>1, <1>2, <2>3, <2>4, <2>5, CountMovedOn
<1> QED BY <1>1, <1>4, <1>5 DEF NextPath

\* What a path may give: its names, each once.
LEMMA AnswerNames ==
  ASSUME NEW path \in Paths, NEW content \in SUBSET Keys, NEW failing \in BOOLEAN,
         NEW metas \in Answers(path, content, failing)
  PROVE  /\ \A o \in metas.objs : o.rel \in Rels(path)
         /\ \A o, p \in metas.objs : o.rel = p.rel => o = p
<1>1. metas \in UNION {Answers(path, c, f) : c \in SUBSET Keys, f \in BOOLEAN}
  OBVIOUS
<1>2. \A o \in metas.objs : o.rel \in Rels(path)
  BY <1>1 DEF Rels
<1>3. \/ metas.objs = {}
      \/ metas.objs = {[rel |-> path[2], key |-> path[2]]}
      \/ \E l : metas = ScanBucket(path[2], l)
  BY DEF Answers, NoMetas
<1>4. ASSUME NEW l, metas = ScanBucket(path[2], l), NEW o \in metas.objs
      PROVE  o = [rel |-> o.rel, key |-> path[2] \o o.rel]
  <2>1. PICK r : o = [rel |-> r, key |-> path[2] \o r]
    BY <1>4 DEF ScanBucket
  <2>2. o.rel = r
    BY <2>1
  <2> QED BY <2>1, <2>2
<1>5. \A o, p \in metas.objs : o.rel = p.rel => o = p
  BY <1>3, <1>4
<1> QED BY <1>2, <1>5

LEMMA CountAnswered ==
  ASSUME ScanInv, ScanInv', OneByOne, CountInv, NEW w \in Requests, req[w].pc = "list",
         NEW content \in SUBSET Keys, NEW failing \in BOOLEAN,
         NEW metas \in Answers(req[w].at, content, failing),
         Answered(w, metas), UNCHANGED <<overlap, node, items>>
  PROVE  CountInv'
<1>1. PICK q : q = req[w]
  OBVIOUS
<1>2. q \in Progress /\ q.pc = "list" /\ Active(w) /\ q.at \in Paths /\ q.at[1] \in Buckets
      /\ Informed(q)
  BY <1>1, Before, PathsOf DEF Active, ActivePCs, Informed, PathPCs
<1>3. q.pc \notin ClearPCs /\ q.pc # "final" /\ q.pc \in PathPCs
  BY <1>2 DEF ClearPCs, PathPCs, ActivePCs
<1>4. PICK owned : owned = q.own[q.at[1]]
  OBVIOUS
<1>5. PICK pc : pc = IF metas = NoMetas THEN PathDone(w) ELSE IF owned = 0 THEN "upsert" ELSE "meta"
  OBVIOUS
<1>6. pc \in {"path", "final", "upsert", "meta"} /\ (pc = "upsert" => owned = 0)
      /\ (pc = "meta" => owned # 0)
  BY <1>5 DEF PathDone
<1>7. PICK r : r = [q EXCEPT !.dirs = metas.dirs, !.objs = metas.objs,
                             !.segs = IF owned = 0 THEN <<q.at[1]>> ELSE <<>>,
                             !.chain = IF owned = 0 THEN <<>> ELSE <<owned>>,
                             !.obj = None, !.pc = pc]
  OBVIOUS
<1>8. /\ r.pc = pc /\ r.own = q.own /\ r.stat = q.stat /\ r.todo = q.todo /\ r.at = q.at
      /\ r.objs = metas.objs /\ r.obj = None
      /\ r.chain = IF owned = 0 THEN <<>> ELSE <<owned>>
  BY <1>2, <1>7 DEF Progress
<1>9. req' = [req EXCEPT ![w] = r]
  BY <1>1, <1>4, <1>5, <1>7 DEF Answered, Set
<1>10. owned \in NodeIds \cup {0} /\ owned \in Range(q.own)
  BY <1>2, <1>4 DEF Progress, Range
<1>11. HeldIds(r) \subseteq HeldIds(q)
  <2>1. Range(<<>>) = {} /\ Range(<<owned>>) = {owned}
    BY DEF Range
  <2> QED BY <1>8, <1>10, <2>1 DEF HeldIds
<1>12. ASSUME Counting(q) PROVE Counting(r)
  <2>1. r.pc \notin ClearPCs /\ r.pc \notin {"list", "updateitem"} /\ ~InWork(r)
    BY <1>6, <1>8 DEF ClearPCs, InWork
  <2>2. Cleared(r) = Cleared(q)
    BY <1>3, <1>8, <2>1 DEF Cleared
  <2>3. Tally(r)
    <3>1. DOMAIN r.stat \cap Rows \subseteq Mine(q) /\ Tally(q)
      BY <1>3, <1>8, <1>12 DEF Counting, Tally
    <3>2. \A n \in Rows : CountOf(r, n) = CountOf(q, n)
      BY <1>8 DEF CountOf
    <3> QED BY <1>2, <1>3, <1>8, <2>2, <3>1, <3>2, TallyOn DEF CountInv
  <2>4. Chained(r)
    <3>1. CASE owned = 0
      BY <1>4, <1>8, <3>1 DEF Chained
    <3>2. CASE owned # 0
      <4>1. r.chain = <<owned>> /\ r.chain # <<>> /\ r.chain[1] = owned /\ Last(r.chain) = owned
            /\ Range(r.chain) = {owned}
        BY <1>8, <3>2 DEF Last, Range
      <4>2. TopOf(owned, q.at[1])
        BY <1>2, <1>4, <3>2 DEF Informed
      <4>3. IdPath[owned] = {owned}
        BY <4>2, IdPathExists DEF TopOf, IdPathDefined, ScanInv, Rows
      <4> QED BY <1>4, <1>8, <4>1, <4>3 DEF Chained
    <3> QED BY <3>1, <3>2
  <2>5. Clearing(r)
    BY <2>1 DEF Clearing, ClearPCs
  <2>6. Ahead(r)
    BY <1>3, <1>8, <1>12, <2>1, <2>2 DEF Counting, Ahead
  <2>7. Queued(r)
    <3>1. Waiting(r) = metas.objs
      BY <1>8, <2>1 DEF Waiting
    <3>2. ASSUME r.chain # <<>> PROVE \A o \in metas.objs : o.rel \notin Filed(r.at[1])
      <4>1. owned # 0
        BY <1>8, <3>2
      <4>2. owned \in Cleared(q)
        BY <1>3, <1>10, <4>1 DEF Cleared
      <4>3. Rels(q.at) \cap Filed(q.at[1]) = {}
        BY <1>2, <1>4, <1>12, <4>2 DEF Counting, Ahead
      <4>4. \A o \in metas.objs : o.rel \in Rels(q.at)
        BY <1>1, <1>2, AnswerNames
      <4> QED BY <1>8, <4>3, <4>4
    <3> QED BY <1>1, <1>2, <1>8, <2>1, <3>1, <3>2, AnswerNames DEF Queued
  <2> QED BY <2>1, <2>3, <2>4, <2>5, <2>6, <2>7 DEF Counting
<1> QED BY <1>1, <1>2, <1>9, <1>11, <1>12, CountMovedOn

LEMMA CountScanPath ==
  ASSUME ScanInv, ScanInv', OneByOne, CountInv, NEW w \in Requests,
         ScanPath(w) \/ ScanPathLossy(w)
  PROVE  CountInv'
<1>1. req[w].pc = "list" /\ UNCHANGED <<overlap, node, items>>
  BY DEF ScanPath, ScanPathLossy, dbVars
<1>2. store[req[w].at[1]] \in SUBSET Keys
  BY <1>1, Before, PathsOf DEF Informed, PathPCs, ActivePCs, ScanInv, Types
<1>3. PICK failing \in BOOLEAN :
         \E metas \in Answers(req[w].at, store[req[w].at[1]], failing) : Answered(w, metas)
  BY DEF ScanPath, ScanPathLossy
<1> QED BY <1>1, <1>2, <1>3, CountAnswered

-----------------------------------------------------------------------------

\* The chain of a request whose bucket has been cleared: all its rows are below
\* the bucket's.
LEMMA ChainMine ==
  ASSUME ScanInv, NEW q \in Progress, Informed(q), Chained(q),
         q.pc \in PathPCs \ ({"list"} \cup ClearPCs), q.chain # <<>>
  PROVE  /\ q.chain[1] \in Cleared(q) /\ q.chain[1] \in Mine(q)
         /\ node[Last(q.chain)] # None =>
               Range(q.chain) = IdPath[Last(q.chain)] /\ Range(q.chain) \subseteq Mine(q)
<1>1. TopOf(q.chain[1], q.at[1]) /\ q.own[q.at[1]] = q.chain[1] /\ q.at[1] \in Buckets
  BY PathsOf DEF Informed, Chained
<1>2. q.chain[1] \in Rows /\ q.chain[1] # 0 /\ q.chain[1] \in Range(q.own)
  BY <1>1, ConstantsAssumption DEF TopOf, Rows, Progress, Range, ConstantsAssumption
<1>3. q.chain[1] \in Cleared(q)
  BY <1>2 DEF Cleared
<1>4. IdPath[q.chain[1]] = {q.chain[1]}
  BY <1>1, <1>2, IdPathExists DEF TopOf, IdPathDefined, ScanInv, Rows
<1>5. q.chain[1] \in Mine(q)
  BY <1>2, <1>3, <1>4 DEF Mine
<1>6. ASSUME node[Last(q.chain)] # None
      PROVE  Range(q.chain) = IdPath[Last(q.chain)] /\ Range(q.chain) \subseteq Mine(q)
  <2>1. Range(q.chain) = IdPath[Last(q.chain)]
    BY <1>6 DEF Chained
  <2>2. Last(q.chain) \in Rows /\ q.chain[1] \in Range(q.chain)
    BY <1>6, ChainEnds, ChainIn DEF Rows
  <2>3. ASSUME NEW n \in Range(q.chain) PROVE n \in Mine(q)
    <3>1. q.chain[1] \in IdPath[n]
      BY <1>1, <1>2, <2>1, <2>2, <2>3, BelowApart DEF ScanInv, TopOf
    <3>2. n \in Rows
      BY <2>1, <2>2, <2>3, Lineage DEF Lined, ScanInv
    <3> QED BY <1>3, <3>1, <3>2 DEF Mine
  <2> QED BY <2>1, <2>3
<1> QED BY <1>3, <1>5, <1>6

\* A request that goes on with the entries of its path, without a statement that
\* changes a row.
LEMMA CountingOn ==
  ASSUME ScanInv, CountInv, NEW q \in Progress, NEW r \in Progress, Informed(q),
         q.pc \in PathPCs \ ({"list"} \cup ClearPCs),
         r.pc \in PathPCs \ ({"list", "updateitem"} \cup ClearPCs),
         r.own = q.own, r.stat = q.stat, r.todo = q.todo, r.at = q.at,
         \/ r.chain = q.chain
         \/ /\ q.chain # <<>> /\ r.chain # <<>> /\ r.chain[1] = q.chain[1]
            /\ Last(r.chain) = q.chain[1] /\ Range(r.chain) = {q.chain[1]},
         Waiting(r) \subseteq Waiting(q), InWork(r) => r.obj \notin r.objs,
         Counting(q)
  PROVE  Counting(r)
<1>1. r.pc \notin ClearPCs /\ r.pc # "final" /\ q.pc \notin ClearPCs /\ q.pc # "final"
      /\ r.pc \in PathPCs /\ q.pc \in PathPCs /\ r.pc # "list" /\ q.pc # "list"
  BY DEF ClearPCs
<1>2. Cleared(r) = Cleared(q)
  BY <1>1 DEF Cleared
<1>3. Tally(r)
  <2>1. DOMAIN r.stat \cap Rows \subseteq Mine(q) /\ Tally(q)
    BY <1>1 DEF Counting, Tally
  <2>2. \A n \in Rows : CountOf(r, n) = CountOf(q, n)
    BY DEF CountOf
  <2> QED BY <1>1, <1>2, <2>1, <2>2, TallyOn DEF CountInv
<1>4. Chained(r)
  <2>1. CASE r.chain = q.chain
    BY <1>1, <2>1 DEF Counting, Chained
  <2>2. CASE /\ q.chain # <<>> /\ r.chain # <<>> /\ r.chain[1] = q.chain[1]
             /\ Last(r.chain) = q.chain[1] /\ Range(r.chain) = {q.chain[1]}
    <3>1. TopOf(q.chain[1], q.at[1]) /\ q.own[q.at[1]] = q.chain[1]
      BY <1>1, <2>2 DEF Informed, Counting, Chained
    <3>2. IdPath[q.chain[1]] = {q.chain[1]}
      BY <3>1, IdPathExists DEF TopOf, IdPathDefined, ScanInv, Rows
    <3> QED BY <2>2, <3>1, <3>2 DEF Chained
  <2> QED BY <2>1, <2>2
<1>5. Clearing(r)
  BY <1>1 DEF Clearing, ClearPCs
<1>6. Ahead(r)
  BY <1>1, <1>2 DEF Counting, Ahead
<1>7. Queued(r)
  BY <1>1 DEF Counting, Queued
<1> QED BY <1>3, <1>4, <1>5, <1>6, <1>7 DEF Counting

\* The SELECT of upsertNode, for a request that goes on with progress q.
LEMMA CountSelect ==
  ASSUME ScanInv, ScanInv', OneByOne, CountInv, NEW w \in Requests, Active(w),
         NEW q \in Progress, Informed(req[w]), UpsertSelect(w, q),
         UNCHANGED <<overlap, node, items>>, HeldIds(q) \subseteq HeldIds(req[w]),
         req[w].pc \in {"upsert", "meta"},
         q.own = req[w].own, q.stat = req[w].stat, q.todo = req[w].todo, q.at = req[w].at,
         \/ q.chain = req[w].chain
         \/ /\ req[w].chain # <<>> /\ q.chain # <<>> /\ q.chain[1] = req[w].chain[1]
            /\ Last(q.chain) = req[w].chain[1] /\ Range(q.chain) = {req[w].chain[1]},
         q.objs \cup ({q.obj} \ {None}) \subseteq Waiting(req[w]),
         Queued(req[w]) /\ q.obj # None => q.obj \notin q.objs
  PROVE  CountInv'
<1>1. PICK id, pc : Set(w, [q EXCEPT !.id = id, !.pc = pc]) /\ pc \in {"create", "update"}
  <2>1. CASE Set(w, [q EXCEPT !.pc = "create"])
    <3>1. [q EXCEPT !.pc = "create"] = [q EXCEPT !.id = q.id, !.pc = "create"]
      BY DEF Progress
    <3> QED BY <2>1, <3>1
  <2>2. CASE \E n : Set(w, [q EXCEPT !.id = n, !.pc = "update"])
    BY <2>2
  <2> QED BY <2>1, <2>2 DEF UpsertSelect
<1>2. PICK r : r = [q EXCEPT !.id = id, !.pc = pc]
  OBVIOUS
<1>3. req' = [req EXCEPT ![w] = r]
  BY <1>1, <1>2 DEF Set
<1>4. r \in Progress
  BY <1>3 DEF ScanInv, Types
<1>5. /\ r.pc = pc /\ r.own = q.own /\ r.stat = q.stat /\ r.todo = q.todo /\ r.at = q.at
      /\ r.chain = q.chain /\ r.objs = q.objs /\ r.obj = q.obj
  BY <1>2 DEF Progress
<1>6. HeldIds(r) \subseteq HeldIds(req[w])
  BY <1>5 DEF HeldIds
<1>7. ASSUME Counting(req[w]) PROVE Counting(r)
  <2>1. req[w] \in Progress
    BY DEF ScanInv, Types
  <2>2. Waiting(r) \subseteq Waiting(req[w]) /\ (InWork(r) => r.obj \notin r.objs)
    <3>1. InWork(r) => r.obj # None
      BY <1>1, <1>5 DEF InWork
    <3> QED BY <1>5, <1>7, <3>1 DEF Waiting, Counting
  <2>3. req[w].pc \notin ClearPCs /\ r.pc \notin ClearPCs
    BY <1>1, <1>5 DEF ClearPCs
  <2> QED BY <1>1, <1>4, <1>5, <1>7, <2>1, <2>2, <2>3, CountingOn
<1> QED BY <1>3, <1>6, <1>7, CountMovedOn

LEMMA CountUpsertRead ==
  ASSUME ScanInv, ScanInv', OneByOne, CountInv, NEW w \in Requests, UpsertRead(w)
  PROVE  CountInv'
<1>1. /\ req[w] \in Progress /\ Informed(req[w]) /\ req[w].pc = "upsert" /\ Active(w)
      /\ UpsertSelect(w, req[w]) /\ UNCHANGED <<overlap, node, items>>
  BY Before DEF UpsertRead, Active, dbVars
<1>2. req[w].objs \cup ({req[w].obj} \ {None}) \subseteq Waiting(req[w])
  BY <1>1 DEF Waiting, InWork
<1>3. Queued(req[w]) /\ req[w].obj # None => req[w].obj \notin req[w].objs
  BY <1>1 DEF Queued, InWork
<1> QED BY <1>1, <1>2, <1>3, CountSelect

LEMMA ConsSame ==
  ASSUME NEW a \in Names, NEW b \in Names, NEW s \in Seq(Names), NEW t \in Seq(Names),
         <<a>> \o s = <<b>> \o t
  PROVE  a = b /\ s = t
<1>1. /\ Len(s) \in Nat /\ Len(t) \in Nat /\ DOMAIN s = 1 .. Len(s) /\ DOMAIN t = 1 .. Len(t)
      /\ <<a>> \in Seq(Names) /\ <<b>> \in Seq(Names) /\ Len(<<a>>) = 1 /\ Len(<<b>>) = 1
      /\ <<a>>[1] = a /\ <<b>>[1] = b
  OBVIOUS
<1>2. /\ Len(<<a>> \o s) = 1 + Len(s)
      /\ \A i \in 1 .. 1 + Len(s) : (<<a>> \o s)[i] = IF i <= 1 THEN <<a>>[i] ELSE s[i - 1]
  BY <1>1, Concatenation
<1>3. /\ Len(<<b>> \o t) = 1 + Len(t)
      /\ \A i \in 1 .. 1 + Len(t) : (<<b>> \o t)[i] = IF i <= 1 THEN <<b>>[i] ELSE t[i - 1]
  BY <1>1, Concatenation
<1>4. Len(s) = Len(t) /\ a = b
  <2>1. 1 + Len(s) = 1 + Len(t)
    BY <1>2, <1>3
  <2>2. 1 \in 1 .. 1 + Len(s) /\ 1 \in 1 .. 1 + Len(t) /\ 1 <= 1
    BY <1>1
  <2>3. (<<a>> \o s)[1] = a
    BY <1>1, <1>2, <2>2
  <2>4. (<<b>> \o t)[1] = b
    BY <1>1, <1>3, <2>2
  <2>5. a = b
    BY <2>3, <2>4, Zenon
  <2>6. Len(s) = Len(t)
    <3>1. \A x, y \in Nat : 1 + x = 1 + y => x = y
      OBVIOUS
    <3> QED BY <1>1, <2>1, <3>1, Zenon
  <2> QED BY <2>5, <2>6
<1>5. ASSUME NEW i \in 1 .. Len(s) PROVE s[i] = t[i]
  <2>1. i + 1 \in 1 .. 1 + Len(s) /\ i + 1 \in 1 .. 1 + Len(t) /\ ~(i + 1 <= 1) /\ (i + 1) - 1 = i
    BY <1>1, <1>4
  <2>2. (<<a>> \o s)[i + 1] = s[i]
    BY <1>2, <2>1
  <2>3. (<<b>> \o t)[i + 1] = t[i]
    BY <1>3, <2>1
  <2> QED BY <2>2, <2>3
<1> QED BY <1>1, <1>4, <1>5

\* Items of the name that a request is about to file have its object's name in
\* its bucket.
LEMMA SameItemFiled ==
  ASSUME ScanInv, NEW q \in Progress, Filing(q), SameItem(q) # {}
  PROVE  q.obj.rel \in Filed(q.at[1])
<1>1. PICK i \in items : i.node = Last(q.chain) /\ i.name = Last(q.obj.key)
  BY DEF SameItem, ItemRow
<1>2. /\ q.obj.rel \in Seq(Names) /\ q.obj.key \in Seq(Names) /\ q.obj.rel # <<>>
      /\ q.obj.key # <<>> /\ Last(q.obj.rel) = Last(q.obj.key)
      /\ q.at[1] \in Buckets /\ q.at[1] \in Names
  BY PathsOf, ConstantsAssumption DEF Filing, Entries, Names, ConstantsAssumption
<1>3. Last(q.obj.key) \in Names
  BY <1>2 DEF Last
<1>4. /\ i.node \in NodeIds /\ node[i.node] # None /\ i.bucket \in Buckets /\ i.bucket \in Names
      /\ i.rel \in Seq(Names) /\ Segments[i.node] \o <<i.name>> = <<i.bucket>> \o i.rel
  BY DEF ScanInv, Types, MetaItem, ItemsInPlace, Names
<1>5. Segments[i.node] = <<q.at[1]>> \o Front(q.obj.rel)
  BY <1>1, <1>4 DEF Filing
<1>6. <<i.bucket>> \o i.rel = <<q.at[1]>> \o q.obj.rel
  <2>1. Front(q.obj.rel) \in Seq(Names) /\ Front(q.obj.rel) \o <<Last(q.obj.rel)>> = q.obj.rel
    BY <1>2, FrontThenLast
  <2>2. \A a, b, c \in Seq(Names) : (a \o b) \o c = a \o (b \o c)
    BY Associative
  <2>3. <<q.at[1]>> \in Seq(Names) /\ <<Last(q.obj.rel)>> \in Seq(Names)
    BY <1>2, <1>3
  <2>4. (<<q.at[1]>> \o Front(q.obj.rel)) \o <<Last(q.obj.rel)>>
           = <<q.at[1]>> \o (Front(q.obj.rel) \o <<Last(q.obj.rel)>>)
    BY <2>1, <2>2, <2>3
  <2>5. i.name = Last(q.obj.rel)
    BY <1>1, <1>2
  <2> QED BY <1>4, <1>5, <2>1, <2>4, <2>5
<1>7. i.bucket = q.at[1] /\ i.rel = q.obj.rel
  <2>1. PICK a, b : a = i.bucket /\ b = q.at[1]
    OBVIOUS
  <2>2. PICK s, t : s = i.rel /\ t = q.obj.rel
    OBVIOUS
  <2>3. a \in Names /\ b \in Names /\ s \in Seq(Names) /\ t \in Seq(Names)
    BY <1>2, <1>4, <2>1, <2>2
  <2>4. <<a>> \o s = <<b>> \o t
    BY <1>6, <2>1, <2>2
  <2>5. a = b /\ s = t
    BY <2>3, <2>4, ConsSame
  <2> QED BY <2>1, <2>2, <2>5
<1> QED BY <1>7 DEF Filed

\* The SELECT of upsertItem, for a request that goes on with progress q: it finds
\* nothing, as long as scans do not overlap.
LEMMA CountItemSelect ==
  ASSUME ScanInv, ScanInv', OneByOne, CountInv, NEW w \in Requests, Active(w),
         NEW q \in Progress, Informed(req[w]), Filing(q), ItemSelect(w, q),
         UNCHANGED <<overlap, node, items>>, HeldIds(q) \subseteq HeldIds(req[w]),
         req[w].pc \in {"item", "meta"},
         q.own = req[w].own, q.stat = req[w].stat, q.todo = req[w].todo, q.at = req[w].at,
         \/ q.chain = req[w].chain
         \/ /\ req[w].chain # <<>> /\ q.chain # <<>> /\ q.chain[1] = req[w].chain[1]
            /\ Last(q.chain) = req[w].chain[1] /\ Range(q.chain) = {req[w].chain[1]},
         q.objs \cup {q.obj} \subseteq Waiting(req[w]),
         Queued(req[w]) => q.obj \notin q.objs
  PROVE  CountInv'
<1>1. PICK pc : pc = IF SameItem(q) = {} THEN "insert" ELSE "updateitem"
  OBVIOUS
<1>2. PICK r : r = [q EXCEPT !.pc = pc]
  OBVIOUS
<1>3. req' = [req EXCEPT ![w] = r]
  BY <1>1, <1>2 DEF ItemSelect, Set
<1>4. r \in Progress /\ req[w] \in Progress
  BY <1>3 DEF ScanInv, Types
<1>5. /\ r.pc = pc /\ r.own = q.own /\ r.stat = q.stat /\ r.todo = q.todo /\ r.at = q.at
      /\ r.chain = q.chain /\ r.objs = q.objs /\ r.obj = q.obj
  BY <1>2 DEF Progress
<1>6. HeldIds(r) \subseteq HeldIds(req[w])
  BY <1>5 DEF HeldIds
<1>7. ASSUME Counting(req[w]) PROVE Counting(r)
  <2>1. Waiting(r) \subseteq Waiting(req[w]) /\ (InWork(r) => r.obj \notin r.objs)
    BY <1>5, <1>7 DEF Waiting, Counting
  <2>2. req[w].pc \notin ClearPCs /\ r.pc \notin ClearPCs
    BY <1>1, <1>5 DEF ClearPCs
  <2>3. SameItem(q) = {}
    <3>1. req[w].chain # <<>> /\ q.obj \in Waiting(req[w])
      BY DEF Filing
    <3>2. q.obj.rel \notin Filed(q.at[1])
      BY <1>7, <2>2, <3>1 DEF Counting, Queued
    <3> QED BY <3>2, SameItemFiled
  <2> QED BY <1>1, <1>4, <1>5, <1>7, <2>1, <2>2, <2>3, CountingOn
<1> QED BY <1>3, <1>6, <1>7, CountMovedOn

LEMMA CountItemRead ==
  ASSUME ScanInv, ScanInv', OneByOne, CountInv, NEW w \in Requests, ItemRead(w)
  PROVE  CountInv'
<1>1. /\ req[w] \in Progress /\ Informed(req[w]) /\ req[w].pc = "item" /\ Active(w)
      /\ ItemSelect(w, req[w]) /\ UNCHANGED <<overlap, node, items>> /\ Filing(req[w])
  BY Before, FilingOf DEF ItemRead, Active, dbVars
<1>2. req[w].objs \cup {req[w].obj} \subseteq Waiting(req[w])
  BY <1>1 DEF Waiting, InWork
<1>3. Queued(req[w]) => req[w].obj \notin req[w].objs
  BY <1>1 DEF Queued, InWork
<1> QED BY <1>1, <1>2, <1>3, CountItemSelect

\* A request turns to the next entry of its path, or is done with the path.
LEMMA CountNextMeta ==
  ASSUME ScanInv, ScanInv', OneByOne, CountInv, NEW w \in Requests, NextMeta(w)
  PROVE  CountInv'
<1>1. PICK q : q = req[w]
  OBVIOUS
<1>2. /\ q \in Progress /\ Informed(q) /\ q.pc = "meta" /\ Active(w)
      /\ UNCHANGED <<overlap, node, items>>
  BY <1>1, Before DEF NextMeta, Active, dbVars
<1>3. PICK r : r = [q EXCEPT !.obj = None, !.chain = SubSeq(@, 1, 1)]
  OBVIOUS
<1>4. q.chain \in Seq(NodeIds) /\ q.chain # <<>>
  BY <1>2 DEF Informed, Progress
<1>5. PICK n : n = q.chain[1]
  OBVIOUS
<1>6. /\ r.chain \in Seq(NodeIds) /\ r.chain # <<>> /\ r.chain[1] = n /\ Last(r.chain) = n
      /\ Head(r.chain) = n /\ Range(r.chain) \subseteq Range(q.chain) /\ Range(r.chain) = {n}
      /\ n \in NodeIds
  <2>1. r.chain = SubSeq(q.chain, 1, 1)
    BY <1>2, <1>3 DEF Progress
  <2>2. Len(q.chain) \in Nat /\ Len(q.chain) > 0
    BY <1>4
  <2>3. Len(r.chain) = 1 /\ DOMAIN r.chain = {1}
    <3>1. 1 \in 0 .. Len(q.chain)
      BY <2>2
    <3>2. r.chain \in Seq(NodeIds) /\ Len(r.chain) = 1
      BY <1>4, <2>1, <3>1, InitialOf
    <3> QED BY <3>2
  <2>4. Range(r.chain) = {r.chain[1]}
    BY <2>3 DEF Range
  <2> QED BY <1>4, <1>5, <2>1, <2>4, TopChain
<1>7. /\ r.pc = "meta" /\ r.own = q.own /\ r.at = q.at /\ r.todo = q.todo /\ r.obj = None
      /\ r.dirs = q.dirs /\ r.objs = q.objs /\ r.stat = q.stat
  BY <1>2, <1>3 DEF Progress
<1>8. r \in Progress
  BY <1>2, <1>3, <1>6, <1>7 DEF Progress
<1>9. /\ \A c \in Buckets : r.own[c] # 0 => TopOf(r.own[c], c)
      /\ r.at \in Paths /\ TopOf(n, r.at[1])
  BY <1>2, <1>4, <1>5, <1>7 DEF Informed
<1>10. HeldIds(r) \subseteq HeldIds(q)
  BY <1>6, <1>7 DEF HeldIds
<1>11. Waiting(q) = q.objs
  BY <1>2 DEF Waiting, InWork
<1>12. ASSUME NEW d \in r.dirs, UpsertSelect(w, [r EXCEPT !.dirs = @ \ {d}, !.segs = d])
       PROVE  CountInv'
  <2>1. PICK s : s = [r EXCEPT !.dirs = @ \ {d}, !.segs = d]
    OBVIOUS
  <2>2. s \in Progress
    BY <1>8, <1>12, <2>1 DEF Progress
  <2>3. /\ s.own = r.own /\ s.at = r.at /\ s.chain = r.chain /\ s.obj = None
        /\ s.objs = r.objs /\ s.stat = r.stat /\ s.todo = r.todo
    BY <1>7, <1>8, <2>1 DEF Progress
  <2>4. HeldIds(s) \subseteq HeldIds(q)
    BY <1>10, <2>3 DEF HeldIds
  <2>5. /\ s.own = q.own /\ s.stat = q.stat /\ s.todo = q.todo /\ s.at = q.at
        /\ q.chain # <<>> /\ s.chain # <<>> /\ s.chain[1] = q.chain[1]
        /\ Last(s.chain) = q.chain[1] /\ Range(s.chain) = {q.chain[1]}
        /\ s.objs \cup ({s.obj} \ {None}) \subseteq Waiting(q)
    BY <1>4, <1>5, <1>6, <1>7, <1>11, <2>3
  <2>6. UpsertSelect(w, s)
    BY <1>12, <2>1
  <2> QED BY <1>1, <1>2, <2>2, <2>3, <2>4, <2>5, <2>6, CountSelect
<1>13. ASSUME NEW o \in r.objs, NEW s,
              s = [r EXCEPT !.objs = @ \ {o}, !.obj = o, !.segs = Front(o.rel)],
              IF s.segs = <<>> THEN ItemSelect(w, s) ELSE UpsertSelect(w, s)
       PROVE  CountInv'
  <2>1. o \in Entries /\ o.rel \in Seq(Names) /\ o.rel # <<>>
    BY <1>8, <1>13 DEF Progress, Entries
  <2>2. Front(o.rel) \in Seq(Names)
    BY <2>1, FrontOf
  <2>3. s \in Progress
    BY <1>8, <1>13, <2>1, <2>2 DEF Progress
  <2>4. /\ s.own = r.own /\ s.at = r.at /\ s.chain = r.chain /\ s.segs = Front(o.rel)
        /\ s.obj = o /\ s.objs = r.objs \ {o} /\ s.stat = r.stat /\ s.todo = r.todo
    BY <1>7, <1>8, <1>13 DEF Progress
  <2>5. HeldIds(s) \subseteq HeldIds(q)
    BY <1>10, <2>4 DEF HeldIds
  <2>6. /\ s.own = q.own /\ s.stat = q.stat /\ s.todo = q.todo /\ s.at = q.at
        /\ q.chain # <<>> /\ s.chain # <<>> /\ s.chain[1] = q.chain[1]
        /\ Last(s.chain) = q.chain[1] /\ Range(s.chain) = {q.chain[1]}
        /\ s.objs \cup {s.obj} \subseteq Waiting(q) /\ s.obj \notin s.objs
    BY <1>4, <1>5, <1>6, <1>7, <1>11, <1>13, <2>4
  <2>7. CASE s.segs = <<>>
    <3>1. Segments[n] = <<r.at[1]>> /\ r.at[1] \in Names
      BY <1>6, <1>9, SegmentsExist, PathsOf DEF SegmentsDefined, TopOf, Rows, ScanInv, Names
    <3>2. <<s.at[1]>> \o <<>> = <<s.at[1]>>
      <4>1. <<s.at[1]>> \in Seq(Names)
        BY <3>1, <2>4
      <4> QED BY <4>1
    <3>3. Filing(s)
      BY <1>6, <1>9, <2>1, <2>4, <2>7, <3>1, <3>2 DEF Filing
    <3>4. ItemSelect(w, s)
      BY <1>13, <2>7
    <3> QED BY <1>1, <1>2, <2>3, <2>5, <2>6, <3>3, <3>4, CountItemSelect
  <2>8. CASE s.segs # <<>>
    <3>1. UpsertSelect(w, s)
      BY <1>13, <2>8
    <3> QED BY <1>1, <1>2, <2>3, <2>5, <2>6, <3>1, CountSelect
  <2> QED BY <2>7, <2>8
<1>14. CASE Set(w, [r EXCEPT !.pc = PathDone(w), !.stat = Aggregate(@, n)])
  <2>1. PICK pc, stat : pc = PathDone(w) /\ stat = Aggregate(r.stat, n)
    OBVIOUS
  <2>2. PICK s : s = [r EXCEPT !.pc = pc, !.stat = stat]
    OBVIOUS
  <2>3. pc \in {"final", "path"}
    BY <2>1 DEF PathDone
  <2>4. s.pc = pc /\ s.own = q.own /\ s.chain = r.chain /\ s.todo = q.todo /\ s.stat = stat
    BY <1>7, <1>8, <2>2 DEF Progress
  <2>5. req' = [req EXCEPT ![w] = s]
    BY <1>14, <2>1, <2>2 DEF Set
  <2>6. /\ DOMAIN stat = DOMAIN q.stat \cup {n}
        /\ \A m \in DOMAIN stat : stat[m] = CountOf(q, m)
    BY <1>7, <2>1 DEF Aggregate, CountOf
  <2>7. n \in HeldIds(q)
    <3>1. n \in Range(r.chain)
      BY <1>6
    <3> QED BY <1>6, <3>1 DEF HeldIds
  <2>8. HeldIds(s) \subseteq HeldIds(q)
    BY <1>10, <1>6, <2>4, <2>6, <2>7 DEF HeldIds
  <2>9. ASSUME Counting(q) PROVE Counting(s)
    <3>1. q.pc \notin ClearPCs /\ s.pc \notin ClearPCs /\ s.pc \notin PathPCs
      BY <1>2, <2>3, <2>4 DEF ClearPCs
    <3>2. Cleared(s) = Cleared(q)
      BY <2>4, <3>1 DEF Cleared
    <3>3. Tally(s)
      <4>1. n \in Mine(q)
        BY <1>2, <1>4, <1>5, <2>9, <3>1, ChainMine DEF Counting
      <4>2. DOMAIN s.stat \cap Rows \subseteq Mine(q) /\ Tally(q)
        BY <1>2, <2>4, <2>6, <2>9, <4>1 DEF Counting, Tally
      <4>3. \A m \in Rows : CountOf(s, m) = CountOf(q, m)
        BY <2>4, <2>6 DEF CountOf
      <4> QED BY <1>2, <2>4, <3>1, <3>2, <4>2, <4>3, TallyOn DEF CountInv
    <3>4. Ahead(s)
      BY <1>2, <2>4, <2>9, <3>1, <3>2 DEF Counting, Ahead
    <3>5. Chained(s) /\ Clearing(s) /\ Queued(s) /\ s.pc # "updateitem"
      BY <2>3, <2>4, <3>1 DEF Chained, Clearing, Queued
    <3> QED BY <3>3, <3>4, <3>5 DEF Counting
  <2> QED BY <1>1, <1>2, <2>5, <2>8, <2>9, CountMovedOn
<1>15. \/ \E d \in r.dirs : UpsertSelect(w, [r EXCEPT !.dirs = @ \ {d}, !.segs = d])
       \/ \E o \in r.objs : \E s :
             /\ s = [r EXCEPT !.objs = @ \ {o}, !.obj = o, !.segs = Front(o.rel)]
             /\ IF s.segs = <<>> THEN ItemSelect(w, s) ELSE UpsertSelect(w, s)
       \/ Set(w, [r EXCEPT !.pc = PathDone(w), !.stat = Aggregate(@, n)])
  BY <1>1, <1>3, <1>6 DEF NextMeta
<1> QED BY <1>12, <1>13, <1>14, <1>15

-----------------------------------------------------------------------------

\* What Counted makes of the statistics.
LEMMA CountedFacts ==
  ASSUME ScanInv, NEW w \in Requests, Counted(w)
  PROVE  \E r : /\ req' = [req EXCEPT ![w] = r]
                /\ r.pc = "meta" /\ r.own = req[w].own /\ r.at = req[w].at /\ r.todo = req[w].todo
                /\ r.chain = req[w].chain /\ r.objs = req[w].objs /\ r.obj = req[w].obj
                /\ DOMAIN r.stat = DOMAIN req[w].stat \cup Range(req[w].chain)
                /\ \A m \in NodeIds : CountOf(r, m) =
                      CountOf(req[w], m) + (IF m \in Range(req[w].chain) THEN 1 ELSE 0)
<1>1. PICK q : q = req[w]
  OBVIOUS
<1>2. q \in Progress
  BY <1>1, Before
<1>3. PICK stat : stat = [m \in DOMAIN q.stat \cup Range(q.chain) |->
                            (IF m \in DOMAIN q.stat THEN q.stat[m] ELSE 0)
                            + (IF m \in Range(q.chain) THEN 1 ELSE 0)]
  OBVIOUS
<1>4. PICK r : r = [q EXCEPT !.pc = "meta", !.stat = stat]
  OBVIOUS
<1>5. /\ r.pc = "meta" /\ r.own = q.own /\ r.at = q.at /\ r.todo = q.todo
      /\ r.chain = q.chain /\ r.objs = q.objs /\ r.obj = q.obj /\ r.stat = stat
  BY <1>2, <1>4 DEF Progress
<1>6. req' = [req EXCEPT ![w] = r]
  BY <1>1, <1>3, <1>4 DEF Counted, Set
<1>7. ASSUME NEW m \in NodeIds
      PROVE  CountOf(r, m) = CountOf(q, m) + (IF m \in Range(q.chain) THEN 1 ELSE 0)
  BY <1>3, <1>5 DEF CountOf
<1>8. DOMAIN r.stat = DOMAIN q.stat \cup Range(q.chain)
  BY <1>3, <1>5
<1> QED BY <1>1, <1>5, <1>6, <1>7, <1>8

\* A request files its object where nothing of its name is.
LEMMA CountFiled ==
  ASSUME ScanInv, ScanInv', OneByOne, CountInv, NEW w \in Requests, ~overlap,
         req[w].pc = "insert", NEW i, i = ItemRow(req[w]), node[i.node] # None,
         NEW q, q = req[w], Counting(q), CountsRight,
         UNCHANGED node, items' = items \cup {i},
         NEW r, r.pc = "meta", r.own = q.own, r.at = q.at, r.todo = q.todo,
         r.chain = q.chain, r.objs = q.objs, r.obj = q.obj,
         DOMAIN r.stat = DOMAIN q.stat \cup Range(q.chain),
         \A m \in NodeIds : CountOf(r, m) =
            CountOf(q, m) + (IF m \in Range(q.chain) THEN 1 ELSE 0)
  PROVE  CountsRight' /\ Counting(r)'
<1>1. /\ q \in Progress /\ Informed(q) /\ Filing(q) /\ q.chain # <<>> /\ q.pc = "insert"
      /\ q.pc \notin ClearPCs /\ r.pc \notin ClearPCs
  BY Before, FilingOf DEF Filing, ClearPCs
<1>2. /\ i.node = Last(q.chain) /\ i.rel = q.obj.rel /\ i.bucket = q.at[1]
  BY DEF ItemRow
<1>3. /\ q.chain[1] \in Cleared(q) /\ Range(q.chain) = IdPath[i.node]
      /\ Range(q.chain) \subseteq Mine(q)
  BY <1>1, <1>2, ChainMine DEF Counting
<1>4. IdPath' = IdPath /\ Rows' = Rows
  <2>1. Rows' = Rows
    BY DEF Rows
  <2> QED BY <2>1, IdPathSame DEF ScanInv, SameShape
<1>5. q.obj \in Waiting(q) /\ q.obj \notin q.objs /\ Waiting(r) = q.objs
      /\ q.objs \subseteq Waiting(q) /\ ~InWork(r)
  BY <1>1 DEF Waiting, InWork, Counting, Queued
<1>6. i.rel \in Rels(q.at) /\ i.rel \notin Filed(i.bucket)
  BY <1>1, <1>2, <1>5 DEF Counting, Queued
<1>7. i \notin items
  BY <1>6 DEF Filed
<1>8. \A b : Filed(b)' = IF b = i.bucket THEN Filed(b) \cup {i.rel} ELSE Filed(b)
  BY DEF Filed
<1>9. ASSUME NEW n
      PROVE  /\ n \in Range(q.chain) => Under(n)' = Under(n) \cup {i} /\ i \notin Under(n)
             /\ n \notin Range(q.chain) => Under(n)' = Under(n)
  <2>1. Under(n)' = {j \in items \cup {i} : n \in IdPath[j.node]}
    BY <1>4 DEF Under
  <2> QED BY <1>3, <1>7, <2>1 DEF Under
<1>10. ASSUME NEW n \in Range(q.chain) PROVE Cardinality(Under(n)') = Cardinality(Under(n)) + 1
  <2>1. IsFiniteSet(Under(n))
    BY FS_Subset DEF Under, CountInv
  <2> QED BY <1>9, <2>1, FS_AddElement
<1>11. Cleared(r) = Cleared(q) /\ Mine(r)' = Mine(q)
  BY <1>1, <1>4 DEF Cleared, Mine
<1>12. CountsRight'
  <2> SUFFICES ASSUME NEW n \in Rows, node[n].status = Scanned
               PROVE  node[n].count = Cardinality(Under(n)')
    BY <1>4 DEF CountsRight
  <2>1. n \notin Mine(q)
    BY <1>1 DEF Counting, Tally
  <2> QED BY <1>3, <1>9, <2>1 DEF CountsRight
<1>13. Tally(r)'
  <2>1. ASSUME NEW n \in Mine(q)
        PROVE  node[n].status # Scanned /\ CountOf(r, n) = Cardinality(Under(n)')
    <3>1. n \in NodeIds /\ node[n].status # Scanned /\ CountOf(q, n) = Cardinality(Under(n))
      BY <1>1, <2>1 DEF Counting, Tally, Mine, Rows
    <3>2. CASE n \in Range(q.chain)
      BY <1>10, <3>1, <3>2
    <3>3. CASE n \notin Range(q.chain)
      <4>1. Cardinality(Under(n)) \in Nat
        BY FS_Subset, FS_CardinalityType DEF Under, CountInv
      <4> QED BY <1>9, <3>1, <3>3, <4>1
    <3> QED BY <3>2, <3>3
  <2>2. DOMAIN r.stat \cap Rows \subseteq Mine(q)
    BY <1>1, <1>3 DEF Counting, Tally
  <2> QED BY <1>4, <1>11, <2>1, <2>2 DEF Tally, CountOf
<1>14. Chained(r)'
  BY <1>1, <1>4 DEF Counting, Chained
<1>15. Clearing(r)'
  BY DEF Clearing
<1>16. Ahead(r)'
  <2>1. Disjoint(q.todo) /\ q.at \notin q.todo /\ Disjoint(q.todo \cup {q.at})
    BY <1>1 DEF Counting, Ahead
  <2>2. ASSUME NEW p \in q.todo, q.own[p[1]] \in Cleared(q)
        PROVE  Rels(p) \cap Filed(p[1])' = {}
    <3>1. Rels(p) \cap Filed(p[1]) = {}
      BY <1>1, <2>2 DEF Counting, Ahead
    <3>2. CASE p[1] = i.bucket
      <4>1. Rels(p) \cap Rels(q.at) = {}
        BY <1>2, <2>1, <2>2, <3>2 DEF Disjoint
      <4> QED BY <1>6, <1>8, <3>1, <4>1
    <3>3. CASE p[1] # i.bucket
      BY <1>8, <3>1, <3>3
    <3> QED BY <3>2, <3>3
  <2> QED BY <1>11, <2>1, <2>2 DEF Ahead, Cleared
<1>17. Queued(r)'
  <2>1. ASSUME NEW o \in q.objs PROVE o.rel \notin Filed(q.at[1])'
    <3>1. o.rel \notin Filed(q.at[1]) /\ o.rel # i.rel
      BY <1>1, <1>2, <1>5, <2>1 DEF Counting, Queued
    <3> QED BY <1>8, <3>1
  <2>2. (Waiting(r) = q.objs)'
    BY DEF Waiting, InWork
  <2> QED BY <1>1, <1>5, <2>1, <2>2 DEF Counting, Queued, InWork
<1> QED BY <1>12, <1>13, <1>14, <1>15, <1>16, <1>17 DEF Counting

LEMMA CountInsertItem ==
  ASSUME ScanInv, ScanInv', OneByOne, CountInv, NEW w \in Requests, InsertItem(w)
  PROVE  CountInv'
<1>1. UNCHANGED <<node, overlap>> /\ req[w].pc = "insert" /\ Active(w)
  BY DEF InsertItem, envVars, Active
<1>2. CASE Set(w, GiveUp(w)) /\ UNCHANGED items
  BY <1>1, <1>2, CountGivenUp
<1>3. CASE /\ SameItem(req[w]) = {} /\ node[ItemRow(req[w]).node] # None
           /\ items' = items \cup {ItemRow(req[w])} /\ Counted(w)
  <2>1. PICK q, i : q = req[w] /\ i = ItemRow(q)
    OBVIOUS
  <2>2. PICK r : /\ req' = [req EXCEPT ![w] = r]
                 /\ r.pc = "meta" /\ r.own = q.own /\ r.at = q.at /\ r.todo = q.todo
                 /\ r.chain = q.chain /\ r.objs = q.objs /\ r.obj = q.obj
                 /\ DOMAIN r.stat = DOMAIN q.stat \cup Range(q.chain)
                 /\ \A m \in NodeIds : CountOf(r, m) =
                       CountOf(q, m) + (IF m \in Range(q.chain) THEN 1 ELSE 0)
    BY <1>3, <2>1, CountedFacts
  <2>3. HeldIds(r) = HeldIds(q)
    BY <2>2 DEF HeldIds
  <2>4. \A n \in Rows' : n \in Rows /\ SameShape(n)
    BY <1>1 DEF Rows, SameShape
  <2>5. IsFiniteSet(items')
    BY <1>3, FS_AddElement DEF CountInv
  <2>6. node[i.node].pathed
    <3>1. q \in Progress /\ q.chain # <<>> /\ i.node = Last(q.chain)
      BY <1>1, <2>1, Before DEF Informed, ItemRow
    <3>2. i.node \in Rows /\ i.node \in Range(q.chain)
      BY <1>3, <2>1, <3>1, ChainEnds, ChainIn DEF Rows
    <3> QED BY <2>1, <3>2 DEF CountInv, HeldWritten, HeldIds
  <2>7. ~overlap => CountsRight' /\ Counting(r)'
    BY <1>1, <1>3, <2>1, <2>2, CountFiled DEF CountInv
  <2> QED BY <1>1, <1>3, <2>1, <2>2, <2>3, <2>4, <2>5, <2>6, <2>7, CountMoved
<1> QED BY <1>2, <1>3 DEF InsertItem

\* Only a request that another one overlaps has found an item to update.
LEMMA CountUpdateItem ==
  ASSUME ScanInv, ScanInv', OneByOne, CountInv, NEW w \in Requests, UpdateItem(w)
  PROVE  CountInv'
<1>1. UNCHANGED <<node, overlap>> /\ req[w].pc = "updateitem" /\ Active(w) /\ Counted(w)
  BY DEF UpdateItem, envVars, Active
<1>2. overlap
  BY <1>1 DEF CountInv, Counting
<1>3. PICK q, i : q = req[w] /\ i = ItemRow(q)
  OBVIOUS
<1>4. PICK r : /\ req' = [req EXCEPT ![w] = r] /\ r.own = q.own /\ r.chain = q.chain
               /\ DOMAIN r.stat = DOMAIN q.stat \cup Range(q.chain)
  BY <1>1, <1>3, CountedFacts
<1>5. HeldIds(r) = HeldIds(q)
  BY <1>4 DEF HeldIds
<1>6. \A n \in Rows' : n \in Rows /\ SameShape(n)
  BY <1>1 DEF Rows, SameShape
<1>7. CASE UNCHANGED items
  BY <1>1, <1>2, <1>3, <1>4, <1>5, <1>6, <1>7, CountMoved DEF CountInv
<1>8. CASE SameItem(req[w]) # {} /\ items' = (items \ SameItem(req[w])) \cup {ItemRow(req[w])}
  <2>1. IsFiniteSet(items')
    <3>1. IsFiniteSet(items \ SameItem(req[w]))
      BY FS_Subset DEF CountInv
    <3> QED BY <1>8, <3>1, FS_AddElement
  <2>2. node[i.node].pathed
    BY <1>3, <1>8 DEF SameItem, CountInv, Written
  <2> QED BY <1>1, <1>2, <1>3, <1>4, <1>5, <1>6, <1>8, <2>1, <2>2, CountMoved
<1> QED BY <1>7, <1>8 DEF UpdateItem

-----------------------------------------------------------------------------

\* A step that changes only the states, counts and paths of rows: what is
\* counted stays, if no row becomes scanned.
LEMMA CountingTouched ==
  ASSUME ScanInv, ScanInv', Rows' = Rows, \A n \in Rows : SameShape(n), UNCHANGED items,
         NEW r \in Progress, \A n \in Rows : node'[n].status = Scanned => node[n].status = Scanned,
         Chained(r), Tally(r), Ahead(r), Queued(r), Clearing(r)', r.pc # "updateitem"
  PROVE  Counting(r)'
<1>1. IdPath' = IdPath
  BY IdPathSame DEF ScanInv
<1>2. \A n : Under(n)' = Under(n) /\ Filed(n)' = Filed(n)
  BY <1>1 DEF Under, Filed
<1>3. Mine(r)' = Mine(r)
  BY <1>1 DEF Mine, Cleared
<1>4. Chained(r)'
  <2>1. r.chain # <<>> => (node'[Last(r.chain)] # None => node[Last(r.chain)] # None)
    BY ChainEnds DEF Rows
  <2> QED BY <1>1, <2>1 DEF Chained
<1>5. Tally(r)'
  <2>1. Mine(r) \subseteq Rows
    BY DEF Mine
  <2> QED BY <1>2, <1>3, <2>1 DEF Tally, CountOf
<1>6. Ahead(r)'
  BY <1>2 DEF Ahead, Cleared
<1>7. Queued(r)'
  BY <1>2 DEF Queued, InWork, Waiting
<1> QED BY <1>4, <1>5, <1>6, <1>7 DEF Counting

LEMMA CountsTouched ==
  ASSUME ScanInv, ScanInv', Rows' = Rows, \A n \in Rows : SameShape(n), UNCHANGED items,
         \A n \in Rows : node'[n].status = Scanned =>
             \/ node[n].status = Scanned /\ node'[n].count = node[n].count
             \/ node'[n].count = Cardinality(Under(n)),
         CountsRight
  PROVE  CountsRight'
<1>1. IdPath' = IdPath
  BY IdPathSame DEF ScanInv
<1>2. \A n : Under(n)' = Under(n)
  BY <1>1 DEF Under
<1> QED BY <1>2 DEF CountsRight

LEMMA CountResetBucket ==
  ASSUME ScanInv, ScanInv', OneByOne, CountInv, NEW w \in Requests, ResetBucket(w)
  PROVE  CountInv'
<1>1. PICK q, c : q = req[w] /\ c = q.chain[1]
  OBVIOUS
<1>2. /\ q \in Progress /\ Informed(q) /\ q.pc = "reset" /\ Active(w)
      /\ UNCHANGED <<overlap, items>>
  BY <1>1, Before DEF ResetBucket, Active, envVars
<1>3. PICK r : r = [q EXCEPT !.pc = "delnodes"]
  OBVIOUS
<1>4. req' = [req EXCEPT ![w] = r]
  BY <1>1, <1>3 DEF ResetBucket, Goto, Set
<1>5. /\ r.pc = "delnodes" /\ r.own = q.own /\ r.at = q.at /\ r.todo = q.todo
      /\ r.chain = q.chain /\ r.objs = q.objs /\ r.obj = q.obj /\ r.stat = q.stat
      /\ r \in Progress
  BY <1>2, <1>3 DEF Progress
<1>6. c \in Rows /\ c \in Range(q.chain) /\ node[c] \in MetaNode
  <2>1. TopOf(c, q.at[1]) /\ q.chain # <<>>
    BY <1>1, <1>2 DEF Informed
  <2> QED BY <1>1, <1>2, <2>1, ChainIn, RowFields DEF TopOf, ScanInv, Types
<1>7. node[c].pathed
  BY <1>1, <1>6 DEF CountInv, HeldWritten, HeldIds
<1>8. node' = [node EXCEPT ![c] = [node[c] EXCEPT !.status = Scanning]]
  BY <1>1 DEF ResetBucket
<1>9. ASSUME NEW n \in Rows
      PROVE  /\ node'[n] # None /\ SameShape(n) /\ node'[n].pathed = node[n].pathed
             /\ node'[n].count = node[n].count
             /\ node'[n].status = IF n = c THEN Scanning ELSE node[n].status
  <2>1. [node[c] EXCEPT !.status = Scanning] \in MetaNode
    BY <1>6 DEF MetaNode
  <2>2. CASE n = c
    <3>1. node'[c] = [node[c] EXCEPT !.status = Scanning]
      BY <1>6, <1>8 DEF ScanInv, Types, RowsTyped, Rows
    <3>2. node'[c] # None
      BY <2>1, <3>1, ConstantsAssumption DEF ConstantsAssumption
    <3> QED BY <1>6, <2>2, <3>1, <3>2 DEF SameShape, MetaNode
  <2>3. CASE n # c
    BY <1>8, <2>3 DEF ScanInv, Types, RowsTyped, Rows, SameShape
  <2> QED BY <2>2, <2>3
<1>10. Rows' = Rows
  <2>1. \A n \in NodeIds : node[n] = None => node'[n] = None
    BY <1>6, <1>8 DEF ScanInv, Types, RowsTyped, Rows
  <2> QED BY <1>9, <2>1 DEF Rows
<1>11. HeldIds(r) = HeldIds(q)
  BY <1>5 DEF HeldIds
<1>12. ASSUME Counting(q) PROVE Counting(r)'
  <2>1. q.pc \in ClearPCs /\ r.pc \in ClearPCs /\ q.pc # "final" /\ r.pc # "final"
    BY <1>2, <1>5 DEF ClearPCs
  <2>2. Cleared(r) = Cleared(q)
    BY <1>5, <2>1 DEF Cleared
  <2>3. Tally(r)
    BY <1>5, <1>12, <2>1, <2>2 DEF Counting, Tally, Mine, CountOf
  <2>4. Chained(r)
    BY <1>2, <1>5, <1>12 DEF Counting, Chained
  <2>5. Ahead(r)
    BY <1>2, <1>5, <1>12, <2>2 DEF Counting, Ahead
  <2>6. Queued(r)
    <3>1. Waiting(r) = Waiting(q) /\ ~InWork(r)
      BY <1>2, <1>5 DEF Waiting, InWork
    <3> QED BY <1>2, <1>5, <1>12, <2>1, <3>1 DEF Counting, Queued
  <2>7. Clearing(r)'
    BY <1>1, <1>5, <1>6, <1>9 DEF Clearing
  <2>8. \A n \in Rows : node'[n].status = Scanned => node[n].status = Scanned
    BY <1>9 DEF Scanning, Scanned
  <2> QED BY <1>2, <1>5, <1>9, <1>10, <2>3, <2>4, <2>5, <2>6, <2>7, <2>8, CountingTouched
<1>13. CountsRight => CountsRight'
  <2>1. \A n \in Rows : node'[n].status = Scanned =>
            node[n].status = Scanned /\ node'[n].count = node[n].count
    BY <1>9 DEF Scanning, Scanned
  <2> QED BY <1>2, <1>9, <1>10, <2>1, CountsTouched
<1>14. \A n \in Rows' : /\ n \in Rows /\ SameShape(n) /\ (node[n].pathed => node'[n].pathed)
                        /\ ~node'[n].pathed => node'[n].status = node[n].status
  BY <1>7, <1>9, <1>10
<1>15. ~overlap => CountsRight' /\ Counting(r)'
  BY <1>1, <1>2, <1>12, <1>13 DEF CountInv
<1>16. IsFiniteSet(items')
  BY <1>2 DEF CountInv
<1> QED BY <1>1, <1>2, <1>4, <1>11, <1>14, <1>15, <1>16, CountMoved

\* A chain with one more node has its ids.
LEMMA ChainRange ==
  ASSUME NEW chain \in Seq(NodeIds), NEW n \in NodeIds
  PROVE  Range(Append(chain, n)) = Range(chain) \cup {n}
<1>1. /\ Len(chain) \in Nat /\ Append(chain, n) \in Seq(NodeIds)
      /\ \A i \in 1 .. Len(chain) : Append(chain, n)[i] = chain[i]
      /\ Append(chain, n)[Len(chain) + 1] = n
      /\ DOMAIN chain = 1 .. Len(chain) /\ DOMAIN Append(chain, n) = 1 .. (Len(chain) + 1)
  OBVIOUS
<1>2. Range(chain) \subseteq Range(Append(chain, n))
  BY <1>1 DEF Range
<1>3. n \in Range(Append(chain, n))
  BY <1>1 DEF Range
<1> QED BY <1>2, <1>3, ChainAppend

\* The path of a row is written, and the request has it in its chain.
LEMMA CountUpsertUpdate ==
  ASSUME ScanInv, ScanInv', OneByOne, CountInv, NEW w \in Requests, UpsertUpdate(w)
  PROVE  CountInv'
<1>1. PICK q, n, b : q = req[w] /\ n = q.id /\ b = q.at[1]
  OBVIOUS
<1>2. /\ q \in Progress /\ Informed(q) /\ q.pc = "update" /\ Active(w)
      /\ UNCHANGED <<overlap, items>>
  BY <1>1, Before DEF UpsertUpdate, Active, envVars
<1> DEFINE top == q.chain = <<>>
           pc == IF top THEN "reset"
                 ELSE IF Len(q.segs) > 1 THEN "upsert"
                 ELSE IF q.obj # None THEN "item" ELSE "meta"
           own == [q.own EXCEPT ![b] = IF top THEN n ELSE @]
           stat == IF top THEN q.stat ELSE Aggregate(q.stat, n)
<1>3. /\ n \in NodeIds /\ q.chain \in Seq(NodeIds) /\ b \in Buckets
      /\ q.own \in [Buckets -> NodeIds \cup {0}] /\ n # 0
      /\ top => TopOf(n, b)
  BY <1>1, <1>2, PathsOf, ConstantsAssumption
     DEF Informed, Progress, Above, TopOf, Rows, ConstantsAssumption
<1>4. PICK r : r = [q EXCEPT !.chain = Append(@, n), !.segs = Tail(@), !.id = 0,
                             !.own = own, !.stat = stat, !.pc = pc]
  OBVIOUS
<1>5. req' = [req EXCEPT ![w] = r]
  <2>1. Set(w, [q EXCEPT
                  !.chain = Append(@, n), !.segs = Tail(@), !.id = 0,
                  !.own[b] = IF top THEN n ELSE @,
                  !.stat = IF top THEN @ ELSE Aggregate(@, n), !.pc = pc])
    BY <1>1 DEF UpsertUpdate
  <2>2. [q EXCEPT !.chain = Append(@, n), !.segs = Tail(@), !.id = 0,
                  !.own[b] = IF top THEN n ELSE @,
                  !.stat = IF top THEN @ ELSE Aggregate(@, n), !.pc = pc] = r
    BY <1>2, <1>4 DEF Progress
  <2> QED BY <2>1, <2>2 DEF Set
<1>6. /\ pc \in {"reset", "upsert", "item", "meta"}
      /\ (pc = "reset") = top /\ (pc = "item" => q.obj # None) /\ (pc = "upsert" => ~top)
  OBVIOUS
<1>7. /\ own \in [Buckets -> NodeIds \cup {0}] /\ own[b] = IF top THEN n ELSE q.own[b]
      /\ \A c \in Buckets \ {b} : own[c] = q.own[c]
      /\ ~top => own = q.own
  BY <1>3
<1>8. /\ DOMAIN stat \subseteq DOMAIN q.stat \cup {n} /\ (top => stat = q.stat)
      /\ \A m : (IF m \in DOMAIN stat THEN stat[m] ELSE 0) = CountOf(q, m)
  BY DEF Aggregate, CountOf
<1> HIDE DEF own, stat, pc
<1>9. /\ r.pc = pc /\ r.chain = Append(q.chain, n) /\ r.own = own /\ r.stat = stat
      /\ r.at = q.at /\ r.obj = q.obj /\ r.objs = q.objs /\ r.todo = q.todo
  BY <1>2, <1>4 DEF Progress
<1>10. r \in Progress
  BY <1>5 DEF ScanInv, Types
<1>11. /\ r.chain # <<>> /\ Last(r.chain) = n /\ Range(r.chain) = Range(q.chain) \cup {n}
       /\ r.chain[1] = IF top THEN n ELSE q.chain[1]
  BY <1>3, <1>9, ChainAppend, ChainRange
<1>12. node' = [node EXCEPT ![n] = IF @ = None THEN @ ELSE [@ EXCEPT !.pathed = TRUE]]
  BY <1>1 DEF UpsertUpdate
<1>13. ASSUME NEW m \in NodeIds
       PROVE  /\ node'[m] = None <=> node[m] = None
              /\ node[m] # None => /\ SameShape(m) /\ node'[m].count = node[m].count
                                   /\ node'[m].status = node[m].status
                                   /\ node'[m].pathed = (node[m].pathed \/ m = n)
  <2>1. node[m] \in MetaNode \cup {None}
    BY DEF ScanInv, Types, RowsTyped
  <2>2. CASE m = n /\ node[n] # None
    <3>1. node'[n] = [node[n] EXCEPT !.pathed = TRUE] /\ node[n] \in MetaNode
      BY <1>3, <1>12, <2>1, <2>2 DEF ScanInv, Types, RowsTyped
    <3>2. [node[n] EXCEPT !.pathed = TRUE] \in MetaNode
      BY <3>1 DEF MetaNode
    <3>3. node'[n] # None
      BY <3>1, <3>2, ConstantsAssumption DEF ConstantsAssumption
    <3> QED BY <2>2, <3>1, <3>3 DEF SameShape, MetaNode
  <2>3. CASE ~(m = n /\ node[n] # None)
    <3>1. node'[m] = node[m]
      BY <1>3, <1>12, <2>3 DEF ScanInv, Types, RowsTyped
    <3>2. node[m] # None => m # n /\ node[m].pathed \in BOOLEAN
      BY <2>1, <2>3 DEF MetaNode
    <3> QED BY <3>1, <3>2 DEF SameShape
  <2> QED BY <2>2, <2>3
<1>14. Rows' = Rows
  BY <1>13 DEF Rows
<1>15. HeldIds(r) \subseteq HeldIds(q) \cup {n} \cup {0}
  <2>1. Range(own) \subseteq Range(q.own) \cup {n}
    BY <1>3, <1>7 DEF Range
  <2> QED BY <1>8, <1>9, <1>11, <2>1 DEF HeldIds
<1>16. ASSUME Counting(q) PROVE Counting(r)'
  <2>1. q.pc \notin ClearPCs /\ r.pc # "final" /\ q.pc # "final" /\ (r.pc \in ClearPCs) = top
        /\ r.pc \in PathPCs \ {"list"} /\ r.pc # "updateitem"
    BY <1>2, <1>6, <1>9 DEF ClearPCs
  <2>2. Chained(r)
    <3>1. CASE top
      <4>1. IdPath[n] = {n}
        BY <1>3, <3>1, IdPathExists DEF TopOf, IdPathDefined, ScanInv, Rows
      <4>2. Range(q.chain) = {}
        BY <3>1 DEF Range
      <4> QED BY <1>1, <1>7, <1>9, <1>11, <3>1, <4>1, <4>2 DEF Chained
    <3>2. CASE ~top
      <4>1. q.own[b] = q.chain[1]
        BY <1>1, <1>2, <1>16, <3>2 DEF Counting, Chained
      <4>2. ASSUME node[n] # None PROVE Range(r.chain) = IdPath[n]
        <5>1. node[n].parent = Last(q.chain) /\ Last(q.chain) \in NodeIds /\ Last(q.chain) # 0
          BY <1>1, <1>2, <3>2, <4>2, ChainEnds, ConstantsAssumption
             DEF Informed, Above, ConstantsAssumption
        <5>2. node[Last(q.chain)] # None
          BY <1>3, <4>2, <5>1 DEF ScanInv, Forest, TreeSound, Rows
        <5>3. Range(q.chain) = IdPath[Last(q.chain)]
          BY <1>2, <1>16, <3>2, <5>2 DEF Counting, Chained
        <5>4. IdPath[n] = IdPath[Last(q.chain)] \cup {n}
          BY <1>3, <4>2, <5>1, IdPathExists DEF IdPathDefined, ScanInv
        <5> QED BY <1>11, <5>3, <5>4
      <4> QED BY <1>1, <1>7, <1>9, <1>11, <3>2, <4>1, <4>2 DEF Chained
    <3> QED BY <3>1, <3>2
  <2>3. Cleared(r) = Cleared(q)
    <3>1. CASE top
      <4>1. q.own[b] = 0
        BY <1>1, <1>2, <1>16, <3>1 DEF Counting, Chained
      <4>2. \A c \in Buckets \ {b} : q.own[c] # n
        BY <1>2, <1>3, <3>1 DEF Informed, TopOf
      <4>3. (Range(own) \ {0}) \ {n} = Range(q.own) \ {0}
        BY <1>3, <1>7, <3>1, <4>1, <4>2 DEF Range
      <4> QED BY <1>9, <1>11, <2>1, <3>1, <4>3 DEF Cleared
    <3>2. CASE ~top
      BY <1>7, <1>9, <2>1, <3>2 DEF Cleared
    <3> QED BY <3>1, <3>2
  <2>4. Tally(r)
    <3>1. DOMAIN q.stat \cap Rows \subseteq Mine(q) /\ Tally(q)
      BY <1>16, <2>1 DEF Counting, Tally
    <3>2. ASSUME ~top, n \in Rows PROVE n \in Mine(q)
      <4>1. node[n] # None
        BY <3>2 DEF Rows
      <4>2. node[n].parent = Last(q.chain) /\ Last(q.chain) \in NodeIds /\ Last(q.chain) # 0
        BY <1>1, <1>2, <3>2, <4>1, ChainEnds, ConstantsAssumption
           DEF Informed, Above, ConstantsAssumption
      <4>3. node[Last(q.chain)] # None
        BY <1>3, <3>2, <4>2 DEF ScanInv, Forest, TreeSound, Rows
      <4>4. Last(q.chain) \in Mine(q)
        BY <1>2, <1>16, <2>1, <3>2, <4>3, ChainMine, ChainIn DEF Counting
      <4>5. IdPath[n] = IdPath[Last(q.chain)] \cup {n}
        BY <1>3, <4>1, <4>2, IdPathExists DEF IdPathDefined, ScanInv
      <4> QED BY <3>2, <4>4, <4>5 DEF Mine
    <3>3. DOMAIN r.stat \cap Rows \subseteq Mine(q)
      BY <1>8, <1>9, <3>1, <3>2
    <3>4. \A m \in Rows : CountOf(r, m) = CountOf(q, m)
      BY <1>8, <1>9 DEF CountOf
    <3> QED BY <1>2, <2>1, <2>3, <3>1, <3>3, <3>4, TallyOn DEF CountInv
  <2>5. Ahead(r)
    <3>1. ASSUME NEW p \in q.todo, r.own[p[1]] \in Cleared(r)
          PROVE  Rels(p) \cap Filed(p[1]) = {}
      <4>1. p[1] \in Buckets
        BY <1>2, <3>1, PathsOf DEF Progress
      <4>2. r.own[p[1]] = q.own[p[1]]
        <5>1. CASE top /\ p[1] = b
          <6>1. r.own[p[1]] = n /\ n \notin Cleared(r)
            BY <1>7, <1>9, <1>11, <2>1, <5>1 DEF Cleared
          <6> QED BY <3>1, <6>1
        <5>2. CASE ~(top /\ p[1] = b)
          BY <1>7, <1>9, <4>1, <5>2
        <5> QED BY <5>1, <5>2
      <4> QED BY <1>2, <1>16, <2>3, <3>1, <4>2 DEF Counting, Ahead
    <3> QED BY <1>2, <1>9, <1>16, <2>1, <3>1 DEF Counting, Ahead
  <2>6. Queued(r)
    <3>1. Waiting(r) \subseteq Waiting(q) /\ (InWork(r) => InWork(q) /\ r.obj = q.obj)
      BY <1>2, <1>6, <1>9 DEF Waiting, InWork
    <3> QED BY <1>2, <1>9, <1>16, <2>1, <3>1 DEF Counting, Queued
  <2>7. Clearing(r)'
    BY <1>6, <1>9 DEF Clearing
  <2> QED BY <1>2, <1>10, <1>13, <1>14, <2>1, <2>2, <2>4, <2>5, <2>6, <2>7, CountingTouched DEF Rows
<1>17. CountsRight => CountsRight'
  BY <1>2, <1>13, <1>14, CountsTouched DEF Rows
<1>18. \A m \in Rows' : /\ m \in Rows /\ SameShape(m) /\ (node[m].pathed => node'[m].pathed)
                        /\ ~node'[m].pathed => node'[m].status = node[m].status
  BY <1>13, <1>14 DEF Rows
<1>19. \A m \in Rows' : m \in HeldIds(r) => m \in HeldIds(q) \/ node'[m].pathed
  BY <1>13, <1>14, <1>15, ConstantsAssumption DEF Rows, ConstantsAssumption
<1>20. ~overlap => CountsRight' /\ Counting(r)'
  BY <1>1, <1>2, <1>16, <1>17 DEF CountInv
<1>21. IsFiniteSet(items')
  BY <1>2 DEF CountInv
<1> QED BY <1>1, <1>2, <1>5, <1>18, <1>19, <1>20, <1>21, CountMoved

\* A row is inserted: nothing is below it, and it is not scanned.
LEMMA CountUpsertCreate ==
  ASSUME ScanInv, ScanInv', OneByOne, CountInv, NEW w \in Requests, UpsertCreate(w)
  PROVE  CountInv'
<1> DEFINE p == Parent(w)
           name == Head(req[w].segs)
           refused == IF p = 0 THEN FALSE ELSE node[p] = None \/ Children(p, name) # {}
<1>1. PICK q : q = req[w]
  OBVIOUS
<1>2. /\ q \in Progress /\ Informed(q) /\ q.pc = "create" /\ Active(w)
      /\ UNCHANGED <<overlap, items>>
  BY <1>1, Before DEF UpsertCreate, Active, envVars
<1>3. CASE Set(w, GiveUp(w)) /\ UNCHANGED node
  BY <1>1, <1>2, <1>3, CountGivenUp
<1>4. ASSUME NEW n \in FreshIds, ~refused,
             node' = [node EXCEPT ![n] = [parent |-> p, name |-> name, pathed |-> FALSE,
                                          status |-> Unscanned, count |-> 0]],
             Set(w, [req[w] EXCEPT !.id = n, !.pc = "update"])
      PROVE  CountInv'
  <2>1. PICK row : row = [parent |-> p, name |-> name, pathed |-> FALSE,
                          status |-> Unscanned, count |-> 0]
    OBVIOUS
  <2>2. PICK r : r = [q EXCEPT !.id = n, !.pc = "update"]
    OBVIOUS
  <2>3. /\ r.pc = "update" /\ r.own = q.own /\ r.at = q.at /\ r.todo = q.todo
        /\ r.chain = q.chain /\ r.objs = q.objs /\ r.obj = q.obj /\ r.stat = q.stat
    BY <1>2, <2>2 DEF Progress
  <2>4. req' = [req EXCEPT ![w] = r]
    BY <1>1, <1>4, <2>2 DEF Set
  <2>5. /\ n \in NodeIds /\ node[n] = None /\ n \notin Rows /\ n \notin HeldIds(q)
        /\ n \notin Holds(q)
    BY <1>1, FreshFacts DEF Rows, HeldIds, Holds
  <2>6. /\ node'[n] = row /\ \A m \in Rows : m # n /\ node'[m] = node[m]
        /\ \A m \in NodeIds \ {n} : node'[m] = node[m]
    BY <1>4, <2>1, <2>5 DEF ScanInv, Types, RowsTyped, Rows
  <2>7. Rows' = Rows \cup {n}
    <3>1. row # None
      <4>1. p \in NodeIds \cup {0}
        BY <1>1, <1>2, ChainEnds DEF Parent
      <4>2. name \in Names
        BY <1>1, <1>2 DEF Informed, Progress
      <4>3. row \in MetaNode
        BY <2>1, <4>1, <4>2 DEF MetaNode
      <4> QED BY <4>3, ConstantsAssumption DEF ConstantsAssumption
    <3> QED BY <2>5, <2>6, <3>1 DEF Rows
  <2>8. \A m \in Rows : m \in Rows' /\ SameShape(m)
    BY <2>6, <2>7 DEF SameShape
  <2>9. /\ row.parent = p /\ row.status = Unscanned /\ row.pathed = FALSE
        /\ p # 0 => p \in Range(q.chain) /\ p \in Rows
    BY <1>1, <1>2, <1>4, <2>1, ChainEnds, ChainIn DEF Parent, Rows
  <2>10. p # 0 => p \in Rows /\ node'[p].pathed
    BY <1>1, <2>6, <2>9 DEF CountInv, HeldWritten, HeldIds
  <2>11. \A m \in Rows : IdPath'[m] = IdPath[m] /\ IdPath[m] \subseteq Rows
    BY <2>8, IdPathKept, Lineage DEF ScanInv, Lined
  <2>12. \A i \in items : i.node \in Rows
    BY DEF ScanInv, Types, MetaItem, ItemsInPlace, Rows
  <2>13. \A m : Under(m)' = Under(m) /\ Filed(m)' = Filed(m)
    BY <1>2, <2>11, <2>12 DEF Under, Filed
  <2>14. Under(n) = {} /\ Cardinality(Under(n)) = 0
    <3>1. Under(n) = {}
      BY <2>5, <2>11, <2>12 DEF Under
    <3> QED BY <3>1, FS_EmptySet
  <2>15. HeldIds(r) = HeldIds(q)
    BY <2>3 DEF HeldIds
  <2>16. CountsRight => CountsRight'
    BY <2>6, <2>7, <2>9, <2>13 DEF CountsRight, Unscanned, Scanned
  <2>17. ASSUME Counting(q) PROVE Counting(r)'
    <3>1. q.pc \notin ClearPCs /\ r.pc \notin ClearPCs /\ q.pc # "final"
      BY <1>2, <2>3 DEF ClearPCs
    <3>2. Cleared(r) = Cleared(q)
      BY <2>3, <3>1 DEF Cleared
    <3>3. Mine(q) \subseteq Mine(r)' /\ Mine(r)' \subseteq Mine(q) \cup {n}
      BY <2>7, <2>11, <3>2 DEF Mine, Cleared
    <3>4. Tally(r)'
      <4>1. ASSUME NEW m \in Mine(q)
            PROVE  node'[m].status # Scanned /\ CountOf(r, m) = Cardinality(Under(m))
        <5>1. m \in Rows /\ node[m].status # Scanned /\ CountOf(q, m) = Cardinality(Under(m))
          BY <2>17, <3>1, <4>1 DEF Counting, Tally, Mine
        <5> QED BY <2>3, <2>6, <5>1 DEF CountOf
      <4>2. node'[n].status # Scanned /\ CountOf(r, n) = Cardinality(Under(n))
        <5>1. n \notin DOMAIN r.stat
          BY <2>3, <2>5 DEF HeldIds
        <5> QED BY <2>6, <2>9, <2>14, <5>1 DEF CountOf, Unscanned, Scanned
      <4>3. DOMAIN r.stat \cap Rows' \subseteq Mine(q)
        BY <2>3, <2>5, <2>7, <2>17, <3>1 DEF Counting, Tally, HeldIds
      <4> QED BY <2>3, <2>13, <3>3, <4>1, <4>2, <4>3 DEF Tally, CountOf
    <3>5. Chained(r)'
      <4>1. ASSUME q.chain # <<>>, node'[Last(q.chain)] # None
            PROVE  Range(q.chain) = IdPath'[Last(q.chain)]
        <5>1. Last(q.chain) \in NodeIds /\ Last(q.chain) # n
          BY <1>2, <2>5, <4>1, ChainEnds
        <5>2. node[Last(q.chain)] # None /\ Last(q.chain) \in Rows
          BY <2>6, <4>1, <5>1 DEF Rows
        <5> QED BY <1>2, <2>11, <2>17, <4>1, <5>2 DEF Counting, Chained
      <4> QED BY <1>2, <2>3, <2>17, <4>1 DEF Counting, Chained
    <3>6. Clearing(r)'
      BY <2>3 DEF Clearing
    <3>7. Ahead(r)'
      BY <1>2, <2>3, <2>13, <2>17, <3>2 DEF Counting, Ahead, Cleared
    <3>8. Queued(r)'
      BY <1>2, <2>3, <2>13, <2>17, <3>1 DEF Counting, Queued, InWork, Waiting
    <3> QED BY <2>3, <3>4, <3>5, <3>6, <3>7, <3>8 DEF Counting
  <2>18. \A m \in Rows' :
            \/ /\ m \in Rows /\ SameShape(m) /\ (node[m].pathed => node'[m].pathed)
               /\ ~node'[m].pathed => node'[m].status = node[m].status
            \/ /\ m \in FreshIds /\ node'[m].status = Unscanned
               /\ node'[m].parent # 0 => node'[node'[m].parent].pathed
    BY <1>4, <2>6, <2>7, <2>8, <2>9, <2>10
  <2>19. ~overlap => CountsRight' /\ Counting(r)'
    BY <1>1, <1>2, <2>16, <2>17 DEF CountInv
  <2>20. IsFiniteSet(items')
    BY <1>2 DEF CountInv
  <2> QED BY <1>1, <1>2, <2>4, <2>15, <2>18, <2>19, <2>20, CountMoved
<1> QED BY <1>3, <1>4 DEF UpsertCreate

\* The rows below the bucket whose path is written go, with their items.
LEMMA CountDeleteDescendants ==
  ASSUME ScanInv, ScanInv', OneByOne, CountInv, NEW w \in Requests, DeleteDescendants(w)
  PROVE  CountInv'
<1>1. PICK q, c : q = req[w] /\ c = q.chain[1]
  OBVIOUS
<1>2. /\ q \in Progress /\ Informed(q) /\ q.pc = "delnodes" /\ Active(w)
      /\ UNCHANGED overlap
  BY <1>1, Before DEF DeleteDescendants, Active, envVars
<1>3. PICK r : r = [q EXCEPT !.pc = "delitems"]
  OBVIOUS
<1>4. req' = [req EXCEPT ![w] = r]
  BY <1>1, <1>3 DEF DeleteDescendants, Goto, Set
<1>5. /\ r.pc = "delitems" /\ r.own = q.own /\ r.at = q.at /\ r.todo = q.todo
      /\ r.chain = q.chain /\ r.objs = q.objs /\ r.obj = q.obj /\ r.stat = q.stat
  BY <1>2, <1>3 DEF Progress
<1>6. TopOf(c, q.at[1]) /\ q.chain # <<>> /\ c \in Rows /\ node[c].parent = 0
  BY <1>1, <1>2 DEF Informed, TopOf
<1>23. PICK gone : gone = Descendants(c)
  OBVIOUS
<1>24. /\ node' = [n \in NodeIds |-> IF n \in gone THEN None ELSE node[n]]
       /\ items' = {i \in items : i.node \notin gone}
  BY <1>1, <1>23 DEF DeleteDescendants
<1>25. PICK named : /\ named = {n \in Rows \ {c} : node[n].pathed /\ c \in IdPath[n]}
                    /\ gone = {n \in Rows : IdPath[n] \cap named # {}}
  BY <1>23 DEF Descendants
<1>7. /\ named = {n \in Rows \ {c} : node[n].pathed /\ c \in IdPath[n]}
      /\ gone = {n \in Rows : IdPath[n] \cap named # {}}
      /\ node' = [n \in NodeIds |-> IF n \in gone THEN None ELSE node[n]]
      /\ items' = {i \in items : i.node \notin gone}
  BY <1>24, <1>25
<1>8. Rows' = Rows \ gone /\ \A n \in Rows' : node'[n] = node[n] /\ SameShape(n)
  BY <1>7 DEF Rows, SameShape
<1>9. \A n \in Rows' : IdPath'[n] = IdPath[n]
  BY <1>8, IdPathKept DEF ScanInv
<1>10. \A i \in items : i.node \in Rows
  BY DEF ScanInv, Types, MetaItem, ItemsInPlace, Rows
<1>11. IdPath[c] = {c}
  BY <1>6, IdPathExists DEF IdPathDefined, ScanInv, Rows
<1>12. c \in Rows'
  BY <1>6, <1>7, <1>8, <1>11
<1>13. ASSUME NEW n \in gone PROVE c \in IdPath[n]
  <2>1. PICK k \in named : k \in IdPath[n] /\ n \in Rows
    BY <1>7
  <2> QED BY <1>7, <2>1, Lineage DEF Lined, ScanInv
<1>14. ASSUME NEW n \in Rows, c \notin IdPath[n] PROVE n \in Rows' /\ Under(n)' = Under(n)
  <2>1. n \in Rows'
    BY <1>8, <1>13, <1>14
  <2>2. ASSUME NEW i \in items, n \in IdPath[i.node] PROVE i \in items'
    <3>1. c \notin IdPath[i.node]
      BY <1>6, <1>10, <1>14, <2>2, BelowApart DEF ScanInv
    <3> QED BY <1>7, <1>13, <3>1
  <2>3. \A i \in items' : i.node \in Rows'
    BY <1>7, <1>8, <1>10
  <2>4. Under(n)' = {i \in items' : n \in IdPath[i.node]}
    BY <1>9, <2>3 DEF Under
  <2> QED BY <1>7, <2>1, <2>2, <2>4 DEF Under
<1>15. ASSUME NEW n \in Rows', c \in IdPath[n], n # c
       PROVE  ~node[n].pathed /\ node[n].status = Unscanned
  <2>1. n \in Rows /\ n \notin gone /\ n \in IdPath[n]
    BY <1>8, Lineage DEF Lined, ScanInv
  <2>2. ~node[n].pathed
    BY <1>7, <1>15, <2>1
  <2> QED BY <2>1, <2>2 DEF CountInv, Written
<1>16. \A b : Filed(b)' \subseteq Filed(b)
  BY <1>7 DEF Filed
<1>17. ASSUME Counting(q), CountsRight PROVE CountsRight'
  <2> SUFFICES ASSUME NEW n \in Rows', node'[n].status = Scanned
               PROVE  node'[n].count = Cardinality(Under(n)')
    BY DEF CountsRight
  <2>1. n \in Rows /\ node'[n] = node[n]
    BY <1>8
  <2>2. node[c].status = Scanning
    BY <1>1, <1>2, <1>17 DEF Counting, Clearing
  <2>3. c \notin IdPath[n]
    BY <1>15, <2>1, <2>2 DEF Scanning, Scanned, Unscanned
  <2> QED BY <1>14, <1>17, <2>1, <2>3 DEF CountsRight
<1>18. ASSUME Counting(q) PROVE Counting(r)'
  <2>1. q.pc \in ClearPCs /\ r.pc \in ClearPCs /\ q.pc # "final"
    BY <1>2, <1>5 DEF ClearPCs
  <2>2. Cleared(r) = Cleared(q) /\ c \notin Cleared(q)
    BY <1>1, <1>5, <2>1 DEF Cleared
  <2>3. ASSUME NEW n \in Mine(q) PROVE n \in Rows /\ c \notin IdPath[n]
    <3>1. PICK t \in IdPath[n] : t \in Cleared(q) /\ n \in Rows
      BY <2>3 DEF Mine
    <3>2. PICK b \in Buckets : t = q.own[b] /\ t # 0
      BY <1>2, <3>1 DEF Cleared, Range, Progress
    <3>3. node[t].parent = 0
      BY <1>2, <3>2 DEF Informed, TopOf
    <3>4. t # c
      BY <2>2, <3>1
    <3> QED BY <1>6, <3>1, <3>3, <3>4, OneTop DEF ScanInv
  <2>4. Mine(q) \subseteq Mine(r)' /\ Mine(r)' \subseteq Mine(q)
    <3>1. ASSUME NEW n \in Mine(q) PROVE n \in Mine(r)'
      BY <1>9, <1>14, <2>2, <2>3, <3>1 DEF Mine, Cleared
    <3>2. ASSUME NEW n \in Mine(r)' PROVE n \in Mine(q)
      BY <1>8, <1>9, <2>2, <3>2 DEF Mine, Cleared
    <3> QED BY <3>1, <3>2
  <2>5. Tally(r)'
    <3>1. ASSUME NEW n \in Mine(q)
          PROVE  node'[n].status # Scanned /\ CountOf(r, n) = Cardinality(Under(n)')
      BY <1>5, <1>8, <1>14, <1>18, <2>1, <2>3 DEF Counting, Tally, CountOf
    <3>2. DOMAIN r.stat \cap Rows' \subseteq Mine(q)
      BY <1>5, <1>8, <1>18, <2>1 DEF Counting, Tally
    <3> QED BY <1>5, <2>4, <3>1, <3>2 DEF Tally, CountOf
  <2>6. Chained(r)'
    <3>1. node'[Last(q.chain)] # None =>
             Last(q.chain) \in Rows' /\ node[Last(q.chain)] # None
      BY <1>2, <1>6, <1>7, ChainEnds DEF Rows
    <3> QED BY <1>2, <1>5, <1>9, <1>18, <3>1 DEF Counting, Chained
  <2>7. Clearing(r)'
    <3>1. node'[c].status = Scanning
      BY <1>1, <1>2, <1>8, <1>12, <1>18 DEF Counting, Clearing
    <3>2. \A n \in Rows' \ {c} : c \in IdPath'[n] => ~node'[n].pathed
      BY <1>8, <1>9, <1>15
    <3> QED BY <1>1, <1>5, <3>1, <3>2 DEF Clearing
  <2>8. Ahead(r)'
    BY <1>2, <1>5, <1>16, <1>18, <2>2 DEF Counting, Ahead, Cleared
  <2>9. Queued(r)'
    <3>1. Waiting(r) = Waiting(q) /\ ~InWork(r)
      BY <1>2, <1>5 DEF Waiting, InWork
    <3> QED BY <1>2, <1>5, <1>18, <2>1, <3>1 DEF Counting, Queued, Waiting, InWork
  <2> QED BY <1>5, <2>5, <2>6, <2>7, <2>8, <2>9 DEF Counting
<1>19. \A m \in Rows' : /\ m \in Rows /\ SameShape(m) /\ (node[m].pathed => node'[m].pathed)
                        /\ ~node'[m].pathed => node'[m].status = node[m].status
  BY <1>8
<1>20. HeldIds(r) = HeldIds(q)
  BY <1>5 DEF HeldIds
<1>21. ~overlap => CountsRight' /\ Counting(r)'
  BY <1>1, <1>2, <1>17, <1>18 DEF CountInv
<1>22. IsFiniteSet(items') /\ items' \subseteq items
  BY <1>7, FS_Subset DEF CountInv
<1> QED BY <1>1, <1>2, <1>4, <1>19, <1>20, <1>21, <1>22, CountMoved

\* An item is of the bucket whose row is above it.
LEMMA ItemTop ==
  ASSUME ScanInv, TopsOnce, NEW c \in Rows, NEW b, TopOf(c, b), NEW i \in items, i.bucket = b
  PROVE  c \in IdPath[i.node]
<1>1. /\ i.node \in Rows /\ i.bucket \in Names /\ i.rel \in Seq(Names) /\ i.name \in Names
      /\ Segments[i.node] \o <<i.name>> = <<i.bucket>> \o i.rel
  BY DEF ScanInv, Types, MetaItem, ItemsInPlace, Names, Rows
<1>2. PICK t \in IdPath[i.node] : node[t].parent = 0 /\ node[t].name = Segments[i.node][1]
  BY <1>1, Lineage DEF Lined, ScanInv
<1>3. t \in Rows /\ Segments[i.node] # <<>>
  BY <1>1, <1>2, Lineage DEF Lined, ScanInv
<1>4. PICK s : s = Segments[i.node]
  OBVIOUS
<1>5. s \in Seq(Names) /\ s # <<>>
  BY <1>1, <1>3, <1>4, SegmentsExist DEF SegmentsDefined, ScanInv, Rows
<1>6. Len(s) \in Nat /\ Len(s) > 0
  BY <1>5
<1>7. (s \o <<i.name>>)[1] = s[1]
  <2>1. <<i.name>> \in Seq(Names) /\ Len(<<i.name>>) = 1
    BY <1>1
  <2>2. 1 \in 1 .. Len(s) + Len(<<i.name>>) /\ 1 <= Len(s)
    BY <1>6, <2>1
  <2> QED BY <1>5, <2>1, <2>2, Concatenation
<1>8. (<<i.bucket>> \o i.rel)[1] = i.bucket
  <2>1. <<i.bucket>> \in Seq(Names) /\ Len(<<i.bucket>>) = 1 /\ <<i.bucket>>[1] = i.bucket
    BY <1>1
  <2>2. Len(i.rel) \in Nat
    BY <1>1
  <2>3. 1 \in 1 .. Len(<<i.bucket>>) + Len(i.rel) /\ 1 <= Len(<<i.bucket>>)
    BY <2>1, <2>2
  <2>4. (<<i.bucket>> \o i.rel)[1] = <<i.bucket>>[1]
    BY <1>1, <2>1, <2>3, Concatenation
  <2> QED BY <2>1, <2>4
<1>9. s[1] = i.bucket
  BY <1>1, <1>4, <1>7, <1>8
<1>10. node[t].name = b
  BY <1>2, <1>4, <1>9
<1>11. t = c
  BY <1>2, <1>3, <1>10 DEF TopsOnce, TopOf
<1> QED BY <1>2, <1>11

\* The items that hang at the bucket's row go: nothing is left below it.
LEMMA CountDeleteBucketItems ==
  ASSUME ScanInv, ScanInv', OneByOne, CountInv, NEW w \in Requests, DeleteBucketItems(w)
  PROVE  CountInv'
<1>1. PICK q, c : q = req[w] /\ c = q.chain[1]
  OBVIOUS
<1>2. /\ q \in Progress /\ Informed(q) /\ q.pc = "delitems" /\ Active(w)
      /\ UNCHANGED <<overlap, node>> /\ items' = {i \in items : i.node # c}
  BY <1>1, Before DEF DeleteBucketItems, Active, envVars
<1>3. PICK r : r = [q EXCEPT !.pc = "meta"]
  OBVIOUS
<1>4. req' = [req EXCEPT ![w] = r]
  BY <1>1, <1>3 DEF DeleteBucketItems, Goto, Set
<1>5. /\ r.pc = "meta" /\ r.own = q.own /\ r.at = q.at /\ r.todo = q.todo
      /\ r.chain = q.chain /\ r.objs = q.objs /\ r.obj = q.obj /\ r.stat = q.stat
  BY <1>2, <1>3 DEF Progress
<1>6. TopOf(c, q.at[1]) /\ q.chain # <<>> /\ c \in Rows /\ node[c].parent = 0 /\ c # 0
      /\ q.at[1] \in Buckets
  BY <1>1, <1>2, PathsOf, ConstantsAssumption DEF Informed, TopOf, Rows, ConstantsAssumption
<1>7. IdPath' = IdPath /\ Rows' = Rows
  <2>1. Rows' = Rows
    BY <1>2 DEF Rows
  <2> QED BY <1>2, <2>1, IdPathSame DEF ScanInv, SameShape
<1>8. \A i \in items : i.node \in Rows
  BY DEF ScanInv, Types, MetaItem, ItemsInPlace, Rows
<1>9. IdPath[c] = {c}
  BY <1>6, IdPathExists DEF IdPathDefined, ScanInv, Rows
<1>10. ASSUME NEW n \in Rows, c \notin IdPath[n] PROVE Under(n)' = Under(n)
  <2>1. n # c
    BY <1>9, <1>10
  <2> QED BY <1>2, <1>7, <1>9, <2>1 DEF Under
<1>11. \A b : Filed(b)' \subseteq Filed(b)
  BY <1>2 DEF Filed
<1>12. ASSUME Clearing(q) PROVE \A i \in items' : c \notin IdPath[i.node]
  <2> SUFFICES ASSUME NEW i \in items, c \in IdPath[i.node] PROVE i.node = c
    BY <1>2
  <2>1. node[i.node].pathed
    BY DEF CountInv, Written
  <2> QED BY <1>1, <1>2, <1>8, <1>12, <2>1 DEF Clearing
<1>13. ASSUME Clearing(q), NEW n \in Rows, c \in IdPath[n]
       PROVE  Under(n)' = {} /\ node[n].status # Scanned
  <2>1. Under(n)' = {}
    <3> SUFFICES ASSUME NEW i \in items', n \in IdPath[i.node] PROVE FALSE
      BY <1>7 DEF Under
    <3>1. i.node \in Rows
      BY <1>2, <1>8
    <3>2. c \in IdPath[i.node]
      BY <1>13, <3>1, Lineage DEF Lined, ScanInv
    <3> QED BY <1>12, <1>13, <3>2
  <2>2. node[n].status # Scanned
    <3>1. CASE n = c
      BY <1>1, <1>2, <1>13, <3>1 DEF Clearing, Scanning, Scanned
    <3>2. CASE n # c
      <4>1. ~node[n].pathed
        BY <1>1, <1>2, <1>13, <3>2 DEF Clearing
      <4> QED BY <4>1 DEF CountInv, Written, Unscanned, Scanned
    <3> QED BY <3>1, <3>2
  <2> QED BY <2>1, <2>2
<1>14. ASSUME Counting(q), CountsRight PROVE CountsRight'
  <2> SUFFICES ASSUME NEW n \in Rows, node[n].status = Scanned
               PROVE  node[n].count = Cardinality(Under(n)')
    BY <1>2, <1>7 DEF CountsRight
  <2>1. c \notin IdPath[n]
    BY <1>13, <1>14 DEF Counting
  <2> QED BY <1>10, <1>14, <2>1 DEF CountsRight
<1>15. ASSUME Counting(q), TopsOnce PROVE Counting(r)'
  <2>1. q.pc \in ClearPCs /\ r.pc \notin ClearPCs /\ q.pc # "final" /\ r.pc # "final"
    BY <1>2, <1>5 DEF ClearPCs
  <2>2. q.own[q.at[1]] = c /\ c \in Range(q.own)
    <3>1. q.own[q.at[1]] = c
      BY <1>1, <1>2, <1>6, <1>15 DEF Counting, Chained
    <3> QED BY <1>2, <1>6, <3>1 DEF Progress, Range
  <2>3. Cleared(q) = (Range(q.own) \ {0}) \ {c} /\ Cleared(r) = Cleared(q) \cup {c}
    BY <1>1, <1>5, <1>6, <2>1, <2>2 DEF Cleared
  <2>4. ASSUME NEW n \in Mine(q) PROVE n \in Rows /\ c \notin IdPath[n]
    <3>1. PICK t \in IdPath[n] : t \in Cleared(q) /\ n \in Rows
      BY <2>4 DEF Mine
    <3>2. PICK b \in Buckets : t = q.own[b] /\ t # 0
      BY <1>2, <2>3, <3>1 DEF Range, Progress
    <3>3. node[t].parent = 0
      BY <1>2, <3>2 DEF Informed, TopOf
    <3>4. t # c
      BY <2>3, <3>1
    <3> QED BY <1>6, <3>1, <3>3, <3>4, OneTop DEF ScanInv
  <2>5. Mine(r)' = Mine(q) \cup {n \in Rows : c \in IdPath[n]}
    BY <1>7, <2>3 DEF Mine, Cleared
  <2>6. Tally(r)'
    <3>1. ASSUME NEW n \in Mine(q)
          PROVE  node[n].status # Scanned /\ CountOf(r, n) = Cardinality(Under(n)')
      BY <1>5, <1>10, <1>15, <2>1, <2>4, <3>1 DEF Counting, Tally, CountOf
    <3>2. ASSUME NEW n \in Rows, c \in IdPath[n]
          PROVE  node[n].status # Scanned /\ CountOf(r, n) = Cardinality(Under(n)')
      <4>1. n \notin DOMAIN r.stat
        BY <1>5, <1>15, <2>1, <2>4, <3>2 DEF Counting, Tally
      <4>2. Under(n)' = {} /\ node[n].status # Scanned
        BY <1>13, <1>15, <3>2 DEF Counting
      <4> QED BY <4>1, <4>2, FS_EmptySet DEF CountOf
    <3>3. DOMAIN r.stat \cap Rows \subseteq Mine(q)
      BY <1>5, <1>15, <2>1 DEF Counting, Tally
    <3> QED BY <1>2, <1>5, <1>7, <2>5, <3>1, <3>2, <3>3 DEF Tally, CountOf
  <2>7. Chained(r)'
    BY <1>2, <1>5, <1>7, <1>15 DEF Counting, Chained
  <2>8. Clearing(r)'
    BY <1>5 DEF Clearing
  <2>9. Filed(q.at[1])' = {}
    <3> SUFFICES ASSUME NEW i \in items', i.bucket = q.at[1] PROVE FALSE
      BY DEF Filed
    <3>1. c \in IdPath[i.node]
      BY <1>2, <1>6, <1>15, ItemTop
    <3> QED BY <1>12, <1>15, <3>1 DEF Counting
  <2>10. Ahead(r)'
    <3>1. ASSUME NEW p \in q.todo, q.own[p[1]] \in Cleared(r)
          PROVE  Rels(p) \cap Filed(p[1])' = {}
      <4>1. p[1] \in Buckets
        BY <1>2, <3>1, PathsOf DEF Progress
      <4>2. CASE p[1] = q.at[1]
        BY <2>9, <4>2
      <4>3. CASE p[1] # q.at[1]
        <5>1. q.own[p[1]] # c
          BY <1>2, <1>6, <4>1, <4>3 DEF Informed, TopOf
        <5>2. Rels(p) \cap Filed(p[1]) = {}
          BY <1>2, <1>15, <2>3, <3>1, <5>1 DEF Counting, Ahead
        <5> QED BY <1>11, <5>2
      <4> QED BY <4>2, <4>3
    <3>2. Disjoint(q.todo) /\ q.at \notin q.todo /\ Disjoint(q.todo \cup {q.at})
      BY <1>2, <1>15 DEF Counting, Ahead
    <3> QED BY <1>5, <3>1, <3>2 DEF Ahead, Cleared
  <2>11. Queued(r)'
    <3>1. Waiting(r) = Waiting(q) /\ ~InWork(r)
      BY <1>2, <1>5 DEF Waiting, InWork
    <3>2. (Waiting(r) = Waiting(q) /\ ~InWork(r))'
      BY <1>2, <1>5 DEF Waiting, InWork
    <3>3. /\ \A o \in Waiting(q) : o.rel \in Rels(q.at)
          /\ \A o, p \in Waiting(q) : o.rel = p.rel => o = p
      BY <1>2, <1>15 DEF Counting, Queued
    <3> QED BY <1>5, <2>9, <3>2, <3>3 DEF Queued, Waiting, InWork
  <2> QED BY <1>5, <2>6, <2>7, <2>8, <2>10, <2>11 DEF Counting
<1>16. \A m \in Rows' : /\ m \in Rows /\ SameShape(m) /\ (node[m].pathed => node'[m].pathed)
                        /\ ~node'[m].pathed => node'[m].status = node[m].status
  BY <1>2, <1>7 DEF SameShape
<1>17. HeldIds(r) = HeldIds(q)
  BY <1>5 DEF HeldIds
<1>18. ~overlap => CountsRight' /\ Counting(r)'
  BY <1>1, <1>2, <1>14, <1>15 DEF CountInv, OneByOne
<1>19. IsFiniteSet(items') /\ items' \subseteq items
  BY <1>2, FS_Subset DEF CountInv
<1> QED BY <1>1, <1>2, <1>4, <1>16, <1>17, <1>18, <1>19, CountMoved

\* A node gets the count of the request's statistics.
LEMMA CountFinalize ==
  ASSUME ScanInv, ScanInv', OneByOne, CountInv, NEW w \in Requests, Finalize(w)
  PROVE  CountInv'
<1>1. PICK q : q = req[w]
  OBVIOUS
<1>2. /\ q \in Progress /\ q.pc = "final" /\ Active(w) /\ UNCHANGED <<overlap, items>>
  BY <1>1, Before DEF Finalize, Active, envVars
<1>3. PICK left : left = ToFinalize(w)
  OBVIOUS
<1>4. /\ DOMAIN left = DOMAIN q.stat \cup (Range(q.own) \ {0})
      /\ \A n \in DOMAIN left : left[n] = IF n \in DOMAIN q.stat THEN q.stat[n] ELSE 0
      /\ DOMAIN left \subseteq HeldIds(q)
  BY <1>1, <1>3 DEF ToFinalize, HeldIds
<1>5. ASSUME Counting(q), NEW n \in Rows, n \in DOMAIN left PROVE left[n] = Cardinality(Under(n))
  <2>1. CASE n \in DOMAIN q.stat
    BY <1>2, <1>4, <1>5, <2>1 DEF Counting, Tally
  <2>2. CASE n \notin DOMAIN q.stat
    <3>1. Under(n) = {}
      BY <1>2, <1>4, <1>5, <2>2 DEF Counting, Tally
    <3> QED BY <1>4, <1>5, <2>2, <3>1, FS_EmptySet
  <2> QED BY <2>1, <2>2
<1>6. CASE Set(w, Fresh(IF q.auto THEN "path" ELSE "done", q.auto, q.todo)) /\ UNCHANGED node
  <2>1. PICK pc : pc \in {"path", "done"} /\ Set(w, Fresh(pc, q.auto, q.todo))
    BY <1>6
  <2>2. PICK r : r = Fresh(pc, q.auto, q.todo)
    OBVIOUS
  <2>3. HeldIds(r) \subseteq {0}
    BY <2>2 DEF Fresh, HeldIds, Range
  <2>4. Counting(q) /\ r.pc \in ActivePCs => Counting(r)
    BY <2>1, <2>2, CountFresh DEF Counting, Ahead
  <2>5. req' = [req EXCEPT ![w] = r]
    BY <2>1, <2>2 DEF Set
  <2> QED BY <1>1, <1>2, <1>6, <2>3, <2>4, <2>5, CountMovedOn
<1>7. ASSUME NEW n \in DOMAIN left,
             node' = [node EXCEPT ![n] =
                       IF @ = None THEN @
                       ELSE [@ EXCEPT !.status = Scanned, !.count = left[n]]],
             Set(w, [req[w] EXCEPT
                        !.own = [b \in Buckets |-> 0],
                        !.stat = [m \in DOMAIN left \ {n} |-> left[m]]])
      PROVE  CountInv'
  <2>1. PICK own, stat : /\ own = [b \in Buckets |-> 0]
                         /\ stat = [m \in DOMAIN left \ {n} |-> left[m]]
    OBVIOUS
  <2>2. PICK r : r = [q EXCEPT !.own = own, !.stat = stat]
    OBVIOUS
  <2>3. /\ r.pc = "final" /\ r.own = own /\ r.stat = stat /\ r.chain = q.chain
        /\ r.todo = q.todo /\ Range(own) \subseteq {0}
    BY <1>2, <2>1, <2>2 DEF Progress, Range
  <2>4. req' = [req EXCEPT ![w] = r]
    BY <1>1, <1>7, <2>1, <2>2 DEF Set
  <2>5. HeldIds(r) \subseteq HeldIds(q) \cup {0}
    BY <1>4, <2>1, <2>3 DEF HeldIds
  <2>6. ASSUME NEW m \in NodeIds
        PROVE  /\ node'[m] = None <=> node[m] = None
               /\ node[m] # None =>
                     /\ SameShape(m) /\ node'[m].pathed = node[m].pathed
                     /\ m = n => node'[m].count = left[n]
                     /\ m # n => node'[m] = node[m]
    <3>1. node[m] \in MetaNode \cup {None}
      BY DEF ScanInv, Types, RowsTyped
    <3>2. CASE m = n /\ node[n] # None
      <4>1. PICK row : row = [node[n] EXCEPT !.status = Scanned, !.count = left[n]]
        OBVIOUS
      <4>2. node'[n] = row /\ node[n] \in MetaNode
        BY <1>7, <3>1, <3>2, <4>1 DEF ScanInv, Types, RowsTyped
      <4>3. left[n] \in Nat
        <5>1. \A k \in DOMAIN q.stat : q.stat[k] \in Nat
          BY <1>2 DEF Progress
        <5> QED BY <1>4, <5>1
      <4>4. row \in MetaNode
        BY <4>1, <4>2, <4>3 DEF MetaNode
      <4>5. node'[n] # None
        BY <4>2, <4>4, ConstantsAssumption DEF ConstantsAssumption
      <4>6. /\ row.parent = node[n].parent /\ row.name = node[n].name
            /\ row.pathed = node[n].pathed /\ row.count = left[n]
        BY <4>1, <4>2 DEF MetaNode
      <4> QED BY <3>2, <4>2, <4>5, <4>6 DEF SameShape
    <3>3. CASE ~(m = n /\ node[n] # None)
      <4>1. node'[m] = node[m]
        BY <1>7, <3>3 DEF ScanInv, Types, RowsTyped
      <4> QED BY <3>3, <4>1 DEF SameShape
    <3> QED BY <3>2, <3>3
  <2>7. Rows' = Rows
    BY <2>6 DEF Rows
  <2>8. IdPath' = IdPath
    BY <2>6, <2>7, IdPathSame DEF ScanInv, Rows
  <2>9. \A m : Under(m)' = Under(m)
    BY <1>2, <2>8 DEF Under
  <2>10. ASSUME Counting(q), CountsRight PROVE CountsRight'
    <3> SUFFICES ASSUME NEW m \in Rows, node'[m].status = Scanned
                 PROVE  node'[m].count = Cardinality(Under(m))
      BY <2>7, <2>9 DEF CountsRight
    <3>1. CASE m = n
      BY <1>5, <1>7, <2>6, <2>10, <3>1 DEF Rows
    <3>2. CASE m # n
      BY <2>6, <2>10, <3>2 DEF CountsRight, Rows
    <3> QED BY <3>1, <3>2
  <2>11. ASSUME Counting(q) PROVE Counting(r)'
    <3>1. Tally(r)'
      <4>1. ASSUME NEW m \in Rows, m \in DOMAIN r.stat PROVE r.stat[m] = Cardinality(Under(m))
        BY <1>5, <2>1, <2>3, <2>11, <4>1
      <4>2. \A m \in Rows : m \notin Range(r.own)
        BY <2>3, ConstantsAssumption DEF Rows, ConstantsAssumption
      <4> QED BY <2>3, <2>7, <2>9, <4>1, <4>2 DEF Tally
    <3>2. Ahead(r)'
      BY <2>3, <2>11 DEF Counting, Ahead
    <3>3. Chained(r)' /\ Clearing(r)' /\ Queued(r)'
      BY <2>3 DEF Chained, Clearing, Queued
    <3> QED BY <2>3, <3>1, <3>2, <3>3 DEF Counting
  <2>12. \A m \in Rows' : /\ m \in Rows /\ SameShape(m) /\ (node[m].pathed => node'[m].pathed)
                          /\ ~node'[m].pathed => node'[m].status = node[m].status
    <3>1. n \in Rows => node[n].pathed
      BY <1>1, <1>4, <1>7 DEF CountInv, HeldWritten
    <3> QED BY <2>6, <2>7, <3>1 DEF Rows
  <2>13. \A m \in Rows' : m \in HeldIds(r) => m \in HeldIds(q)
    BY <2>5, <2>7, ConstantsAssumption DEF Rows, ConstantsAssumption
  <2>14. ~overlap => CountsRight' /\ Counting(r)'
    BY <1>1, <1>2, <2>10, <2>11 DEF CountInv
  <2>15. IsFiniteSet(items')
    BY <1>2 DEF CountInv
  <2> QED BY <1>1, <1>2, <2>4, <2>12, <2>13, <2>14, <2>15, CountMoved
<1> QED BY <1>1, <1>3, <1>6, <1>7 DEF Finalize

LEMMA CountStep ==
  ASSUME ScanInv, ScanInv', OneByOne, CountInv, NEW w \in Requests, Step(w)
  PROVE  CountInv'
<1>1. CASE NextPath(w) \/ ScanPath(w) \/ UpsertRead(w) \/ UpsertCreate(w) \/ UpsertUpdate(w)
  BY <1>1, CountNextPath, CountScanPath, CountUpsertRead, CountUpsertCreate, CountUpsertUpdate
<1>2. CASE ResetBucket(w) \/ DeleteDescendants(w) \/ DeleteBucketItems(w) \/ NextMeta(w)
  BY <1>2, CountResetBucket, CountDeleteDescendants, CountDeleteBucketItems, CountNextMeta
<1>3. CASE ItemRead(w) \/ InsertItem(w) \/ UpdateItem(w) \/ Finalize(w)
  BY <1>3, CountItemRead, CountInsertItem, CountUpdateItem, CountFinalize
<1> QED BY <1>1, <1>2, <1>3 DEF Step

LEMMA CountInit == Init => CountInv
<1> SUFFICES ASSUME Init PROVE CountInv
  OBVIOUS
<1>1. PICK f : f = Fresh("idle", FALSE, {})
  OBVIOUS
<1>2. f.pc = "idle" /\ HeldIds(f) \subseteq {0}
  BY <1>1 DEF Fresh, HeldIds, Range
<1>3. /\ node = [n \in NodeIds |-> None] /\ items = {} /\ req = [w \in Requests |-> f]
  BY <1>1 DEF Init
<1>4. Rows = {} /\ \A w \in Requests : ~Active(w)
  BY <1>2, <1>3 DEF Rows, Active
<1> QED BY <1>3, <1>4, FS_EmptySet DEF CountInv, Written, HeldWritten, CountsRight

\* The statistics of every scan that no other one overlaps are those of the rows
\* that it has written since it cleared the bucket, and nothing that it has still
\* to write is there already.
THEOREM CountInvariant == ASSUME SelectedOnce PROVE ExplorerSpec => []CountInv
<1>1. ScanInv /\ ScanInv' /\ OneByOne /\ CountInv /\ [ExplorerNext]_vars => CountInv'
  <2> SUFFICES ASSUME ScanInv, ScanInv', OneByOne, CountInv, [ExplorerNext]_vars
               PROVE  CountInv'
    OBVIOUS
  <2>1. ASSUME NEW w \in Requests, BeginAuto(w) \/ BeginManual(w) \/ Step(w) PROVE CountInv'
    BY <2>1, CountBegin, CountStep
  <2>2. ASSUME NEW w \in Requests, ScanPathLossy(w) PROVE CountInv'
    BY <2>2, CountScanPath
  <2>3. ASSUME NEW w \in Requests, StatementFails(w) PROVE CountInv'
    <3>1. /\ req[w].pc \in ActivePCs \ {"path", "list", "meta"} /\ Set(w, GiveUp(w))
          /\ UNCHANGED <<overlap, node, items>>
      BY <2>3 DEF StatementFails, dbVars
    <3> QED BY <3>1, CountGivenUp
  <2>4. CASE Crash
    <3>1. /\ req' = [w \in Requests |-> IF Active(w) THEN Fresh("dead", FALSE, {}) ELSE req[w]]
          /\ UNCHANGED <<node, items, overlap>>
      BY <2>4 DEF Crash, dbVars
    <3>2. PICK f : f = Fresh("dead", FALSE, {})
      OBVIOUS
    <3>3. \A v \in Requests : req'[v] = req[v] \/ req'[v] = f
      BY <3>1, <3>2
    <3> QED BY <3>1, <3>2, <3>3, CountElsewhere
  <2>5. CASE UNCHANGED <<node, items, overlap, req>>
    BY <2>5, CountElsewhere
  <2>6. ASSUME NEW b \in Buckets, StoreChange(b) PROVE UNCHANGED <<node, items, overlap, req>>
    BY <2>6 DEF StoreChange, dbVars
  <2>7. CASE Explore
    <3>1. UNCHANGED <<node, items, overlap, req>>
      BY <2>7 DEF Explore, ReadTops, ReadNodes, ReadItems, dbVars
    <3> QED BY <2>5, <3>1
  <2>8. CASE UNCHANGED vars
    BY <2>5, <2>8 DEF vars, scanVars
  <2> QED BY <2>1, <2>2, <2>3, <2>4, <2>5, <2>6, <2>7, <2>8 DEF ExplorerNext, ScanNext
<1> QED BY <1>1, CountInit, ScanInvariant, OneRowPerBucket, PTL DEF ExplorerSpec

\* As long as scans do not overlap, every row that readers see as scanned shows
\* the number of objects that hang below it, whatever failed, died or was lost on
\* the way, provided that no selection gives one object twice (nodeAggregate).
THEOREM CountsAreExact == ASSUME SelectedOnce PROVE ExplorerSpec => []CountsExact
<1>1. CountInv => CountsExact
  BY DEF CountInv, CountsRight, CountsExact, Under
<1> QED BY <1>1, CountInvariant, PTL
-----------------------------------------------------------------------------
(* Scans that neither overlap nor fail *)

\* At most one path of a selection is in a bucket, and one that is an object is
\* not also a directory.
SimpleSelections ==
    /\ \A sel \in Selections : \A p, q \in sel : p[1] = q[1] => p = q
    /\ \A p \in UNION Selections : p[2] \in Keys =>
          Last(p[2]) # Marker /\ \A k \in Keys : IsPrefix(p[2], k) => k = p[2]

\* The rows that a request with progress r has to finalize still.
Left(r) ==
    IF r.pc \notin ActivePCs THEN {}
    ELSE DOMAIN r.stat \cup (Range(r.own) \ {0}) \cup (IF r.pc = "update" THEN {r.id} ELSE {})

\* The rows that a request needs are there, and none that it is to insert.
Standing(r) ==
    /\ r.pc \in PathPCs \ {"list"} /\ r.chain # <<>> => node[Last(r.chain)] # None
    /\ r.pc \in ClearPCs => Len(r.chain) = 1
    /\ r.pc \in UpsertPCs /\ r.chain = <<>> => r.obj = None
    /\ r.pc = "update" => node[r.id] # None
    /\ r.pc = "create" /\ r.chain # <<>> => Children(Last(r.chain), Head(r.segs)) = {}
    /\ r.pc = "path" /\ r.auto => Left(r) = {}

Final(r) == \A n \in Rows : node[n].status = Scanned \/ n \in Left(r)

\* The keys below path p in a listing, those of the items of bucket b, and those
\* of objects.
Wanted(p, keys) == {k \in keys : IsPrefix(p[2], k) /\ ~HasReserved(k) /\ Last(k) # Marker}
Keyed(b) == {i.key : i \in {j \in items : j.bucket = b}}
KeysOf(objs) == {o.key : o \in objs}

\* A bucket holds what a path had when it was listed.
Stored(b) == \E p \in Paths : Keyed(b) = Wanted(p, listed[b])

\* A request writes what it has found at bucket b.
Busy(r, b) == r.pc \in PathPCs \ {"list"} /\ r.at[1] = b

\* What a request has written since it cleared the bucket, and what it has still
\* to write, is what it has found; and it turns to each bucket once.
Loaded(r) ==
    /\ r.pc \in PathPCs \ {"list"} =>
          Wanted(r.at, listed[r.at[1]]) =
              KeysOf(Waiting(r)) \cup
                  (IF r.chain # <<>> /\ r.pc \notin ClearPCs THEN Keyed(r.at[1]) ELSE {})
    /\ \A p \in r.todo \cup (IF r.pc = "list" THEN {r.at} ELSE {}) : r.own[p[1]] = 0
    /\ \A p, q \in r.todo : p[1] = q[1] => p = q
    /\ r.pc \in PathPCs => \A p \in r.todo : p[1] # r.at[1]

Others(r) == \A b \in Buckets : Busy(r, b) \/ Children(0, b) = {} \/ Stored(b)

Working(r) == Standing(r) /\ Final(r) /\ (SimpleSelections => Loaded(r) /\ Others(r))

\* What is there when nobody works.
Settled ==
    /\ \A n \in Rows : node[n].status = Scanned
    /\ SimpleSelections => \A b \in Buckets : Children(0, b) = {} \/ Stored(b)

WorkInv ==
    /\ faults \in Nat /\ listed \in [Buckets -> SUBSET Keys]
    /\ ~overlap /\ faults = 0 =>
          /\ \A w \in Requests : Active(w) => Working(req[w])
          /\ (\A w \in Requests : ~Active(w)) => Settled

LEMMA WorkingAt ==
  ASSUME NEW v \in Requests, NEW s, Working(s)', req'[v] = s
  PROVE  Working(req[v])'
  BY DEF Working, Standing, Final, Loaded, Others, Left, Busy, InWork, Waiting

\* A step of the active request.
LEMMA WorkMoved ==
  ASSUME ScanInv, OneByOne, WorkInv, NEW w \in Requests, Active(w),
         UNCHANGED <<overlap, faults>>, NEW r, req' = [req EXCEPT ![w] = r],
         UNCHANGED listed \/ listed' \in [Buckets -> SUBSET Keys],
         ~overlap /\ Working(req[w]) => IF r.pc \in ActivePCs THEN Working(r)' ELSE Settled'
  PROVE  WorkInv'
<1> SUFFICES ASSUME ~overlap, faults = 0
             PROVE  /\ \A v \in Requests : Active(v)' => Working(req[v])'
                    /\ (\A v \in Requests : ~Active(v)') => Settled'
  BY DEF WorkInv
<1>1. Working(req[w])
  BY DEF WorkInv
<1>2. req'[w] = r /\ \A v \in Requests \ {w} : req'[v] = req[v] /\ ~Active(v)
  BY DEF ScanInv, Types, OneByOne
<1>3. Active(w)' <=> r.pc \in ActivePCs
  BY <1>2 DEF Active
<1>4. ASSUME NEW v \in Requests, Active(v)' PROVE Working(req[v])'
  <2>1. v = w
    BY <1>2, <1>4 DEF Active
  <2>2. Working(r)'
    BY <1>1, <1>3, <1>4, <2>1
  <2> QED BY <1>2, <2>1, <2>2, WorkingAt
<1>5. ASSUME \A v \in Requests : ~Active(v)' PROVE Settled'
  BY <1>1, <1>3, <1>5
<1> QED BY <1>4, <1>5

\* Where no row, item or listing changes, what requests have done does not.
LEMMA WorkingSame ==
  ASSUME UNCHANGED <<node, items, listed>>, NEW r, Working(r) PROVE Working(r)'
<1>1. \A b : Children(0, b)' = Children(0, b) /\ Stored(b)' = Stored(b) /\ Rows' = Rows
  BY DEF Children, Stored, Keyed, Rows
<1>2. Standing(r)'
  BY DEF Working, Standing, Children, Left, Rows
<1>3. Final(r)'
  BY <1>1 DEF Working, Final, Left
<1>4. SimpleSelections => Loaded(r)'
  BY DEF Working, Loaded, Waiting, InWork, Keyed
<1>5. SimpleSelections => Others(r)'
  BY <1>1 DEF Working, Others, Busy
<1> QED BY <1>2, <1>3, <1>4, <1>5 DEF Working

LEMMA SettledSame ==
  ASSUME UNCHANGED <<node, items, listed>>, Settled PROVE Settled'
<1>1. \A b : Children(0, b)' = Children(0, b) /\ Stored(b)' = Stored(b) /\ Rows' = Rows
  BY DEF Children, Stored, Keyed, Rows
<1> QED BY <1>1 DEF Settled

\* A step of the active request that changes no row, item or listing.
LEMMA WorkMovedOn ==
  ASSUME ScanInv, OneByOne, WorkInv, NEW w \in Requests, Active(w),
         UNCHANGED <<overlap, faults, node, items, listed>>, NEW r, req' = [req EXCEPT ![w] = r],
         ~overlap /\ Working(req[w]) => IF r.pc \in ActivePCs THEN Working(r) ELSE Settled
  PROVE  WorkInv'
<1>1. ~overlap /\ Working(req[w]) => IF r.pc \in ActivePCs THEN Working(r)' ELSE Settled'
  BY WorkingSame, SettledSame
<1> QED BY <1>1, WorkMoved

\* Steps that leave the tables alone and begin nothing, or fail.
LEMMA WorkElsewhere ==
  ASSUME WorkInv, UNCHANGED <<node, items, listed, req, overlap>>,
         faults' = faults
  PROVE  WorkInv'
<1>1. \A w \in Requests : Active(w)' = Active(w)
  BY DEF Active
<1>2. ASSUME NEW w \in Requests, Working(req[w]) PROVE Working(req[w])'
  <2>1. PICK r : r = req[w]
    OBVIOUS
  <2>2. Working(r) /\ req'[w] = r
    BY <1>2, <2>1
  <2> QED BY <2>2, WorkingSame, WorkingAt
<1> QED BY <1>1, <1>2, SettledSame DEF WorkInv

LEMMA WorkFails ==
  ASSUME WorkInv, faults' = faults + 1, UNCHANGED listed PROVE WorkInv'
  BY DEF WorkInv

\* A request that begins, or has no path in work and nothing in hand.
LEMMA WorkFresh ==
  ASSUME NEW auto, NEW todo \in SUBSET Paths, NEW pc \in {"path", "failed", "done", "dead"}, Settled,
         SimpleSelections => \A p, q \in todo : p[1] = q[1] => p = q,
         NEW r, r = Fresh(pc, auto, todo)
  PROVE  Working(r)
<1>1. /\ r.pc = pc /\ r.todo = todo /\ r.chain = <<>> /\ DOMAIN r.stat = {}
      /\ Range(r.own) \subseteq {0} /\ r.own \in [Buckets -> {0}]
  BY DEF Fresh, Range
<1>2. /\ r.pc \notin PathPCs /\ r.pc \notin ClearPCs /\ r.pc # "list" /\ r.pc # "update"
      /\ r.pc # "create" /\ r.pc \notin UpsertPCs
  BY <1>1 DEF ClearPCs
<1>3. Left(r) = {}
  BY <1>1, <1>2 DEF Left
<1>4. Standing(r)
  BY <1>2, <1>3 DEF Standing
<1>5. Final(r)
  BY DEF Settled, Final
<1>6. SimpleSelections => Loaded(r)
  BY <1>1, <1>2, PathsOf DEF Loaded
<1>7. SimpleSelections => Others(r)
  BY DEF Settled, Others
<1> QED BY <1>4, <1>5, <1>6, <1>7 DEF Working

LEMMA WorkBegin ==
  ASSUME ScanInv, WorkInv, NEW w \in Requests, BeginAuto(w) \/ BeginManual(w)
  PROVE  WorkInv'
<1>1. PICK auto, todo : /\ Begin(w, auto, todo) /\ todo \in SUBSET Paths
                        /\ SimpleSelections => \A p, q \in todo : p[1] = q[1] => p = q
  <2>1. \A p, q \in WholeBuckets : p[1] = q[1] => p = q
    BY DEF WholeBuckets
  <2> QED BY <2>1, PathsOf DEF BeginAuto, BeginManual, SimpleSelections
<1>2. PICK r : r = Fresh("path", auto, todo)
  OBVIOUS
<1>3. r.pc = "path"
  BY <1>2 DEF Fresh
<1>4. /\ req' = [req EXCEPT ![w] = r] /\ UNCHANGED <<node, items, listed, faults>>
      /\ overlap' = (overlap \/ \E v \in Requests : Active(v))
  BY <1>1, <1>2 DEF Begin, Set, dbVars, envVars
<1>5. req'[w] = r /\ \A v \in Requests \ {w} : req'[v] = req[v]
  BY <1>4 DEF ScanInv, Types
<1> SUFFICES ASSUME ~overlap', faults = 0
             PROVE  /\ \A v \in Requests : Active(v)' => Working(req[v])'
                    /\ ~(\A v \in Requests : ~Active(v)')
  BY <1>4 DEF WorkInv
<1>6. Settled /\ \A v \in Requests : ~Active(v)
  BY <1>4 DEF WorkInv
<1>7. Active(w)'
  BY <1>3, <1>5 DEF Active
<1>8. ASSUME NEW v \in Requests, Active(v)' PROVE Working(req[v])'
  <2>1. v = w
    BY <1>5, <1>6, <1>8 DEF Active
  <2>2. Working(r)
    BY <1>1, <1>2, <1>6, WorkFresh
  <2> QED BY <1>4, <1>5, <2>1, <2>2, WorkingSame, WorkingAt
<1> QED BY <1>7, <1>8

\* What a path yields are the objects below it that have no reserved segment and
\* are no markers.
LEMMA AnswerKeys ==
  ASSUME SimpleSelections, NEW path \in Paths, NEW content \in SUBSET Keys,
         NEW metas \in Answers(path, content, FALSE), metas # NoMetas
  PROVE  KeysOf(metas.objs) = Wanted(path, content)
<1>1. PICK p : p = path[2]
  OBVIOUS
<1>2. p \in Seq(Names) /\ ~HasReserved(p)
  BY <1>1, PathsOf DEF Answers
<1>3. \A k \in content : k \in Keys /\ k \in Seq(Names) /\ k # <<>>
  BY ConstantsAssumption DEF ConstantsAssumption
<1>4. CASE p \in content
  <2>1. metas = [dirs |-> {}, objs |-> {[rel |-> p, key |-> p]}]
    BY <1>1, <1>2, <1>4 DEF Answers
  <2>2. KeysOf(metas.objs) = {p}
    BY <2>1 DEF KeysOf
  <2>3. path \in UNION Selections
    BY <1>1, <1>3, <1>4 DEF Paths, WholeBuckets
  <2>4. Last(p) # Marker /\ \A k \in Keys : IsPrefix(p, k) => k = p
    BY <1>1, <1>3, <1>4, <2>3 DEF SimpleSelections
  <2>5. IsPrefix(p, p)
    <3>1. Len(p) \in Nat
      BY <1>2
    <3> QED BY <3>1 DEF IsPrefix
  <2> QED BY <1>1, <1>2, <1>3, <1>4, <2>2, <2>4, <2>5 DEF Wanted
<1>5. CASE p \notin content
  <2>1. metas = ScanBucket(p, content)
    BY <1>1, <1>2, <1>5 DEF Answers
  <2>2. PICK names : names = {r \in Relative(p, content) : ~HasReserved(r) /\ Last(r) # Marker}
    OBVIOUS
  <2>3. metas.objs = {[rel |-> r, key |-> p \o r] : r \in names}
    BY <2>1, <2>2 DEF ScanBucket
  <2>4. KeysOf(metas.objs) = {p \o r : r \in names}
    <3>1. \A r \in names : [rel |-> r, key |-> p \o r].key = p \o r
      OBVIOUS
    <3> QED BY <2>3, <3>1 DEF KeysOf
  <2>5. ASSUME NEW k \in Below(p, content), NEW r, r = SubSeq(k, Len(p) + 1, Len(k))
        PROVE  /\ k \in content /\ p \o r = k /\ r \in Seq(Names) /\ r # <<>>
               /\ (HasReserved(k) <=> HasReserved(r)) /\ Last(k) = Last(r)
    <3>1. k \in content /\ IsStrictPrefix(p, k)
      BY <2>5 DEF Below
    <3>2. p \o r = k
      BY <1>2, <1>3, <2>5, <3>1, PrefixThenRest
    <3>3. IsName(Names, p, k, r)
      BY <1>2, <1>3, <2>5, NameBelow
    <3>4. r \in Seq(Names) /\ r # <<>>
      BY <3>3 DEF IsName
    <3>5. HasReserved(k) <=> HasReserved(r)
      BY <1>2, <3>3, ReservedBelow
    <3>6. Last(p \o r) = Last(r)
      BY <1>2, <3>4, SuffixOf
    <3> QED BY <3>1, <3>2, <3>4, <3>5, <3>6
  <2>6. ASSUME NEW r \in names PROVE p \o r \in Wanted(path, content)
    <3>1. PICK k \in Below(p, content) : r = SubSeq(k, Len(p) + 1, Len(k))
      BY <2>2, <2>6, RelativeIff
    <3>2. /\ k \in content /\ p \o r = k /\ ~HasReserved(k) /\ Last(k) # Marker
      BY <2>2, <2>5, <3>1
    <3>3. IsPrefix(p, k)
      BY <3>1 DEF Below, IsStrictPrefix
    <3> QED BY <1>1, <3>2, <3>3 DEF Wanted
  <2>7. ASSUME NEW k \in Wanted(path, content) PROVE \E r \in names : k = p \o r
    <3>1. k \in content /\ IsPrefix(p, k) /\ k # p /\ ~HasReserved(k) /\ Last(k) # Marker
      BY <1>1, <1>5, <2>7 DEF Wanted
    <3>2. k \in Below(p, content)
      BY <3>1 DEF Below, IsStrictPrefix
    <3>3. PICK r : r = SubSeq(k, Len(p) + 1, Len(k))
      OBVIOUS
    <3>4. p \o r = k /\ ~HasReserved(r) /\ Last(r) # Marker
      BY <2>5, <3>1, <3>2, <3>3
    <3>5. r # <<Marker>>
      <4>1. Last(<<Marker>>) = Marker
        BY DEF Last
      <4> QED BY <3>4, <4>1
    <3> QED BY <2>2, <3>2, <3>3, <3>4, <3>5, RelativeIff
  <2> QED BY <2>4, <2>6, <2>7
<1> QED BY <1>4, <1>5

LEMMA WorkNextPath ==
  ASSUME ScanInv, OneByOne, WorkInv, NEW w \in Requests, NextPath(w)
  PROVE  WorkInv'
<1>1. PICK q : q = req[w]
  OBVIOUS
<1>2. q \in Progress /\ q.pc = "path" /\ Active(w)
      /\ UNCHANGED <<overlap, faults, node, items, listed>>
  BY <1>1, Before DEF NextPath, Active, dbVars, envVars
<1>3. ASSUME Working(q) PROVE \A b \in Buckets : SimpleSelections => Children(0, b) = {} \/ Stored(b)
  BY <1>2, <1>3 DEF Working, Others, Busy
<1>4. CASE q.todo = {} /\ Goto(w, IF q.auto THEN "done" ELSE "final")
  <2>1. PICK r : r = [q EXCEPT !.pc = IF q.auto THEN "done" ELSE "final"]
    OBVIOUS
  <2>2. /\ r.pc = (IF q.auto THEN "done" ELSE "final") /\ r.own = q.own /\ r.stat = q.stat
        /\ r.todo = q.todo
    BY <1>2, <2>1 DEF Progress
  <2>3. req' = [req EXCEPT ![w] = r]
    BY <1>1, <1>4, <2>1 DEF Goto, Set
  <2>4. ASSUME Working(q), r.pc = "final" PROVE Working(r)
    <3>1. Standing(r)
      BY <2>4 DEF Standing, ClearPCs
    <3>2. Left(r) = Left(q)
      BY <1>2, <2>2, <2>4 DEF Left
    <3>3. Final(r)
      BY <2>4, <3>2 DEF Working, Final
    <3>4. SimpleSelections => Loaded(r)
      BY <1>4, <2>2, <2>4 DEF Loaded
    <3>5. SimpleSelections => Others(r)
      BY <1>3, <2>4 DEF Others
    <3> QED BY <3>1, <3>3, <3>4, <3>5 DEF Working
  <2>5. ASSUME Working(q), r.pc = "done" PROVE Settled
    <3>1. Left(q) = {}
      BY <1>2, <2>2, <2>5 DEF Working, Standing
    <3> QED BY <1>3, <2>5, <3>1 DEF Working, Final, Settled
  <2>6. r.pc \in {"final", "done"}
    BY <2>2
  <2> QED BY <1>1, <1>2, <2>3, <2>4, <2>5, <2>6, WorkMovedOn
<1>5. ASSUME NEW p \in q.todo, NEW pc \in {"path", "list"},
             Set(w, [q EXCEPT !.todo = @ \ {p}, !.at = p, !.chain = <<>>, !.pc = pc])
      PROVE  WorkInv'
  <2>1. PICK r : r = [q EXCEPT !.todo = @ \ {p}, !.at = p, !.chain = <<>>, !.pc = pc]
    OBVIOUS
  <2>2. /\ r.pc = pc /\ r.chain = <<>> /\ r.own = q.own /\ r.stat = q.stat
        /\ r.todo = q.todo \ {p} /\ r.at = p /\ r.auto = q.auto
    BY <1>2, <2>1 DEF Progress
  <2>3. req' = [req EXCEPT ![w] = r]
    BY <1>5, <2>1 DEF Set
  <2>4. ASSUME Working(q) PROVE Working(r)
    <3>1. r.pc \notin PathPCs \ {"list"} /\ r.pc \notin ClearPCs /\ r.pc \notin UpsertPCs
          /\ r.pc # "update" /\ r.pc # "create" /\ r.pc \in ActivePCs
      BY <2>2 DEF ClearPCs
    <3>2. Left(r) = Left(q)
      BY <1>2, <2>2, <3>1 DEF Left
    <3>3. Standing(r)
      BY <1>2, <2>2, <2>4, <3>1, <3>2 DEF Working, Standing
    <3>4. Final(r)
      BY <2>4, <3>2 DEF Working, Final
    <3>5. SimpleSelections => Loaded(r)
      BY <1>2, <2>2, <2>4, <3>1 DEF Working, Loaded
    <3>6. SimpleSelections => Others(r)
      BY <1>3, <2>4 DEF Others
    <3> QED BY <3>3, <3>4, <3>5, <3>6 DEF Working
  <2>5. r.pc \in ActivePCs
    BY <2>2
  <2> QED BY <1>1, <1>2, <2>3, <2>4, <2>5, WorkMovedOn
<1>6. \/ q.todo = {} /\ Goto(w, IF q.auto THEN "done" ELSE "final")
      \/ \E p \in q.todo : \E pc \in {"path", "list"} :
            Set(w, [q EXCEPT !.todo = @ \ {p}, !.at = p, !.chain = <<>>, !.pc = pc])
  BY <1>1 DEF NextPath
<1> QED BY <1>4, <1>5, <1>6

LEMMA WorkScanPath ==
  ASSUME ScanInv, OneByOne, WorkInv, NEW w \in Requests, ScanPath(w)
  PROVE  WorkInv'
<1>1. PICK q, b : q = req[w] /\ b = q.at[1]
  OBVIOUS
<1>2. q \in Progress /\ Informed(q) /\ q.pc = "list" /\ Active(w) /\ q.at \in Paths /\ b \in Buckets
      /\ UNCHANGED <<overlap, faults, node, items>> /\ store[b] \in SUBSET Keys
  BY <1>1, Before, PathsOf DEF ScanPath, Active, Informed, dbVars, ScanInv, Types
<1>3. PICK metas \in Answers(q.at, store[b], FALSE) :
         /\ Answered(w, metas)
         /\ listed' = IF metas = NoMetas THEN listed ELSE [listed EXCEPT ![b] = store[b]]
  BY <1>1 DEF ScanPath
<1>4. PICK owned : owned = q.own[b]
  OBVIOUS
<1>5. PICK pc : pc = IF metas = NoMetas THEN PathDone(w) ELSE IF owned = 0 THEN "upsert" ELSE "meta"
  OBVIOUS
<1>6. /\ pc \in {"path", "final", "upsert", "meta"} /\ (pc = "path" => ~q.auto)
      /\ pc \in {"upsert", "meta"} <=> metas # NoMetas
      /\ pc = "upsert" => owned = 0
      /\ pc = "meta" => owned # 0
  BY <1>1, <1>5 DEF PathDone
<1>7. PICK r : r = [q EXCEPT !.dirs = metas.dirs, !.objs = metas.objs,
                             !.segs = IF owned = 0 THEN <<q.at[1]>> ELSE <<>>,
                             !.chain = IF owned = 0 THEN <<>> ELSE <<owned>>,
                             !.obj = None, !.pc = pc]
  OBVIOUS
<1>8. /\ r.pc = pc /\ r.own = q.own /\ r.stat = q.stat /\ r.todo = q.todo /\ r.at = q.at
      /\ r.objs = metas.objs /\ r.obj = None /\ r.auto = q.auto
      /\ r.chain = IF owned = 0 THEN <<>> ELSE <<owned>>
  BY <1>2, <1>7 DEF Progress
<1>9. req' = [req EXCEPT ![w] = r]
  BY <1>1, <1>4, <1>5, <1>7, <1>3 DEF Answered, Set
<1>10. r.pc \in ActivePCs /\ r.pc \notin ClearPCs /\ r.pc # "update" /\ r.pc # "create" /\ r.pc # "list"
  BY <1>6, <1>8 DEF ClearPCs
<1>11. Left(r) = Left(q)
  BY <1>2, <1>8, <1>10 DEF Left
<1>12. ASSUME Working(q), ~overlap PROVE Working(r)'
  <2>1. \A c : Children(0, c)' = Children(0, c) /\ Rows' = Rows /\ Keyed(c)' = Keyed(c)
    BY <1>2 DEF Children, Keyed, Rows
  <2>2. Standing(r)'
    <3>1. ASSUME r.chain # <<>> PROVE node[Last(r.chain)] # None
      <4>1. owned # 0 /\ r.chain = <<owned>>
        BY <1>8, <3>1
      <4>2. Last(r.chain) = owned
        BY <4>1 DEF Last
      <4> QED BY <1>2, <1>4, <4>1, <4>2 DEF Informed, TopOf, Rows
    <3> QED BY <1>2, <1>6, <1>8, <1>10, <3>1 DEF Standing
  <2>3. Final(r)'
    BY <1>2, <1>11, <1>12, <2>1 DEF Working, Final, Left
  <2>4. ASSUME SimpleSelections PROVE Loaded(r)' /\ Others(r)'
    <3>1. owned = 0
      BY <1>1, <1>2, <1>4, <1>12, <2>4 DEF Working, Loaded
    <3>2. ASSUME metas # NoMetas
          PROVE  /\ r.pc = "upsert" /\ r.chain = <<>> /\ Waiting(r)' = r.objs
                 /\ KeysOf(r.objs) = Wanted(q.at, store[b])
      BY <1>2, <1>6, <1>8, <2>4, <3>1, <3>2, AnswerKeys DEF InWork, Waiting
    <3>3. /\ metas = NoMetas => listed' = listed
          /\ \A c \in Buckets : c # b => listed'[c] = listed[c]
          /\ metas # NoMetas => listed'[b] = store[b]
      BY <1>2, <1>3 DEF WorkInv
    <3>4. Loaded(r)'
      <4>1. r.pc \in PathPCs \ {"list"} => metas # NoMetas
        BY <1>6, <1>8
      <4>2. r.pc \in PathPCs \ {"list"} => Wanted(r.at, listed'[r.at[1]]) = KeysOf(Waiting(r)')
        BY <1>1, <1>2, <1>8, <3>2, <3>3, <4>1
      <4>3. r.pc \in PathPCs => \A p \in r.todo : p[1] # r.at[1]
        BY <1>2, <1>8, <1>12, <2>4 DEF Working, Loaded
      <4>4. \A p \in r.todo : r.own[p[1]] = 0
        BY <1>8, <1>12, <2>4 DEF Working, Loaded
      <4>5. \A p, s \in r.todo : p[1] = s[1] => p = s
        BY <1>8, <1>12, <2>4 DEF Working, Loaded
      <4> QED BY <1>10, <3>2, <4>1, <4>2, <4>3, <4>4, <4>5 DEF Loaded, Wanted, KeysOf, Keyed
    <3>5. ASSUME NEW c \in Buckets PROVE Busy(r, c)' \/ Children(0, c)' = {} \/ Stored(c)'
      <4>1. CASE c = b /\ metas # NoMetas
        BY <1>1, <1>8, <3>2, <4>1 DEF Busy
      <4>2. CASE c # b \/ metas = NoMetas
        <5>1. Children(0, c) = {} \/ Stored(c)
          BY <1>2, <1>12, <2>4 DEF Working, Others, Busy
        <5>2. listed'[c] = listed[c]
          BY <3>3, <3>5, <4>2
        <5>3. Stored(c) => Stored(c)'
          BY <2>1, <5>2 DEF Stored, Wanted
        <5> QED BY <2>1, <5>1, <5>3
      <4> QED BY <4>1, <4>2
    <3> QED BY <3>4, <3>5 DEF Others
  <2> QED BY <2>2, <2>3, <2>4 DEF Working
<1>13. UNCHANGED listed \/ listed' \in [Buckets -> SUBSET Keys]
  BY <1>2, <1>3 DEF WorkInv
<1> QED BY <1>1, <1>2, <1>9, <1>10, <1>12, <1>13, WorkMoved

\* Where nothing is written, a request that has the same to write goes on.
LEMMA WorkingOn ==
  ASSUME NEW q, NEW r, Working(q), q.pc \in PathPCs \ ({"list", "update"} \cup ClearPCs),
         r.pc \in PathPCs \ ({"list"} \cup ClearPCs), Standing(r),
         r.own = q.own, r.stat = q.stat, r.todo = q.todo, r.at = q.at,
         r.chain # <<>> <=> q.chain # <<>>, Waiting(r) = Waiting(q)
  PROVE  Working(r)
<1>1. q.pc # "list" /\ r.pc # "list" /\ q.pc \in ActivePCs /\ r.pc \in ActivePCs
  OBVIOUS
<1>2. Left(q) \subseteq Left(r)
  BY <1>1 DEF Left
<1>3. Final(r)
  BY <1>2 DEF Working, Final
<1>4. SimpleSelections => Loaded(r)
  BY DEF Working, Loaded
<1>5. SimpleSelections => Others(r)
  BY DEF Working, Others, Busy
<1> QED BY <1>3, <1>4, <1>5 DEF Working

\* The SELECT of upsertNode finds a row to write, or none to collide with.
LEMMA WorkSelect ==
  ASSUME ScanInv, OneByOne, WorkInv, NEW w \in Requests, req[w].pc \in {"upsert", "meta"},
         NEW q \in Progress, UpsertSelect(w, q), UNCHANGED <<overlap, faults, node, items, listed>>,
         q.own = req[w].own, q.stat = req[w].stat, q.todo = req[w].todo, q.at = req[w].at,
         q.chain # <<>> <=> req[w].chain # <<>>,
         q.chain # <<>> /\ Working(req[w]) => node[Last(q.chain)] # None,
         q.chain = <<>> /\ Working(req[w]) => q.obj = None,
         q.objs \cup (IF q.obj # None THEN {q.obj} ELSE {}) = Waiting(req[w])
  PROVE  WorkInv'
<1>1. /\ Active(w) /\ req[w].pc \in PathPCs \ ({"list", "update"} \cup ClearPCs)
  BY DEF Active, ClearPCs
<1>2. PICK p : p = IF q.chain = <<>> THEN 0 ELSE Last(q.chain)
  OBVIOUS
<1>3. CASE Children(p, Head(q.segs)) = {} /\ Set(w, [q EXCEPT !.pc = "create"])
  <2>1. PICK r : r = [q EXCEPT !.pc = "create"]
    OBVIOUS
  <2>2. /\ r.pc = "create" /\ r.own = q.own /\ r.stat = q.stat /\ r.todo = q.todo /\ r.at = q.at
        /\ r.chain = q.chain /\ r.objs = q.objs /\ r.obj = q.obj /\ r.segs = q.segs
    BY <2>1 DEF Progress
  <2>3. r.pc \in PathPCs \ ({"list"} \cup ClearPCs) /\ r.pc \in ActivePCs
    BY <2>2 DEF ClearPCs
  <2>4. Waiting(r) = Waiting(req[w])
    BY <2>2 DEF Waiting, InWork
  <2>5. Working(req[w]) => Standing(r)
    BY <1>2, <1>3, <2>2, <2>3 DEF Standing
  <2>6. Working(req[w]) => Working(r)
    BY <1>1, <2>2, <2>3, <2>4, <2>5, WorkingOn
  <2>7. req' = [req EXCEPT ![w] = r]
    BY <1>3, <2>1 DEF Set
  <2> QED BY <1>1, <2>3, <2>6, <2>7, WorkMovedOn
<1>4. ASSUME NEW n \in Children(p, Head(q.segs)), Set(w, [q EXCEPT !.id = n, !.pc = "update"])
      PROVE  WorkInv'
  <2>1. PICK r : r = [q EXCEPT !.id = n, !.pc = "update"]
    OBVIOUS
  <2>2. /\ r.pc = "update" /\ r.own = q.own /\ r.stat = q.stat /\ r.todo = q.todo /\ r.at = q.at
        /\ r.chain = q.chain /\ r.objs = q.objs /\ r.obj = q.obj /\ r.id = n
    BY <2>1 DEF Progress
  <2>3. r.pc \in PathPCs \ ({"list"} \cup ClearPCs) /\ r.pc \in ActivePCs
    BY <2>2 DEF ClearPCs
  <2>4. Waiting(r) = Waiting(req[w])
    BY <2>2 DEF Waiting, InWork
  <2>5. node[n] # None
    BY <1>4 DEF Children, Rows
  <2>6. Working(req[w]) => Standing(r)
    BY <2>2, <2>3, <2>5 DEF Standing
  <2>7. Working(req[w]) => Working(r)
    BY <1>1, <2>2, <2>3, <2>4, <2>6, WorkingOn
  <2>8. req' = [req EXCEPT ![w] = r]
    BY <1>4, <2>1 DEF Set
  <2> QED BY <1>1, <2>3, <2>7, <2>8, WorkMovedOn
<1> QED BY <1>2, <1>3, <1>4 DEF UpsertSelect

LEMMA WorkUpsertRead ==
  ASSUME ScanInv, OneByOne, WorkInv, NEW w \in Requests, UpsertRead(w) PROVE WorkInv'
<1>1. PICK q : q = req[w]
  OBVIOUS
<1>2. /\ q \in Progress /\ q.pc = "upsert" /\ UpsertSelect(w, q)
      /\ UNCHANGED <<overlap, faults, node, items, listed>>
  BY <1>1, Before DEF UpsertRead, dbVars, envVars
<1>3. q.objs \cup (IF q.obj # None THEN {q.obj} ELSE {}) = Waiting(q)
  BY <1>2 DEF Waiting, InWork
<1>4. Working(q) => /\ q.chain # <<>> => node[Last(q.chain)] # None
                    /\ q.chain = <<>> => q.obj = None
  BY <1>2 DEF Working, Standing
<1> QED BY <1>1, <1>2, <1>3, <1>4, WorkSelect

LEMMA WorkItemSelect ==
  ASSUME ScanInv, OneByOne, WorkInv, NEW w \in Requests, req[w].pc \in {"item", "meta"},
         NEW q \in Progress, ItemSelect(w, q), UNCHANGED <<overlap, faults, node, items, listed>>,
         q.own = req[w].own, q.stat = req[w].stat, q.todo = req[w].todo, q.at = req[w].at,
         q.chain # <<>>, req[w].chain # <<>>,
         Working(req[w]) => node[Last(q.chain)] # None,
         q.objs \cup {q.obj} = Waiting(req[w])
  PROVE  WorkInv'
<1>1. Active(w) /\ req[w].pc \in PathPCs \ ({"list", "update"} \cup ClearPCs)
  BY DEF Active, ClearPCs
<1>2. PICK pc : pc = IF SameItem(q) = {} THEN "insert" ELSE "updateitem"
  OBVIOUS
<1>3. PICK r : r = [q EXCEPT !.pc = pc]
  OBVIOUS
<1>4. /\ r.pc = pc /\ r.own = q.own /\ r.stat = q.stat /\ r.todo = q.todo /\ r.at = q.at
      /\ r.chain = q.chain /\ r.objs = q.objs /\ r.obj = q.obj
  BY <1>3 DEF Progress
<1>5. r.pc \in ItemPCs /\ r.pc \in PathPCs \ ({"list"} \cup ClearPCs) /\ r.pc \in ActivePCs
  BY <1>2, <1>4 DEF ClearPCs
<1>6. Waiting(r) = Waiting(req[w])
  BY <1>4, <1>5 DEF Waiting, InWork
<1>7. Working(req[w]) => Standing(r)
  BY <1>2, <1>4, <1>5 DEF Standing
<1>8. Working(req[w]) => Working(r)
  BY <1>1, <1>4, <1>5, <1>6, <1>7, WorkingOn
<1>9. req' = [req EXCEPT ![w] = r]
  BY <1>2, <1>3 DEF ItemSelect, Set
<1> QED BY <1>1, <1>5, <1>8, <1>9, WorkMovedOn

LEMMA WorkItemRead ==
  ASSUME ScanInv, OneByOne, WorkInv, NEW w \in Requests, ItemRead(w) PROVE WorkInv'
<1>1. PICK q : q = req[w]
  OBVIOUS
<1>2. /\ q \in Progress /\ q.pc = "item" /\ ItemSelect(w, q) /\ q.chain # <<>>
      /\ UNCHANGED <<overlap, faults, node, items, listed>>
  BY <1>1, Before DEF ItemRead, dbVars, envVars, Informed
<1>3. q.objs \cup {q.obj} = Waiting(q)
  BY <1>2 DEF Waiting, InWork
<1>4. Working(q) => node[Last(q.chain)] # None
  BY <1>2 DEF Working, Standing
<1> QED BY <1>1, <1>2, <1>3, <1>4, WorkItemSelect

LEMMA WorkNextMeta ==
  ASSUME ScanInv, OneByOne, WorkInv, NEW w \in Requests, NextMeta(w) PROVE WorkInv'
<1>1. PICK q : q = req[w]
  OBVIOUS
<1>2. /\ q \in Progress /\ Informed(q) /\ q.pc = "meta" /\ Active(w)
      /\ UNCHANGED <<overlap, faults, node, items, listed>>
  BY <1>1, Before DEF NextMeta, Active, dbVars, envVars
<1>3. PICK r : r = [q EXCEPT !.obj = None, !.chain = SubSeq(@, 1, 1)]
  OBVIOUS
<1>4. q.chain \in Seq(NodeIds) /\ q.chain # <<>>
  BY <1>2 DEF Informed, Progress
<1>5. PICK n : n = q.chain[1]
  OBVIOUS
<1>6. /\ r.chain \in Seq(NodeIds) /\ r.chain # <<>> /\ Last(r.chain) = n /\ Head(r.chain) = n
  <2>1. r.chain = SubSeq(q.chain, 1, 1)
    BY <1>2, <1>3 DEF Progress
  <2> QED BY <1>4, <1>5, <2>1, TopChain
<1>7. /\ r.pc = "meta" /\ r.own = q.own /\ r.at = q.at /\ r.todo = q.todo /\ r.obj = None
      /\ r.dirs = q.dirs /\ r.objs = q.objs /\ r.stat = q.stat /\ r.auto = q.auto
  BY <1>2, <1>3 DEF Progress
<1>8. r \in Progress
  BY <1>2, <1>3, <1>6, <1>7 DEF Progress
<1>9. node[n] # None /\ q.at \in Paths
  BY <1>2, <1>4, <1>5 DEF Informed, TopOf, Rows
<1>10. Waiting(q) = q.objs
  BY <1>2 DEF Waiting, InWork
<1>11. ASSUME NEW d \in r.dirs, UpsertSelect(w, [r EXCEPT !.dirs = @ \ {d}, !.segs = d])
       PROVE  WorkInv'
  <2>1. PICK s : s = [r EXCEPT !.dirs = @ \ {d}, !.segs = d]
    OBVIOUS
  <2>2. s \in Progress
    BY <1>8, <1>11, <2>1 DEF Progress
  <2>3. /\ s.own = r.own /\ s.at = r.at /\ s.chain = r.chain /\ s.obj = None
        /\ s.objs = r.objs /\ s.stat = r.stat /\ s.todo = r.todo
    BY <1>7, <1>8, <2>1 DEF Progress
  <2>4. s.objs \cup (IF s.obj # None THEN {s.obj} ELSE {}) = Waiting(q)
    BY <1>7, <1>10, <2>3
  <2>5. UpsertSelect(w, s)
    BY <1>11, <2>1
  <2> QED BY <1>1, <1>2, <1>4, <1>6, <1>7, <1>9, <2>2, <2>3, <2>4, <2>5, WorkSelect
<1>12. ASSUME NEW o \in r.objs, NEW s,
              s = [r EXCEPT !.objs = @ \ {o}, !.obj = o, !.segs = Front(o.rel)],
              IF s.segs = <<>> THEN ItemSelect(w, s) ELSE UpsertSelect(w, s)
       PROVE  WorkInv'
  <2>1. o \in Entries /\ o.rel \in Seq(Names) /\ o.rel # <<>> /\ o # None
    <3>1. o \in Entries
      BY <1>8, <1>12 DEF Progress
    <3> QED BY <3>1, ConstantsAssumption DEF Entries, ConstantsAssumption
  <2>2. Front(o.rel) \in Seq(Names)
    BY <2>1, FrontOf
  <2>3. s \in Progress
    BY <1>8, <1>12, <2>1, <2>2 DEF Progress
  <2>4. /\ s.own = r.own /\ s.at = r.at /\ s.chain = r.chain
        /\ s.obj = o /\ s.objs = r.objs \ {o} /\ s.stat = r.stat /\ s.todo = r.todo
    BY <1>7, <1>8, <1>12 DEF Progress
  <2>5. s.objs \cup {s.obj} = Waiting(q) /\ s.obj # None
    BY <1>7, <1>10, <1>12, <2>1, <2>4
  <2>6. CASE ItemSelect(w, s)
    BY <1>1, <1>2, <1>4, <1>6, <1>7, <1>9, <2>3, <2>4, <2>5, <2>6, WorkItemSelect
  <2>7. CASE UpsertSelect(w, s)
    BY <1>1, <1>2, <1>4, <1>6, <1>7, <1>9, <2>3, <2>4, <2>5, <2>7, WorkSelect
  <2> QED BY <1>12, <2>6, <2>7
<1>13. CASE r.objs = {} /\ Set(w, [r EXCEPT !.pc = PathDone(w), !.stat = Aggregate(@, n)])
  <2>1. PICK pc, stat : pc = PathDone(w) /\ stat = Aggregate(r.stat, n)
    OBVIOUS
  <2>2. PICK s : s = [r EXCEPT !.pc = pc, !.stat = stat]
    OBVIOUS
  <2>3. pc \in {"final", "path"} /\ (pc = "path" => ~q.auto)
    BY <1>1, <2>1 DEF PathDone
  <2>4. s.pc = pc /\ s.own = q.own /\ s.todo = q.todo /\ s.stat = stat /\ s.auto = q.auto
    BY <1>7, <1>8, <2>2 DEF Progress
  <2>5. req' = [req EXCEPT ![w] = s]
    BY <1>13, <2>1, <2>2 DEF Set
  <2>6. DOMAIN q.stat \subseteq DOMAIN stat
    BY <1>7, <2>1 DEF Aggregate
  <2>7. s.pc \in ActivePCs /\ s.pc \notin PathPCs /\ s.pc \notin ClearPCs /\ s.pc # "list"
    BY <2>3, <2>4 DEF ClearPCs
  <2>8. ASSUME Working(q) PROVE Working(s)
    <3>1. Standing(s)
      BY <2>3, <2>4, <2>7 DEF Standing
    <3>2. Left(q) \subseteq Left(s)
      BY <1>2, <2>3, <2>4, <2>6 DEF Left
    <3>3. Final(s)
      BY <2>8, <3>2 DEF Working, Final
    <3>4. SimpleSelections => Loaded(s)
      BY <1>2, <2>4, <2>7, <2>8 DEF Working, Loaded
    <3>5. ASSUME SimpleSelections, NEW b \in Buckets PROVE Children(0, b) = {} \/ Stored(b)
      <4>1. CASE b = q.at[1]
        <5>1. q.chain # <<>> /\ q.pc \notin ClearPCs
          BY <1>2, <1>4 DEF ClearPCs
        <5>2. KeysOf(Waiting(q)) = {}
          BY <1>7, <1>10, <1>13 DEF KeysOf
        <5>3. Wanted(q.at, listed[b]) = Keyed(b)
          BY <1>2, <2>8, <3>5, <4>1, <5>1, <5>2 DEF Working, Loaded
        <5> QED BY <1>9, <5>3 DEF Stored
      <4>2. CASE b # q.at[1]
        BY <2>8, <3>5, <4>2 DEF Working, Others, Busy
      <4> QED BY <4>1, <4>2
    <3> QED BY <3>1, <3>3, <3>4, <3>5 DEF Working, Others
  <2> QED BY <1>1, <1>2, <2>5, <2>7, <2>8, WorkMovedOn
<1>14. \/ \E d \in r.dirs : UpsertSelect(w, [r EXCEPT !.dirs = @ \ {d}, !.segs = d])
       \/ \E o \in r.objs : \E s :
             /\ s = [r EXCEPT !.objs = @ \ {o}, !.obj = o, !.segs = Front(o.rel)]
             /\ IF s.segs = <<>> THEN ItemSelect(w, s) ELSE UpsertSelect(w, s)
       \/ r.objs = {} /\ Set(w, [r EXCEPT !.pc = PathDone(w), !.stat = Aggregate(@, n)])
  BY <1>1, <1>3, <1>6 DEF NextMeta
<1> QED BY <1>11, <1>12, <1>13, <1>14

\* Where scans overlap or something has failed, nothing is claimed.
LEMMA WorkDisturbed ==
  ASSUME WorkInv, UNCHANGED <<overlap, faults, listed>>, overlap \/ faults # 0 PROVE WorkInv'
  BY DEF WorkInv

\* What is stored stays where items and the names of rows do.
LEMMA StoredSame ==
  ASSUME UNCHANGED <<items, listed>>, Rows' = Rows, \A n \in Rows : SameShape(n)
  PROVE  /\ \A b : Keyed(b)' = Keyed(b) /\ Stored(b)' = Stored(b)
         /\ \A p, name : Children(p, name)' = Children(p, name)
<1>1. \A b : Keyed(b)' = Keyed(b)
  BY DEF Keyed
<1>2. \A b : Stored(b)' = Stored(b)
  BY <1>1 DEF Stored
<1>3. \A p, name : Children(p, name)' = Children(p, name)
  BY DEF Children, SameShape
<1> QED BY <1>1, <1>2, <1>3

LEMMA WorkUpsertCreate ==
  ASSUME ScanInv, OneByOne, WorkInv, NEW w \in Requests, UpsertCreate(w) PROVE WorkInv'
<1> DEFINE p == Parent(w)
           name == Head(req[w].segs)
           refused == IF p = 0 THEN FALSE ELSE node[p] = None \/ Children(p, name) # {}
<1>1. PICK q : q = req[w]
  OBVIOUS
<1>2. /\ q \in Progress /\ Informed(q) /\ q.pc = "create" /\ Active(w)
      /\ UNCHANGED <<overlap, faults, items, listed>>
  BY <1>1, Before DEF UpsertCreate, Active, envVars
<1>3. CASE overlap \/ faults # 0
  BY <1>2, <1>3, WorkDisturbed
<1>4. CASE ~overlap /\ faults = 0
  <2>1. Working(q)
    BY <1>1, <1>2, <1>4 DEF WorkInv
  <2>2. ~refused
    BY <1>1, <1>2, <2>1 DEF Working, Standing, Parent
  <2>3. PICK n \in FreshIds :
           /\ node' = [node EXCEPT ![n] = [parent |-> p, name |-> name, pathed |-> FALSE,
                                           status |-> Unscanned, count |-> 0]]
           /\ Set(w, [req[w] EXCEPT !.id = n, !.pc = "update"])
    BY <2>2 DEF UpsertCreate
  <2>4. PICK row : row = [parent |-> p, name |-> name, pathed |-> FALSE,
                          status |-> Unscanned, count |-> 0]
    OBVIOUS
  <2>5. PICK r : r = [q EXCEPT !.id = n, !.pc = "update"]
    OBVIOUS
  <2>6. /\ r.pc = "update" /\ r.own = q.own /\ r.at = q.at /\ r.todo = q.todo /\ r.id = n
        /\ r.chain = q.chain /\ r.objs = q.objs /\ r.obj = q.obj /\ r.stat = q.stat
    BY <1>2, <2>5 DEF Progress
  <2>7. req' = [req EXCEPT ![w] = r]
    BY <1>1, <2>3, <2>5 DEF Set
  <2>8. n \in NodeIds /\ node[n] = None /\ n \notin Rows
    BY FreshFacts DEF Rows
  <2>9. node'[n] = row /\ \A m \in NodeIds \ {n} : node'[m] = node[m]
    BY <2>3, <2>4, <2>8 DEF ScanInv, Types, RowsTyped
  <2>10. Rows' = Rows \cup {n} /\ node'[n] # None
    <3>1. p \in NodeIds \cup {0}
      BY <1>1, <1>2, ChainEnds DEF Parent
    <3>2. name \in Names
      BY <1>1, <1>2 DEF Informed, Progress
    <3>3. row \in MetaNode
      BY <2>4, <3>1, <3>2 DEF MetaNode
    <3>4. row # None
      BY <3>3, ConstantsAssumption DEF ConstantsAssumption
    <3> QED BY <2>8, <2>9, <3>4 DEF Rows
  <2>11. /\ q.pc \notin ClearPCs /\ q.pc \in PathPCs \ {"list"} /\ q.pc # "update"
         /\ r.pc \notin ClearPCs /\ r.pc \in PathPCs \ {"list"} /\ r.pc # "create"
    BY <1>2, <2>6 DEF ClearPCs
  <2>12. Standing(r)'
    <3>1. ASSUME q.chain # <<>> PROVE node'[Last(q.chain)] # None
      <4>1. node[Last(q.chain)] # None
        BY <2>1, <2>11, <3>1 DEF Working, Standing
      <4>2. Last(q.chain) \in NodeIds
        BY <1>2, <3>1, ChainEnds
      <4> QED BY <2>8, <2>9, <4>1, <4>2
    <3>2. q.chain = <<>> => q.obj = None
      BY <1>2, <2>1 DEF Working, Standing
    <3> QED BY <2>6, <2>10, <2>11, <3>1, <3>2 DEF Standing
  <2>13. Final(r)'
    <3>1. Left(q) \cup {n} \subseteq Left(r)
      BY <1>2, <2>6 DEF Left
    <3>2. \A m \in Rows : m # n /\ node'[m] = node[m]
      BY <2>8, <2>9 DEF Rows
    <3> QED BY <2>1, <2>10, <3>1, <3>2 DEF Working, Final, Left
  <2>14. \A b : Keyed(b)' = Keyed(b)
    BY <1>2 DEF Keyed
  <2>15. ASSUME SimpleSelections PROVE Loaded(r)'
    <3>1. Waiting(r)' = Waiting(q)
      BY <1>2, <2>6 DEF Waiting, InWork
    <3> QED BY <1>2, <2>1, <2>6, <2>11, <2>14, <2>15, <3>1 DEF Working, Loaded
  <2>16. ASSUME SimpleSelections, NEW b \in Buckets
         PROVE  Busy(r, b)' \/ Children(0, b)' = {} \/ Stored(b)'
    <3>1. CASE b = q.at[1]
      BY <2>6, <2>11, <3>1 DEF Busy
    <3>2. CASE b # q.at[1]
      <4>1. row.parent = p /\ row.name = name
        BY <2>4
      <4>2. ~(row.parent = 0 /\ row.name = b)
        <5>1. q.chain = <<>> => name = q.at[1]
          BY <1>1, <1>2 DEF Informed
        <5>2. q.chain # <<>> => p # 0
          BY <1>1, <1>2, ChainEnds, ConstantsAssumption DEF Parent, ConstantsAssumption
        <5> QED BY <3>2, <4>1, <5>1, <5>2
      <4>3. Children(0, b)' = Children(0, b)
        BY <2>8, <2>9, <2>10, <4>2 DEF Children, Rows
      <4>4. Stored(b)' = Stored(b)
        BY <1>2, <2>14 DEF Stored
      <4>5. Children(0, b) = {} \/ Stored(b)
        BY <2>1, <2>16, <3>2 DEF Working, Others, Busy
      <4> QED BY <4>3, <4>4, <4>5
    <3> QED BY <3>1, <3>2
  <2>17. Working(r)'
    BY <2>12, <2>13, <2>15, <2>16 DEF Working, Others
  <2> QED BY <1>1, <1>2, <2>6, <2>7, <2>17, WorkMoved
<1> QED BY <1>3, <1>4

\* A row and its path are written, and the request owns or counts the row.
LEMMA WorkUpsertUpdate ==
  ASSUME ScanInv, OneByOne, CountInv, WorkInv, NEW w \in Requests, UpsertUpdate(w)
  PROVE  WorkInv'
<1>1. PICK q, n, b : q = req[w] /\ n = q.id /\ b = q.at[1]
  OBVIOUS
<1>2. /\ q \in Progress /\ Informed(q) /\ q.pc = "update" /\ Active(w)
      /\ UNCHANGED <<overlap, faults, items, listed>>
  BY <1>1, Before DEF UpsertUpdate, Active, envVars
<1> DEFINE top == q.chain = <<>>
           pc == IF top THEN "reset"
                 ELSE IF Len(q.segs) > 1 THEN "upsert"
                 ELSE IF q.obj # None THEN "item" ELSE "meta"
           own == [q.own EXCEPT ![b] = IF top THEN n ELSE @]
           stat == IF top THEN q.stat ELSE Aggregate(q.stat, n)
<1>3. /\ n \in NodeIds /\ q.chain \in Seq(NodeIds) /\ b \in Buckets
      /\ q.own \in [Buckets -> NodeIds \cup {0}] /\ n # 0
  BY <1>1, <1>2, PathsOf, ConstantsAssumption
     DEF Informed, Progress, ConstantsAssumption
<1>4. PICK r : r = [q EXCEPT !.chain = Append(@, n), !.segs = Tail(@), !.id = 0,
                             !.own = own, !.stat = stat, !.pc = pc]
  OBVIOUS
<1>5. req' = [req EXCEPT ![w] = r]
  <2>1. Set(w, [q EXCEPT
                  !.chain = Append(@, n), !.segs = Tail(@), !.id = 0,
                  !.own[b] = IF top THEN n ELSE @,
                  !.stat = IF top THEN @ ELSE Aggregate(@, n), !.pc = pc])
    BY <1>1 DEF UpsertUpdate
  <2>2. [q EXCEPT !.chain = Append(@, n), !.segs = Tail(@), !.id = 0,
                  !.own[b] = IF top THEN n ELSE @,
                  !.stat = IF top THEN @ ELSE Aggregate(@, n), !.pc = pc] = r
    BY <1>2, <1>4 DEF Progress
  <2> QED BY <2>1, <2>2 DEF Set
<1>6. /\ pc \in {"reset", "upsert", "item", "meta"}
      /\ (pc = "reset") = top /\ (pc = "item" => q.obj # None) /\ (pc = "meta" => q.obj = None)
  OBVIOUS
<1>7. /\ own[b] = IF top THEN n ELSE q.own[b]
      /\ \A c \in Buckets \ {b} : own[c] = q.own[c]
      /\ DOMAIN own = Buckets /\ DOMAIN q.own = Buckets
      /\ ~top => own = q.own
  BY <1>3
<1>8. DOMAIN stat = DOMAIN q.stat \cup (IF top THEN {} ELSE {n})
  BY DEF Aggregate
<1> HIDE DEF own, stat, pc
<1>9. /\ r.pc = pc /\ r.chain = Append(q.chain, n) /\ r.own = own /\ r.stat = stat
      /\ r.at = q.at /\ r.obj = q.obj /\ r.objs = q.objs /\ r.todo = q.todo
  BY <1>2, <1>4 DEF Progress
<1>10. r.chain # <<>> /\ Last(r.chain) = n /\ (top => Len(r.chain) = 1)
  BY <1>3, <1>9, ChainAppend
<1>11. node' = [node EXCEPT ![n] = IF @ = None THEN @ ELSE [@ EXCEPT !.pathed = TRUE]]
  BY <1>1 DEF UpsertUpdate
<1>12. ASSUME NEW m \in NodeIds
       PROVE  /\ node'[m] = None <=> node[m] = None
              /\ node[m] # None => SameShape(m) /\ node'[m].status = node[m].status
  <2>1. node[m] \in MetaNode \cup {None}
    BY DEF ScanInv, Types, RowsTyped
  <2>2. CASE m = n /\ node[n] # None
    <3>1. node'[n] = [node[n] EXCEPT !.pathed = TRUE] /\ node[n] \in MetaNode
      BY <1>3, <1>11, <2>1, <2>2 DEF ScanInv, Types, RowsTyped
    <3>2. [node[n] EXCEPT !.pathed = TRUE] \in MetaNode
      BY <3>1 DEF MetaNode
    <3>3. node'[n] # None
      BY <3>1, <3>2, ConstantsAssumption DEF ConstantsAssumption
    <3> QED BY <2>2, <3>1, <3>3 DEF SameShape, MetaNode
  <2>3. CASE ~(m = n /\ node[n] # None)
    <3>1. node'[m] = node[m]
      BY <1>3, <1>11, <2>3 DEF ScanInv, Types, RowsTyped
    <3> QED BY <3>1 DEF SameShape
  <2> QED BY <2>2, <2>3
<1>13. Rows' = Rows /\ \A m \in Rows : SameShape(m) /\ node'[m].status = node[m].status
  BY <1>12 DEF Rows
<1>14. /\ \A c : Keyed(c)' = Keyed(c) /\ Stored(c)' = Stored(c)
       /\ \A c : Children(0, c)' = Children(0, c)
  BY <1>2, <1>13, StoredSame
<1>15. r.pc \in PathPCs \ {"list"} /\ r.pc \in ActivePCs /\ r.pc # "update" /\ r.pc # "create"
       /\ (r.pc \in ClearPCs <=> top)
  BY <1>6, <1>9 DEF ClearPCs
<1>16. ASSUME Working(q), ~overlap PROVE Working(r)'
  <2>1. Standing(r)'
    <3>1. node'[n] # None
      BY <1>1, <1>2, <1>3, <1>12, <1>16 DEF Working, Standing
    <3> QED BY <1>10, <1>15, <3>1 DEF Standing
  <2>2. Left(q) \subseteq Left(r)
    <3>1. ASSUME NEW m \in Range(q.own) \ {0} PROVE m \in Range(own) \ {0}
      <4>1. PICK c \in Buckets : q.own[c] = m
        BY <1>7, <3>1 DEF Range
      <4>2. top => q.own[b] = 0
        <5>1. Chained(q)
          BY <1>1, <1>2, <1>16 DEF CountInv, Counting
        <5> QED BY <1>1, <1>2, <5>1 DEF Chained
      <4>3. own[c] = m
        BY <1>7, <3>1, <4>1, <4>2
      <4> QED BY <1>7, <3>1, <4>3 DEF Range
    <3>2. n \in DOMAIN stat \cup (Range(own) \ {0})
      <4>1. top => n \in Range(own)
        BY <1>3, <1>7 DEF Range
      <4> QED BY <1>3, <1>8, <4>1
    <3> QED BY <1>1, <1>2, <1>8, <1>9, <1>15, <3>1, <3>2 DEF Left
  <2>3. Final(r)'
    BY <1>13, <1>16, <2>2 DEF Working, Final, Left
  <2>4. ASSUME SimpleSelections PROVE Loaded(r)'
    <3>1. Waiting(r) = Waiting(q)
      <4>1. CASE top
        <5>1. q.obj = None
          BY <1>2, <1>16, <4>1 DEF Working, Standing
        <5> QED BY <1>2, <1>6, <1>9, <4>1, <5>1 DEF Waiting, InWork
      <4>2. CASE ~top
        BY <1>2, <1>6, <1>9, <4>2 DEF Waiting, InWork
      <4> QED BY <4>1, <4>2
    <3>2. Wanted(q.at, listed[b]) = KeysOf(Waiting(q)) \cup (IF top THEN {} ELSE Keyed(b))
      <4>1. q.pc \in PathPCs \ {"list"} /\ q.pc \notin ClearPCs
        BY <1>2 DEF ClearPCs
      <4> QED BY <1>1, <1>16, <2>4, <4>1 DEF Working, Loaded
    <3>3. Wanted(r.at, listed[r.at[1]]) =
             KeysOf(Waiting(r)) \cup
                 (IF r.chain # <<>> /\ r.pc \notin ClearPCs THEN Keyed(r.at[1]) ELSE {})
      BY <1>1, <1>9, <1>10, <1>15, <3>1, <3>2
    <3>4. \A p \in q.todo : p[1] \in Buckets /\ p[1] # b /\ q.own[p[1]] = 0
      <4>1. \A p \in q.todo : p[1] \in Buckets
        BY <1>2, PathsOf DEF Progress
      <4> QED BY <1>1, <1>2, <1>16, <2>4, <4>1 DEF Working, Loaded
    <3>5. \A p \in r.todo : r.own[p[1]] = 0
      BY <1>7, <1>9, <3>4
    <3>6. \A p, s \in r.todo : p[1] = s[1] => p = s
      BY <1>9, <1>16, <2>4 DEF Working, Loaded
    <3>7. Waiting(r)' = Waiting(r)
      BY DEF Waiting, InWork
    <3> QED BY <1>1, <1>2, <1>9, <1>14, <1>15, <3>3, <3>4, <3>5, <3>6, <3>7 DEF Loaded
  <2>5. SimpleSelections => Others(r)'
    <3>1. \A c : Busy(r, c)' <=> Busy(q, c)
      BY <1>2, <1>9, <1>15 DEF Busy
    <3> QED BY <1>14, <1>16, <3>1 DEF Working, Others
  <2> QED BY <2>1, <2>3, <2>4, <2>5 DEF Working
<1> QED BY <1>1, <1>2, <1>5, <1>15, <1>16, WorkMoved

LEMMA WorkResetBucket ==
  ASSUME ScanInv, OneByOne, CountInv, WorkInv, NEW w \in Requests, ResetBucket(w)
  PROVE  WorkInv'
<1>1. PICK q, c : q = req[w] /\ c = q.chain[1]
  OBVIOUS
<1>2. /\ q \in Progress /\ Informed(q) /\ q.pc = "reset" /\ Active(w)
      /\ UNCHANGED <<overlap, faults, items, listed>>
  BY <1>1, Before DEF ResetBucket, Active, envVars
<1>3. PICK r : r = [q EXCEPT !.pc = "delnodes"]
  OBVIOUS
<1>4. req' = [req EXCEPT ![w] = r]
  BY <1>1, <1>3 DEF ResetBucket, Goto, Set
<1>5. /\ r.pc = "delnodes" /\ r.own = q.own /\ r.at = q.at /\ r.todo = q.todo
      /\ r.chain = q.chain /\ r.objs = q.objs /\ r.obj = q.obj /\ r.stat = q.stat
  BY <1>2, <1>3 DEF Progress
<1>6. /\ c \in Rows /\ node[c] \in MetaNode /\ q.chain \in Seq(NodeIds) /\ q.chain # <<>>
      /\ q.at[1] \in Buckets
  <2>1. TopOf(c, q.at[1]) /\ q.chain # <<>>
    BY <1>1, <1>2 DEF Informed
  <2> QED BY <1>2, <2>1, RowFields, PathsOf DEF TopOf, ScanInv, Types, Informed, Progress
<1>7. node' = [node EXCEPT ![c] = [node[c] EXCEPT !.status = Scanning]]
  BY <1>1 DEF ResetBucket
<1>8. ASSUME NEW n \in Rows
      PROVE  node'[n] # None /\ SameShape(n) /\ (n # c => node'[n].status = node[n].status)
  <2>1. [node[c] EXCEPT !.status = Scanning] \in MetaNode
    BY <1>6 DEF MetaNode
  <2>2. CASE n = c
    <3>1. node'[c] = [node[c] EXCEPT !.status = Scanning]
      BY <1>6, <1>7 DEF ScanInv, Types, RowsTyped, Rows
    <3>2. node'[c] # None
      BY <2>1, <3>1, ConstantsAssumption DEF ConstantsAssumption
    <3> QED BY <1>6, <2>2, <3>1, <3>2 DEF SameShape, MetaNode
  <2>3. CASE n # c
    BY <1>7, <2>3 DEF ScanInv, Types, RowsTyped, Rows, SameShape
  <2> QED BY <2>2, <2>3
<1>9. Rows' = Rows
  <2>1. \A n \in NodeIds : node[n] = None => node'[n] = None
    BY <1>6, <1>7 DEF ScanInv, Types, RowsTyped, Rows
  <2> QED BY <1>8, <2>1 DEF Rows
<1>10. /\ \A b : Keyed(b)' = Keyed(b) /\ Stored(b)' = Stored(b)
       /\ \A b : Children(0, b)' = Children(0, b)
  BY <1>2, <1>8, <1>9, StoredSame
<1>11. q.pc \in ClearPCs /\ r.pc \in ClearPCs /\ r.pc \in ActivePCs
  BY <1>2, <1>5 DEF ClearPCs
<1>12. ASSUME Working(q), ~overlap PROVE Working(r)'
  <2>1. Standing(r)'
    <3>1. node[Last(q.chain)] # None /\ Last(q.chain) \in Rows /\ Len(q.chain) = 1
      <4>1. Last(q.chain) \in NodeIds
        BY <1>2, <1>6, ChainEnds
      <4> QED BY <1>2, <1>6, <1>11, <1>12, <4>1 DEF Working, Standing, Rows
    <3>2. node'[Last(q.chain)] # None
      BY <1>8, <3>1
    <3> QED BY <1>5, <3>1, <3>2 DEF Standing
  <2>2. Left(r) = Left(q) /\ c \in Left(q)
    <3>1. q.own[q.at[1]] = c
      BY <1>1, <1>2, <1>6, <1>12 DEF CountInv, Counting, Chained
    <3>2. c \in Range(q.own) \ {0}
      BY <1>2, <1>6, <3>1, ConstantsAssumption DEF Progress, Range, Rows, ConstantsAssumption
    <3> QED BY <1>2, <1>5, <3>2 DEF Left
  <2>3. Final(r)'
    BY <1>8, <1>9, <1>12, <2>2 DEF Working, Final, Left
  <2>4. SimpleSelections => Loaded(r)'
    <3>1. Waiting(r)' = Waiting(q)
      BY <1>2, <1>5 DEF Waiting, InWork
    <3> QED BY <1>2, <1>5, <1>11, <1>12, <3>1 DEF Working, Loaded
  <2>5. SimpleSelections => Others(r)'
    BY <1>2, <1>5, <1>10, <1>12 DEF Working, Others, Busy
  <2> QED BY <2>1, <2>3, <2>4, <2>5 DEF Working
<1> QED BY <1>1, <1>2, <1>4, <1>11, <1>12, WorkMoved

\* An item below a bucket's row is of that bucket.
LEMMA ItemBelow ==
  ASSUME ScanInv, NEW c \in Rows, NEW b, TopOf(c, b), NEW i \in items, c \in IdPath[i.node]
  PROVE  i.bucket = b
<1>1. /\ i.node \in Rows /\ i.bucket \in Names /\ i.rel \in Seq(Names) /\ i.name \in Names
      /\ Segments[i.node] \o <<i.name>> = <<i.bucket>> \o i.rel
  BY DEF ScanInv, Types, MetaItem, ItemsInPlace, Names, Rows
<1>2. PICK s : s = Segments[i.node]
  OBVIOUS
<1>3. s[1] = b /\ s # <<>> /\ s \in Seq(Names)
  <2>1. s # <<>> /\ s \in Seq(Names)
    BY <1>1, <1>2, Lineage, SegmentsExist DEF Lined, ScanInv, SegmentsDefined, Rows
  <2> QED BY <1>1, <1>2, <2>1, Lineage DEF Lined, ScanInv, TopOf
<1>4. Len(s) \in Nat /\ Len(s) > 0
  BY <1>3
<1>5. (s \o <<i.name>>)[1] = s[1]
  <2>1. <<i.name>> \in Seq(Names) /\ Len(<<i.name>>) = 1
    BY <1>1
  <2>2. 1 \in 1 .. Len(s) + Len(<<i.name>>) /\ 1 <= Len(s)
    BY <1>4, <2>1
  <2> QED BY <1>3, <2>1, <2>2, Concatenation
<1>6. (<<i.bucket>> \o i.rel)[1] = i.bucket
  <2>1. <<i.bucket>> \in Seq(Names) /\ Len(<<i.bucket>>) = 1 /\ <<i.bucket>>[1] = i.bucket
    BY <1>1
  <2>2. Len(i.rel) \in Nat
    BY <1>1
  <2>3. 1 \in 1 .. Len(<<i.bucket>>) + Len(i.rel) /\ 1 <= Len(<<i.bucket>>)
    BY <2>1, <2>2
  <2>4. (<<i.bucket>> \o i.rel)[1] = <<i.bucket>>[1]
    BY <1>1, <2>1, <2>3, Concatenation
  <2> QED BY <2>1, <2>4
<1> QED BY <1>1, <1>2, <1>3, <1>5, <1>6

LEMMA WorkDeleteDescendants ==
  ASSUME ScanInv, OneByOne, WorkInv, NEW w \in Requests, DeleteDescendants(w)
  PROVE  WorkInv'
<1>1. PICK q, c, b : q = req[w] /\ c = q.chain[1] /\ b = q.at[1]
  OBVIOUS
<1>2. /\ q \in Progress /\ Informed(q) /\ q.pc = "delnodes" /\ Active(w)
      /\ UNCHANGED <<overlap, faults, listed>>
  BY <1>1, Before DEF DeleteDescendants, Active, envVars
<1>3. PICK r : r = [q EXCEPT !.pc = "delitems"]
  OBVIOUS
<1>4. req' = [req EXCEPT ![w] = r]
  BY <1>1, <1>3 DEF DeleteDescendants, Goto, Set
<1>5. /\ r.pc = "delitems" /\ r.own = q.own /\ r.at = q.at /\ r.todo = q.todo
      /\ r.chain = q.chain /\ r.objs = q.objs /\ r.obj = q.obj /\ r.stat = q.stat
  BY <1>2, <1>3 DEF Progress
<1>6. TopOf(c, b) /\ q.chain \in Seq(NodeIds) /\ q.chain # <<>> /\ c \in Rows /\ node[c].parent = 0
  BY <1>1, <1>2 DEF Informed, TopOf, Progress
<1>7. PICK gone : gone = Descendants(c)
  OBVIOUS
<1>8. PICK named : /\ named = {n \in Rows \ {c} : node[n].pathed /\ c \in IdPath[n]}
                   /\ gone = {n \in Rows : IdPath[n] \cap named # {}}
  BY <1>7 DEF Descendants
<1>9. /\ node' = [n \in NodeIds |-> IF n \in gone THEN None ELSE node[n]]
      /\ items' = {i \in items : i.node \notin gone}
  BY <1>1, <1>7 DEF DeleteDescendants
<1>10. Rows' = Rows \ gone /\ \A n \in Rows' : node'[n] = node[n]
  BY <1>8, <1>9 DEF Rows
<1>11. IdPath[c] = {c}
  BY <1>6, IdPathExists DEF IdPathDefined, ScanInv, Rows
<1>12. c \in Rows'
  BY <1>6, <1>8, <1>10, <1>11
<1>13. ASSUME NEW n \in gone PROVE n \in Rows /\ c \in IdPath[n]
  <2>1. PICK k \in named : k \in IdPath[n] /\ n \in Rows
    BY <1>8, <1>13
  <2> QED BY <1>8, <2>1, Lineage DEF Lined, ScanInv
<1>14. ASSUME NEW d, d # b PROVE Keyed(d)' = Keyed(d)
  <2>1. ASSUME NEW i \in items, i.bucket = d PROVE i.node \notin gone
    BY <1>6, <1>13, <1>14, <2>1, ItemBelow
  <2> QED BY <1>9, <2>1 DEF Keyed
<1>15. ASSUME NEW d PROVE Children(0, d)' \subseteq Children(0, d)
  BY <1>10 DEF Children
<1>16. q.pc \in ClearPCs /\ r.pc \in ClearPCs /\ r.pc \in ActivePCs
  BY <1>2, <1>5 DEF ClearPCs
<1>17. ASSUME Working(q) PROVE Working(r)'
  <2>1. Len(q.chain) = 1
    BY <1>16, <1>17 DEF Working, Standing
  <2>2. Last(q.chain) = c
    BY <1>1, <2>1 DEF Last
  <2>3. Standing(r)'
    BY <1>5, <1>12, <2>1, <2>2 DEF Standing, Rows
  <2>4. Final(r)'
    <3>1. Left(r) = Left(q)
      BY <1>2, <1>5 DEF Left
    <3> QED BY <1>10, <1>17, <3>1 DEF Working, Final, Left
  <2>5. SimpleSelections => Loaded(r)'
    <3>1. Waiting(r)' = Waiting(q)
      BY <1>2, <1>5 DEF Waiting, InWork
    <3> QED BY <1>2, <1>5, <1>16, <1>17, <3>1 DEF Working, Loaded
  <2>6. ASSUME SimpleSelections, NEW d \in Buckets
        PROVE  Busy(r, d)' \/ Children(0, d)' = {} \/ Stored(d)'
    <3>1. CASE d = b
      BY <1>1, <1>5, <3>1 DEF Busy
    <3>2. CASE d # b
      <4>1. Children(0, d) = {} \/ Stored(d)
        BY <1>1, <1>17, <2>6, <3>2 DEF Working, Others, Busy
      <4>2. Stored(d) => Stored(d)'
        BY <1>2, <1>14, <3>2 DEF Stored
      <4> QED BY <1>15, <4>1, <4>2
    <3> QED BY <3>1, <3>2
  <2> QED BY <2>3, <2>4, <2>5, <2>6 DEF Working, Others
<1> QED BY <1>1, <1>2, <1>4, <1>16, <1>17, WorkMoved

LEMMA WorkDeleteBucketItems ==
  ASSUME ScanInv, OneByOne, CountInv, WorkInv, NEW w \in Requests, DeleteBucketItems(w)
  PROVE  WorkInv'
<1>1. PICK q, c, b : q = req[w] /\ c = q.chain[1] /\ b = q.at[1]
  OBVIOUS
<1>2. /\ q \in Progress /\ Informed(q) /\ q.pc = "delitems" /\ Active(w)
      /\ UNCHANGED <<overlap, faults, node, listed>> /\ items' = {i \in items : i.node # c}
  BY <1>1, Before DEF DeleteBucketItems, Active, envVars
<1>3. PICK r : r = [q EXCEPT !.pc = "meta"]
  OBVIOUS
<1>4. req' = [req EXCEPT ![w] = r]
  BY <1>1, <1>3 DEF DeleteBucketItems, Goto, Set
<1>5. /\ r.pc = "meta" /\ r.own = q.own /\ r.at = q.at /\ r.todo = q.todo
      /\ r.chain = q.chain /\ r.objs = q.objs /\ r.obj = q.obj /\ r.stat = q.stat
  BY <1>2, <1>3 DEF Progress
<1>6. TopOf(c, b) /\ q.chain # <<>> /\ c \in Rows
  BY <1>1, <1>2 DEF Informed, TopOf
<1>7. \A i \in items : i.node \in Rows
  BY DEF ScanInv, Types, MetaItem, ItemsInPlace, Rows
<1>8. IdPath[c] = {c}
  BY <1>6, IdPathExists DEF IdPathDefined, ScanInv, Rows, TopOf
<1>9. ASSUME ~overlap PROVE Keyed(b)' = {}
  <2> SUFFICES ASSUME NEW i \in items', i.bucket = b PROVE FALSE
    BY DEF Keyed
  <2>1. i \in items /\ i.node # c
    BY <1>2
  <2>2. c \in IdPath[i.node]
    BY <1>6, <1>9, <2>1, ItemTop DEF OneByOne
  <2>3. Clearing(q)
    BY <1>1, <1>2, <1>9 DEF CountInv, Counting
  <2>4. node[i.node].pathed
    BY <2>1 DEF CountInv, Written
  <2> QED BY <1>1, <1>2, <1>7, <2>1, <2>2, <2>3, <2>4 DEF Clearing
<1>10. ASSUME NEW d, d # b PROVE Keyed(d)' = Keyed(d)
  <2>1. ASSUME NEW i \in items, i.bucket = d PROVE i.node # c
    <3> SUFFICES ASSUME i.node = c PROVE FALSE
      OBVIOUS
    <3>1. i.bucket = b
      BY <1>6, <1>8, ItemBelow
    <3> QED BY <1>10, <2>1, <3>1
  <2> QED BY <1>2, <2>1 DEF Keyed
<1>11. \A d : Children(0, d)' = Children(0, d)
  BY <1>2 DEF Children, Rows
<1>12. q.pc \in ClearPCs /\ r.pc \notin ClearPCs /\ r.pc \in ActivePCs
  BY <1>2, <1>5 DEF ClearPCs
<1>13. ASSUME Working(q), ~overlap PROVE Working(r)'
  <2>1. Standing(r)'
    BY <1>2, <1>5, <1>12, <1>13 DEF Working, Standing
  <2>2. Final(r)'
    <3>1. Left(r) = Left(q)
      BY <1>2, <1>5 DEF Left
    <3> QED BY <1>2, <1>13, <3>1 DEF Working, Final, Left, Rows
  <2>3. ASSUME SimpleSelections PROVE Loaded(r)'
    <3>1. Waiting(r)' = Waiting(q)
      BY <1>2, <1>5 DEF Waiting, InWork
    <3>2. Wanted(q.at, listed[b]) = KeysOf(Waiting(q))
      BY <1>1, <1>2, <1>12, <1>13, <2>3 DEF Working, Loaded
    <3>3. /\ \A p \in q.todo : q.own[p[1]] = 0 /\ p[1] # q.at[1]
          /\ \A p, s \in q.todo : p[1] = s[1] => p = s
      BY <1>2, <1>13, <2>3 DEF Working, Loaded
    <3> QED BY <1>1, <1>2, <1>5, <1>9, <1>12, <1>13, <3>1, <3>2, <3>3 DEF Loaded
  <2>4. ASSUME SimpleSelections, NEW d \in Buckets
        PROVE  Busy(r, d)' \/ Children(0, d)' = {} \/ Stored(d)'
    <3>1. CASE d = b
      BY <1>1, <1>5, <3>1 DEF Busy
    <3>2. CASE d # b
      <4>1. Children(0, d) = {} \/ Stored(d)
        BY <1>1, <1>13, <2>4, <3>2 DEF Working, Others, Busy
      <4>2. Stored(d) => Stored(d)'
        BY <1>2, <1>10, <3>2 DEF Stored
      <4> QED BY <1>11, <4>1, <4>2
    <3> QED BY <3>1, <3>2
  <2> QED BY <2>1, <2>2, <2>3, <2>4 DEF Working, Others
<1> QED BY <1>1, <1>2, <1>4, <1>12, <1>13, WorkMoved

\* An object is written: its key is no longer waiting.
LEMMA WorkInsertItem ==
  ASSUME ScanInv, OneByOne, CountInv, WorkInv, NEW w \in Requests, InsertItem(w)
  PROVE  WorkInv'
<1>1. PICK q, b : q = req[w] /\ b = q.at[1]
  OBVIOUS
<1>2. /\ q \in Progress /\ Informed(q) /\ q.pc = "insert" /\ Active(w)
      /\ UNCHANGED <<overlap, faults, node, listed>>
  BY <1>1, Before DEF InsertItem, Active, envVars
<1>3. CASE overlap \/ faults # 0
  BY <1>2, <1>3, WorkDisturbed
<1>4. CASE ~overlap /\ faults = 0
  <2>1. Working(q) /\ Counting(q)
    BY <1>1, <1>2, <1>4 DEF WorkInv, CountInv
  <2>2. q.pc \in PathPCs \ {"list"} /\ q.pc \notin ClearPCs /\ q.chain # <<>>
    BY <1>2 DEF Informed, ClearPCs
  <2>3. node[Last(q.chain)] # None
    BY <2>1, <2>2 DEF Working, Standing
  <2>4. SameItem(q) = {}
    <3> SUFFICES ASSUME SameItem(q) # {} PROVE FALSE
      OBVIOUS
    <3>1. q.obj.rel \in Filed(b)
      BY <1>1, <1>2, FilingOf, SameItemFiled
    <3>2. q.obj \in Waiting(q)
      BY <1>2 DEF Waiting, InWork
    <3> QED BY <1>1, <2>1, <2>2, <3>1, <3>2 DEF Counting, Queued
  <2>5. PICK i : i = ItemRow(q)
    OBVIOUS
  <2>6. i.node = Last(q.chain) /\ i.bucket = b /\ i.key = q.obj.key
    BY <1>1, <2>5 DEF ItemRow
  <2>7. items' = items \cup {i} /\ Counted(w)
    BY <1>1, <2>3, <2>4, <2>5, <2>6 DEF InsertItem
  <2>8. PICK r : /\ req' = [req EXCEPT ![w] = r]
                 /\ r.pc = "meta" /\ r.own = q.own /\ r.at = q.at /\ r.todo = q.todo
                 /\ r.chain = q.chain /\ r.objs = q.objs /\ r.obj = q.obj
                 /\ DOMAIN r.stat = DOMAIN q.stat \cup Range(q.chain)
    BY <1>1, <2>7, CountedFacts
  <2>9. r.pc \in ActivePCs /\ r.pc \notin ClearPCs
    BY <2>8 DEF ClearPCs
  <2>10. Standing(r)'
    BY <1>2, <2>3, <2>8, <2>9 DEF Standing
  <2>11. Final(r)'
    <3>1. Left(q) \subseteq Left(r)
      BY <1>2, <2>8 DEF Left
    <3> QED BY <1>2, <2>1, <3>1 DEF Working, Final, Left, Rows
  <2>12. Keyed(b)' = Keyed(b) \cup {q.obj.key} /\ \A d : d # b => Keyed(d)' = Keyed(d)
    BY <2>6, <2>7 DEF Keyed
  <2>13. ASSUME SimpleSelections PROVE Loaded(r)'
    <3>1. Waiting(r)' = q.objs /\ Waiting(q) = q.objs \cup {q.obj}
      BY <1>2, <2>8 DEF Waiting, InWork
    <3>2. Wanted(q.at, listed[b]) = KeysOf(Waiting(q)) \cup Keyed(b)
      BY <1>1, <2>1, <2>2, <2>13 DEF Working, Loaded
    <3>3. KeysOf(Waiting(q)) = KeysOf(q.objs) \cup {q.obj.key}
      BY <3>1 DEF KeysOf
    <3>4. Wanted(q.at, listed[b]) = KeysOf(q.objs) \cup Keyed(b)'
      BY <2>12, <3>2, <3>3
    <3>5. /\ \A p \in q.todo : q.own[p[1]] = 0 /\ p[1] # q.at[1]
          /\ \A p, s \in q.todo : p[1] = s[1] => p = s
      BY <1>2, <2>1, <2>13 DEF Working, Loaded
    <3> QED BY <1>1, <1>2, <2>2, <2>8, <2>9, <3>1, <3>4, <3>5 DEF Loaded
  <2>14. ASSUME SimpleSelections, NEW d \in Buckets
         PROVE  Busy(r, d)' \/ Children(0, d)' = {} \/ Stored(d)'
    <3>1. CASE d = b
      BY <1>1, <2>8, <3>1 DEF Busy
    <3>2. CASE d # b
      <4>1. Children(0, d) = {} \/ Stored(d)
        BY <1>1, <2>1, <2>14, <3>2 DEF Working, Others, Busy
      <4>2. Stored(d) => Stored(d)'
        BY <1>2, <2>12, <3>2 DEF Stored
      <4>3. Children(0, d)' = Children(0, d)
        BY <1>2 DEF Children, Rows
      <4> QED BY <4>1, <4>2, <4>3
    <3> QED BY <3>1, <3>2
  <2>15. Working(r)'
    BY <2>10, <2>11, <2>13, <2>14 DEF Working, Others
  <2> QED BY <1>1, <1>2, <2>8, <2>9, <2>15, WorkMoved
<1> QED BY <1>3, <1>4

LEMMA WorkUpdateItem ==
  ASSUME CountInv, WorkInv, NEW w \in Requests, UpdateItem(w) PROVE WorkInv'
<1>1. UNCHANGED <<overlap, faults, listed>> /\ req[w].pc = "updateitem" /\ Active(w)
  BY DEF UpdateItem, envVars, Active
<1>2. overlap
  BY <1>1 DEF CountInv, Counting
<1> QED BY <1>1, <1>2, WorkDisturbed

LEMMA WorkFinalize ==
  ASSUME ScanInv, OneByOne, WorkInv, NEW w \in Requests, Finalize(w) PROVE WorkInv'
<1>1. PICK q : q = req[w]
  OBVIOUS
<1>2. /\ q \in Progress /\ q.pc = "final" /\ Active(w)
      /\ UNCHANGED <<overlap, faults, items, listed>>
  BY <1>1, Before DEF Finalize, Active, envVars
<1>3. PICK left : left = ToFinalize(w)
  OBVIOUS
<1>4. DOMAIN left = Left(q)
  BY <1>1, <1>2, <1>3 DEF ToFinalize, Left
<1>5. ASSUME Working(q), SimpleSelections, NEW b \in Buckets
      PROVE  Children(0, b) = {} \/ Stored(b)
  BY <1>2, <1>5 DEF Working, Others, Busy
<1>6. CASE /\ DOMAIN left = {} /\ UNCHANGED node
           /\ Set(w, Fresh(IF q.auto THEN "path" ELSE "done", q.auto, q.todo))
  <2>1. PICK pc : pc \in {"path", "done"} /\ Set(w, Fresh(pc, q.auto, q.todo))
    BY <1>6
  <2>2. PICK r : r = Fresh(pc, q.auto, q.todo)
    OBVIOUS
  <2>3. Working(q) => Settled
    BY <1>4, <1>5, <1>6 DEF Working, Final, Settled
  <2>4. Working(q) => Working(r)
    <3>1. q.todo \in SUBSET Paths
      BY <1>2 DEF Progress
    <3>2. Working(q) /\ SimpleSelections => \A p, s \in q.todo : p[1] = s[1] => p = s
      BY DEF Working, Loaded
    <3> QED BY <2>1, <2>2, <2>3, <3>1, <3>2, WorkFresh
  <2>5. req' = [req EXCEPT ![w] = r]
    BY <2>1, <2>2 DEF Set
  <2> QED BY <1>1, <1>2, <1>6, <2>3, <2>4, <2>5, WorkMovedOn
<1>7. ASSUME NEW n \in DOMAIN left,
             node' = [node EXCEPT ![n] =
                       IF @ = None THEN @
                       ELSE [@ EXCEPT !.status = Scanned, !.count = left[n]]],
             Set(w, [req[w] EXCEPT
                        !.own = [b \in Buckets |-> 0],
                        !.stat = [m \in DOMAIN left \ {n} |-> left[m]]])
      PROVE  WorkInv'
  <2>1. PICK own, stat : /\ own = [b \in Buckets |-> 0]
                         /\ stat = [m \in DOMAIN left \ {n} |-> left[m]]
    OBVIOUS
  <2>2. PICK r : r = [q EXCEPT !.own = own, !.stat = stat]
    OBVIOUS
  <2>3. /\ r.pc = "final" /\ r.own = own /\ r.stat = stat /\ r.todo = q.todo
        /\ Range(own) \subseteq {0}
    BY <1>2, <2>1, <2>2 DEF Progress, Range
  <2>4. req' = [req EXCEPT ![w] = r]
    BY <1>1, <1>7, <2>1, <2>2 DEF Set
  <2>5. ASSUME NEW m \in NodeIds
        PROVE  /\ node'[m] = None <=> node[m] = None
               /\ node[m] # None =>
                     /\ SameShape(m)
                     /\ node'[m].status = IF m = n THEN Scanned ELSE node[m].status
    <3>1. node[m] \in MetaNode \cup {None}
      BY DEF ScanInv, Types, RowsTyped
    <3>2. CASE m = n /\ node[n] # None
      <4>1. PICK row : row = [node[n] EXCEPT !.status = Scanned, !.count = left[n]]
        OBVIOUS
      <4>2. node'[n] = row /\ node[n] \in MetaNode
        BY <1>7, <3>1, <3>2, <4>1 DEF ScanInv, Types, RowsTyped
      <4>3. left[n] \in Nat
        <5>1. \A k \in DOMAIN q.stat : q.stat[k] \in Nat
          BY <1>2 DEF Progress
        <5>2. left[n] = IF n \in DOMAIN q.stat THEN q.stat[n] ELSE 0
          BY <1>1, <1>3, <1>7 DEF ToFinalize
        <5> QED BY <5>1, <5>2
      <4>4. row \in MetaNode
        BY <4>1, <4>2, <4>3 DEF MetaNode
      <4>5. node'[n] # None
        BY <4>2, <4>4, ConstantsAssumption DEF ConstantsAssumption
      <4>6. row.parent = node[n].parent /\ row.name = node[n].name /\ row.status = Scanned
        BY <4>1, <4>2 DEF MetaNode
      <4> QED BY <3>2, <4>2, <4>5, <4>6 DEF SameShape
    <3>3. CASE ~(m = n /\ node[n] # None)
      <4>1. node'[m] = node[m]
        BY <1>7, <3>3 DEF ScanInv, Types, RowsTyped
      <4> QED BY <3>3, <4>1 DEF SameShape
    <3> QED BY <3>2, <3>3
  <2>6. Rows' = Rows /\ \A m \in Rows : SameShape(m)
    BY <2>5 DEF Rows
  <2>7. /\ \A b : Stored(b)' = Stored(b)
        /\ \A b : Children(0, b)' = Children(0, b)
    BY <1>2, <2>6, StoredSame
  <2>8. r.pc \in ActivePCs /\ r.pc \notin PathPCs /\ r.pc \notin ClearPCs
    BY <2>3 DEF ClearPCs
  <2>9. ASSUME Working(q) PROVE Working(r)'
    <3>1. Standing(r)'
      BY <2>3, <2>8 DEF Standing
    <3>2. Final(r)'
      <4>1. Left(r) = Left(q) \ {n}
        BY <1>4, <2>1, <2>3 DEF Left
      <4>2. \A m \in Rows : m \in NodeIds /\ node[m] # None
        BY DEF Rows
      <4>3. \A m \in Rows : node'[m].status = Scanned \/ m \in Left(r)
        BY <2>5, <2>9, <4>1, <4>2 DEF Working, Final
      <4>4. Left(r)' = Left(r)
        BY DEF Left
      <4> QED BY <2>6, <4>3, <4>4 DEF Final
    <3>3. SimpleSelections => Loaded(r)'
      <4>1. \A p \in r.todo : r.own[p[1]] = 0
        <5>1. \A p \in q.todo : p[1] \in Buckets
          BY <1>2, PathsOf DEF Progress
        <5> QED BY <2>1, <2>3, <5>1
      <4> QED BY <2>3, <2>8, <2>9, <4>1 DEF Working, Loaded
    <3>4. SimpleSelections => Others(r)'
      BY <1>5, <2>7, <2>9 DEF Others
    <3> QED BY <3>1, <3>2, <3>3, <3>4 DEF Working
  <2> QED BY <1>1, <1>2, <2>4, <2>8, <2>9, WorkMoved
<1> QED BY <1>1, <1>3, <1>6, <1>7 DEF Finalize

LEMMA WorkStep ==
  ASSUME ScanInv, OneByOne, CountInv, WorkInv, NEW w \in Requests, Step(w) PROVE WorkInv'
<1>1. CASE NextPath(w) \/ ScanPath(w) \/ UpsertRead(w) \/ UpsertCreate(w) \/ UpsertUpdate(w)
  BY <1>1, WorkNextPath, WorkScanPath, WorkUpsertRead, WorkUpsertCreate, WorkUpsertUpdate
<1>2. CASE ResetBucket(w) \/ DeleteDescendants(w) \/ DeleteBucketItems(w) \/ NextMeta(w)
  BY <1>2, WorkResetBucket, WorkDeleteDescendants, WorkDeleteBucketItems, WorkNextMeta
<1>3. CASE ItemRead(w) \/ InsertItem(w) \/ UpdateItem(w) \/ Finalize(w)
  BY <1>3, WorkItemRead, WorkInsertItem, WorkUpdateItem, WorkFinalize
<1> QED BY <1>1, <1>2, <1>3 DEF Step

LEMMA WorkInit == Init => WorkInv
<1> SUFFICES ASSUME Init PROVE WorkInv
  OBVIOUS
<1>1. PICK f : f = Fresh("idle", FALSE, {})
  OBVIOUS
<1>2. f.pc = "idle"
  BY <1>1 DEF Fresh
<1>3. /\ node = [n \in NodeIds |-> None] /\ req = [w \in Requests |-> f]
      /\ listed = [b \in Buckets |-> {}] /\ faults = 0
  BY <1>1 DEF Init
<1>4. Rows = {} /\ \A w \in Requests : ~Active(w)
  BY <1>2, <1>3 DEF Rows, Active
<1>5. \A b : Children(0, b) = {}
  BY <1>4 DEF Children
<1> QED BY <1>3, <1>4, <1>5 DEF WorkInv, Settled

\* A scan that no other one overlaps, and that nothing disturbs, finds the rows
\* that it needs and has all rows that it has touched still to finalize; what it
\* has written and what it has still to write is what it has found.
THEOREM WorkInvariant == ASSUME SelectedOnce PROVE ExplorerSpec => []WorkInv
<1>1. ScanInv /\ OneByOne /\ CountInv /\ WorkInv /\ [ExplorerNext]_vars => WorkInv'
  <2> SUFFICES ASSUME ScanInv, OneByOne, CountInv, WorkInv, [ExplorerNext]_vars
               PROVE  WorkInv'
    OBVIOUS
  <2>1. ASSUME NEW w \in Requests, BeginAuto(w) \/ BeginManual(w) \/ Step(w) PROVE WorkInv'
    BY <2>1, WorkBegin, WorkStep
  <2>2. ASSUME NEW w \in Requests, ScanPathLossy(w) \/ StatementFails(w) PROVE WorkInv'
    BY <2>2, WorkFails DEF ScanPathLossy, StatementFails, envVars
  <2>3. CASE Crash
    BY <2>3, WorkFails DEF Crash, envVars
  <2>4. CASE UNCHANGED <<node, items, listed, overlap, req, faults>>
    BY <2>4, WorkElsewhere
  <2>5. ASSUME NEW b \in Buckets, StoreChange(b)
        PROVE  UNCHANGED <<node, items, listed, overlap, req, faults>>
    BY <2>5 DEF StoreChange, dbVars
  <2>6. CASE Explore
    <3>1. UNCHANGED <<node, items, listed, overlap, req, faults>>
      BY <2>6 DEF Explore, ReadTops, ReadNodes, ReadItems, dbVars
    <3> QED BY <2>4, <3>1
  <2>7. CASE UNCHANGED vars
    BY <2>4, <2>7 DEF vars, scanVars
  <2> QED BY <2>1, <2>2, <2>3, <2>4, <2>5, <2>6, <2>7 DEF ExplorerNext, ScanNext
<1> QED BY <1>1, WorkInit, ScanInvariant, OneRowPerBucket, CountInvariant, PTL DEF ExplorerSpec

-----------------------------------------------------------------------------
(* What a bucket holds *)

\* The row of a bucket has the name of a bucket of the store.
TopsNamed == \A n \in Rows : node[n].parent = 0 => node[n].name \in Buckets

LEMMA NamedStep == ASSUME TopsNamed, SameTops PROVE TopsNamed'
<1> SUFFICES ASSUME NEW n \in Rows', node'[n].parent = 0 PROVE node'[n].name \in Buckets
  BY DEF TopsNamed
<1>1. n \in Rows /\ node[n].parent = 0 /\ node[n].name = node'[n].name
  BY DEF SameTops
<1> QED BY <1>1 DEF TopsNamed

LEMMA NamedCreate ==
  ASSUME ScanInv, TopsNamed, NEW w \in Requests, UpsertCreate(w) PROVE TopsNamed'
<1>1. CASE UNCHANGED node
  BY <1>1, NamedStep, SameTopsOf
<1>2. ASSUME NEW n \in FreshIds, NEW row,
             row = [parent |-> Parent(w), name |-> Head(req[w].segs), pathed |-> FALSE,
                    status |-> Unscanned, count |-> 0],
             node' = [node EXCEPT ![n] = row]
      PROVE  TopsNamed'
  <2>1. /\ req[w] \in Progress /\ Informed(req[w]) /\ req[w].pc = "create"
    BY Before DEF UpsertCreate
  <2>2. row.parent = Parent(w) /\ row.name = Head(req[w].segs)
    BY <1>2
  <2>3. Parent(w) = 0 => Head(req[w].segs) \in Buckets
    <3>1. req[w].chain # <<>> => Parent(w) # 0
      BY <2>1, ChainEnds, ConstantsAssumption DEF Parent, ConstantsAssumption
    <3>2. req[w].at[1] \in Buckets
      BY <2>1, PathsOf DEF Informed
    <3>3. req[w].chain = <<>> => Head(req[w].segs) = req[w].at[1]
      BY <2>1 DEF Informed
    <3> QED BY <3>1, <3>2, <3>3
  <2>4. n \in NodeIds
    BY FreshFacts
  <2>5. node'[n] = row /\ \A m \in NodeIds \ {n} : node'[m] = node[m]
    BY <1>2, <2>4 DEF ScanInv, Types, RowsTyped
  <2> SUFFICES ASSUME NEW m \in Rows', node'[m].parent = 0 PROVE node'[m].name \in Buckets
    BY DEF TopsNamed
  <2>6. m \in NodeIds /\ node'[m] # None
    BY DEF Rows
  <2>7. CASE m = n
    BY <2>2, <2>3, <2>5, <2>7
  <2>8. CASE m # n
    BY <2>5, <2>6, <2>8 DEF TopsNamed, Rows
  <2> QED BY <2>7, <2>8
<1>3. \/ UNCHANGED node
      \/ \E n \in FreshIds :
            node' = [node EXCEPT ![n] =
               [parent |-> Parent(w), name |-> Head(req[w].segs), pathed |-> FALSE,
                status |-> Unscanned, count |-> 0]]
  BY DEF UpsertCreate
<1> QED BY <1>1, <1>2, <1>3

LEMMA NamedElse ==
  ASSUME ScanInv, NEW w \in Requests,
         \/ UpsertUpdate(w) \/ ResetBucket(w) \/ DeleteDescendants(w) \/ Finalize(w)
  PROVE  SameTops
<1>1. CASE UpsertUpdate(w)
  <2>1. PICK n : node' = [node EXCEPT ![n] = IF @ = None THEN @ ELSE [@ EXCEPT !.pathed = TRUE]]
    BY <1>1 DEF UpsertUpdate
  <2> QED BY <2>1 DEF SameTops, Rows, ScanInv, Types, RowsTyped, MetaNode
<1>2. CASE ResetBucket(w)
  <2>1. PICK n : node' = [node EXCEPT ![n].status = Scanning] /\ n = req[w].chain[1]
    BY <1>2 DEF ResetBucket
  <2>2. TopOf(n, req[w].at[1])
    BY <1>2, <2>1, Before DEF Informed, ResetBucket
  <2> QED BY <2>1, <2>2 DEF SameTops, Rows, ScanInv, Types, RowsTyped, MetaNode, TopOf
<1>3. CASE DeleteDescendants(w)
  BY <1>3 DEF DeleteDescendants, SameTops, Rows
<1>4. ASSUME NEW n, NEW count,
             node' = [node EXCEPT ![n] =
                       IF @ = None THEN @
                       ELSE [@ EXCEPT !.status = Scanned, !.count = count]]
      PROVE  SameTops
  BY <1>4 DEF SameTops, Rows, ScanInv, Types, RowsTyped, MetaNode
<1>5. CASE Finalize(w)
  <2>1. \/ UNCHANGED node
        \/ \E n, count : node' = [node EXCEPT ![n] =
              IF @ = None THEN @ ELSE [@ EXCEPT !.status = Scanned, !.count = count]]
    BY <1>5 DEF Finalize
  <2> QED BY <1>4, <2>1, SameTopsOf
<1> QED BY <1>1, <1>2, <1>3, <1>5

LEMMA TopsAreNamed == ExplorerSpec => []TopsNamed
<1>1. ScanInv /\ TopsNamed /\ [ExplorerNext]_vars => TopsNamed'
  <2> SUFFICES ASSUME ScanInv, TopsNamed, [ExplorerNext]_vars PROVE TopsNamed'
    OBVIOUS
  <2>1. CASE UNCHANGED node
    BY <2>1, SameTopsOf, NamedStep
  <2>2. ASSUME NEW w \in Requests, Step(w) PROVE TopsNamed'
    <3>1. CASE NextPath(w) \/ ScanPath(w) \/ UpsertRead(w) \/ NextMeta(w) \/ ItemRead(w)
      BY <2>1, <3>1 DEF NextPath, ScanPath, UpsertRead, NextMeta, ItemRead, dbVars
    <3>2. CASE DeleteBucketItems(w) \/ InsertItem(w) \/ UpdateItem(w)
      BY <2>1, <3>2 DEF DeleteBucketItems, InsertItem, UpdateItem
    <3>3. CASE UpsertCreate(w)
      BY <3>3, NamedCreate
    <3>4. CASE UpsertUpdate(w) \/ ResetBucket(w) \/ DeleteDescendants(w) \/ Finalize(w)
      BY <3>4, NamedElse, NamedStep
    <3> QED BY <2>2, <3>1, <3>2, <3>3, <3>4 DEF Step
  <2>3. ASSUME NEW w \in Requests, \/ BeginAuto(w) \/ BeginManual(w)
                                   \/ ScanPathLossy(w) \/ StatementFails(w)
        PROVE  UNCHANGED node
    BY <2>3 DEF BeginAuto, BeginManual, Begin, ScanPathLossy, StatementFails, dbVars
  <2>4. ASSUME Crash \/ \E b \in Buckets : StoreChange(b) PROVE UNCHANGED node
    BY <2>4 DEF Crash, StoreChange, dbVars
  <2>5. ASSUME Explore PROVE UNCHANGED node
    BY <2>5 DEF Explore, ReadTops, ReadNodes, ReadItems, dbVars
  <2>6. ASSUME UNCHANGED vars PROVE UNCHANGED node
    BY <2>6 DEF vars, scanVars
  <2> QED BY <2>1, <2>2, <2>3, <2>4, <2>5, <2>6 DEF ExplorerNext, ScanNext
<1>2. Init => TopsNamed
  <2> SUFFICES ASSUME Init PROVE TopsNamed
    OBVIOUS
  <2>1. Rows = {}
    BY DEF Init, Rows
  <2> QED BY <2>1 DEF TopsNamed
<1> QED BY <1>1, <1>2, ScanInvariant, PTL DEF ExplorerSpec

LEMMA BucketsRight ==
  ASSUME SimpleSelections, ScanInv, OneByOne, WorkInv, TopsNamed PROVE BucketExact
<1> SUFFICES ASSUME ~overlap, faults = 0, \A w \in Requests : ~Active(w),
                    NEW n \in Rows, node[n].parent = 0
             PROVE  \E p \in Paths :
                       {i.key : i \in {j \in items : n \in IdPath[j.node]}} =
                           {k \in listed[node[n].name] :
                               IsPrefix(p[2], k) /\ ~HasReserved(k) /\ Last(k) # Marker}
  BY DEF BucketExact, Paths
<1>1. Settled /\ TopsOnce
  BY DEF WorkInv, OneByOne
<1>2. PICK b : b = node[n].name
  OBVIOUS
<1>3. b \in Buckets /\ TopOf(n, b) /\ n \in Children(0, b)
  BY <1>2 DEF TopsNamed, TopOf, Children
<1>4. PICK p \in Paths : Keyed(b) = Wanted(p, listed[b])
  BY <1>1, <1>3 DEF Settled, Stored
<1>5. {j \in items : n \in IdPath[j.node]} = {j \in items : j.bucket = b}
  BY <1>1, <1>3, ItemTop, ItemBelow
<1>6. {i.key : i \in {j \in items : n \in IdPath[j.node]}} = Keyed(b)
  BY <1>5 DEF Keyed
<1> QED BY <1>2, <1>4, <1>6 DEF Wanted

LEMMA SimpleIsDisjoint == ASSUME SimpleSelections PROVE SelectedOnce
  BY DEF SimpleSelections, SelectedOnce, Disjoint

\* If scans neither overlap nor are disturbed, a bucket that is shown as scanned
\* holds exactly the objects of a path of it as they were when it was listed,
\* provided that a request has one path per bucket (persistObjectMetas).
THEOREM BucketsAreExact == ASSUME SimpleSelections PROVE ExplorerSpec => []BucketExact
<1>1. SelectedOnce
  BY SimpleIsDisjoint
<1>2. ScanInv /\ OneByOne /\ WorkInv /\ TopsNamed => BucketExact
  BY BucketsRight
<1>3. ExplorerSpec => []WorkInv
  BY <1>1, WorkInvariant
<1> QED BY <1>2, <1>3, ScanInvariant, OneRowPerBucket, TopsAreNamed, PTL

-----------------------------------------------------------------------------
(* What a directory of the tree counts *)

\* Sequence s begins with sequence a.
Begins(a, s) == Len(a) <= Len(s) /\ \A i \in 1 .. Len(a) : s[i] = a[i]

LEMMA BeginsAppended ==
  ASSUME NEW a \in Seq(Names), NEW s \in Seq(Names), NEW x \in Names
  PROVE  /\ Begins(a, Append(s, x)) <=> Begins(a, s) \/ a = Append(s, x)
         /\ IsStrictPrefix(a, Append(s, x)) <=> Begins(a, s)
<1>1. PICK t : t = Append(s, x)
  OBVIOUS
<1>2. /\ t \in Seq(Names) /\ Len(s) \in Nat /\ Len(t) = Len(s) + 1 /\ Len(a) \in Nat
      /\ \A i \in 1 .. Len(s) : t[i] = s[i]
  BY <1>1, Appended
<1>3. ASSUME Len(a) <= Len(s)
      PROVE  (\A i \in 1 .. Len(a) : t[i] = a[i]) <=> (\A i \in 1 .. Len(a) : s[i] = a[i])
  BY <1>2, <1>3
<1>4. IsStrictPrefix(a, t) <=> Begins(a, s)
  <2>1. Len(a) < Len(t) <=> Len(a) <= Len(s)
    BY <1>2
  <2>2. IsStrictPrefix(a, t) <=> Len(a) < Len(t) /\ \A i \in 1 .. Len(a) : t[i] = a[i]
    BY <1>2, StrictPrefixOf
  <2> QED BY <1>3, <2>1, <2>2 DEF Begins
<1>5. ASSUME Begins(a, t), Len(a) > Len(s) PROVE a = t
  <2>1. Len(a) = Len(t)
    BY <1>2, <1>5 DEF Begins
  <2>2. \A i \in 1 .. Len(a) : a[i] = t[i]
    BY <1>5 DEF Begins
  <2> QED BY <1>2, <2>1, <2>2, SameSequence
<1>6. Begins(a, s) => Begins(a, t)
  BY <1>2, <1>3 DEF Begins
<1>7. a = t => Begins(a, t)
  BY <1>2 DEF Begins
<1>8. Begins(a, t) /\ Len(a) <= Len(s) => Begins(a, s)
  BY <1>3 DEF Begins
<1>9. Len(a) <= Len(s) \/ Len(a) > Len(s)
  BY <1>2
<1> QED BY <1>1, <1>4, <1>5, <1>6, <1>7, <1>8, <1>9

LEMMA BeginsOne ==
  ASSUME NEW a \in Seq(Names), a # <<>>, NEW x \in Names
  PROVE  Begins(a, <<x>>) <=> a = <<x>>
<1>1. PICK t : t = <<x>>
  OBVIOUS
<1>2. t \in Seq(Names) /\ Len(t) = 1 /\ Len(a) \in Nat /\ Len(a) > 0
  BY <1>1
<1>3. ASSUME Begins(a, t) PROVE a = t
  <2>1. Len(a) = Len(t) /\ \A i \in 1 .. Len(a) : a[i] = t[i]
    BY <1>2, <1>3 DEF Begins
  <2> QED BY <1>2, <2>1, SameSequence
<1>4. Begins(a, a)
  BY <1>2 DEF Begins
<1> QED BY <1>1, <1>3, <1>4

\* The rows above a row are those whose segments its segments begin with, if no
\* bucket has two rows.
LEMMA AboveByName ==
  ASSUME ScanInv, TopsOnce, NEW n \in Rows, NEW k \in Rows
  PROVE  n \in IdPath[k] <=> Begins(Segments[n], Segments[k])
<1>1. Forest /\ SegmentsDefined /\ IdPathDefined
  BY SegmentsExist, IdPathExists DEF ScanInv
<1>2. PICK height \in Nat : \E rank \in [NodeIds -> 0 .. height] :
         \A m \in Rows : node[m].parent # 0 => rank[node[m].parent] < rank[m]
  BY <1>1 DEF Forest, Ranked
<1>3. PICK rank \in [NodeIds -> 0 .. height] :
         \A m \in Rows : node[m].parent # 0 => rank[node[m].parent] < rank[m]
  BY <1>2
<1> DEFINE Good(m) == n \in IdPath[m] <=> Begins(Segments[n], Segments[m])
           Bad == {m \in Rows : ~Good(m)}
<1> SUFFICES ASSUME Bad # {} PROVE FALSE
  OBVIOUS
<1>4. PICK m \in Bad : \A l \in Bad : rank[m] <= rank[l]
  <2>1. {rank[l] : l \in Bad} \in SUBSET Nat /\ {rank[l] : l \in Bad} # {}
    BY DEF Rows
  <2>2. PICK l \in {rank[i] : i \in Bad} : \A i \in {rank[j] : j \in Bad} : l <= i
    BY <2>1, LeastElement
  <2> QED BY <2>2
<1>5. m \in Rows /\ m \in NodeIds /\ node[m] # None /\ node[m].name \in Names
  BY <1>1, <1>4, RowFields DEF Rows, Forest
<1>6. PICK a, x, p : a = Segments[n] /\ x = node[m].name /\ p = node[m].parent
  OBVIOUS
<1>7. a \in Seq(Names) /\ a # <<>> /\ x \in Names
  BY <1>1, <1>5, <1>6, Lineage DEF Lined, SegmentsDefined, Rows
<1>8. a = Segments[m] <=> n = m
  BY <1>5, <1>6, SegmentsDiffer
<1>9. CASE p = 0
  <2>1. IdPath[m] = {m} /\ Segments[m] = <<x>>
    BY <1>1, <1>5, <1>6, <1>9 DEF SegmentsDefined, IdPathDefined
  <2>2. Begins(a, <<x>>) <=> a = <<x>>
    BY <1>7, BeginsOne
  <2>3. Begins(a, Segments[m]) <=> n \in IdPath[m]
    BY <1>8, <2>1, <2>2
  <2> QED BY <1>4, <1>6, <2>3
<1>10. CASE p # 0
  <2>1. p \in Rows /\ p \in NodeIds
    BY <1>1, <1>5, <1>6, <1>10, RowFields DEF Forest, TreeSound, Rows
  <2>2. PICK s : s = Segments[p]
    OBVIOUS
  <2>3. /\ IdPath[m] = IdPath[p] \cup {m} /\ Segments[m] = Append(s, x) /\ s \in Seq(Names)
    BY <1>1, <1>5, <1>6, <1>10, <2>1, <2>2 DEF SegmentsDefined, IdPathDefined
  <2>4. Good(p)
    <3>1. rank[p] < rank[m] /\ rank[p] \in Nat /\ rank[m] \in Nat
      BY <1>3, <1>5, <1>6, <1>10, <2>1
    <3> QED BY <1>4, <2>1, <3>1
  <2>5. Begins(a, Append(s, x)) <=> Begins(a, s) \/ a = Append(s, x)
    BY <1>7, <2>3, BeginsAppended
  <2>6. Begins(a, s) <=> n \in IdPath[p]
    BY <1>6, <2>2, <2>4
  <2>7. Begins(a, Segments[m]) <=> n \in IdPath[m]
    BY <1>8, <2>3, <2>5, <2>6
  <2> QED BY <1>4, <1>6, <2>7
<1> QED BY <1>9, <1>10

\* A reader who holds all rows shows all of them.
LEMMA AllShown ==
  ASSUME ScanInv, view.rows = [n \in Rows |-> node[n]] PROVE ShownRows = Rows
<1>1. ShownDefined /\ DOMAIN view.rows = Rows /\ Forest
  BY ShownExists DEF ScanInv
<1>2. PICK height \in Nat : \E rank \in [NodeIds -> 0 .. height] :
         \A m \in Rows : node[m].parent # 0 => rank[node[m].parent] < rank[m]
  BY <1>1 DEF Forest, Ranked
<1>3. PICK rank \in [NodeIds -> 0 .. height] :
         \A m \in Rows : node[m].parent # 0 => rank[node[m].parent] < rank[m]
  BY <1>2
<1> DEFINE Bad == {m \in Rows : ShownAt[m] = <<>>}
<1> SUFFICES ASSUME Bad # {} PROVE FALSE
  BY <1>1 DEF ShownRows
<1>4. PICK m \in Bad : \A l \in Bad : rank[m] <= rank[l]
  <2>1. {rank[l] : l \in Bad} \in SUBSET Nat /\ {rank[l] : l \in Bad} # {}
    BY DEF Rows
  <2>2. PICK l \in {rank[i] : i \in Bad} : \A i \in {rank[j] : j \in Bad} : l <= i
    BY <2>1, LeastElement
  <2> QED BY <2>2
<1>5. /\ m \in Rows /\ m \in NodeIds /\ node[m] # None /\ node[m].name \in Names
      /\ view.rows[m] = node[m] /\ ShownAt[m] = <<>>
  BY <1>1, <1>4, RowFields DEF Rows, Forest
<1>6. node[m].parent # 0
  <2>1. <<node[m].name>> # <<>>
    OBVIOUS
  <2> QED BY <1>1, <1>5, <2>1 DEF ShownDefined
<1>7. PICK p : p = node[m].parent
  OBVIOUS
<1>8. p \in Rows /\ p \in NodeIds /\ p \in DOMAIN view.rows
  BY <1>1, <1>5, <1>6, <1>7, RowFields DEF Forest, TreeSound, Rows
<1>9. ShownAt[p] # <<>>
  <2>1. rank[p] < rank[m] /\ rank[p] \in Nat /\ rank[m] \in Nat
    BY <1>3, <1>5, <1>6, <1>7, <1>8
  <2> QED BY <1>4, <1>8, <2>1
<1>10. ShownAt[m] = Append(ShownAt[p], node[m].name) /\ ShownAt[p] \in Seq(Names)
  BY <1>1, <1>5, <1>6, <1>7, <1>8, <1>9 DEF ShownDefined
<1> QED BY <1>5, <1>10, Appended

\* The entries of the tree below a row are as many as the items below it.
LEMMA EntriesBelow ==
  ASSUME ScanInv, TopsOnce, IsFiniteSet(items), ShownRows = Rows, NEW n \in Rows
  PROVE  Cardinality({e \in ObjectEntries : IsStrictPrefix(ShownAt[n], e.path)})
            = Cardinality(Under(n))
<1> DEFINE entry(i) == [path |-> Append(ShownAt[i.node], i.name), item |-> i]
           Nested == {e \in ObjectEntries : IsStrictPrefix(ShownAt[n], e.path)}
           f == [i \in Under(n) |-> entry(i)]
<1>1. \A m \in Rows : ShownAt[m] = Segments[m] /\ Segments[m] \in Seq(Names)
  BY ShownInPlace, SegmentsExist DEF Rows, ScanInv, SegmentsDefined
<1>2. ASSUME NEW i \in items
      PROVE  /\ i.node \in Rows /\ i.name \in Names
             /\ IsStrictPrefix(ShownAt[n], Append(ShownAt[i.node], i.name)) <=> n \in IdPath[i.node]
  <2>1. i.node \in Rows /\ i.name \in Names
    BY DEF ScanInv, Types, MetaItem, ItemsInPlace, Rows
  <2>2. IsStrictPrefix(Segments[n], Append(Segments[i.node], i.name))
           <=> Begins(Segments[n], Segments[i.node])
    BY <1>1, <2>1, BeginsAppended
  <2> QED BY <1>1, <2>1, <2>2, AboveByName
<1>3. ObjectEntries = {entry(i) : i \in items}
  BY <1>2 DEF ObjectEntries
<1>4. f \in [Under(n) -> Nested]
  <2>1. ASSUME NEW i \in Under(n) PROVE entry(i) \in Nested
    <3>1. i \in items /\ n \in IdPath[i.node]
      BY <2>1 DEF Under
    <3>2. entry(i) \in ObjectEntries
      BY <1>3, <3>1
    <3>3. entry(i).path = Append(ShownAt[i.node], i.name)
      OBVIOUS
    <3> QED BY <1>2, <3>1, <3>2, <3>3
  <2> QED BY <2>1
<1>5. \A i, j \in Under(n) : f[i] = f[j] => i = j
  <2>1. \A i, j : entry(i) = entry(j) => i = j
    OBVIOUS
  <2> QED BY <2>1
<1>6. \A e \in Nested : \E i \in Under(n) : f[i] = e
  <2> SUFFICES ASSUME NEW e \in Nested PROVE \E i \in Under(n) : f[i] = e
    OBVIOUS
  <2>1. PICK i \in items : e = entry(i)
    BY <1>3
  <2>2. e.path = Append(ShownAt[i.node], i.name) /\ IsStrictPrefix(ShownAt[n], e.path)
    BY <2>1
  <2>3. i \in Under(n)
    BY <1>2, <2>2 DEF Under
  <2> QED BY <2>1, <2>3
<1>7. f \in Bijection(Under(n), Nested)
  <2> HIDE DEF f, Nested
  <2> QED BY <1>4, <1>5, <1>6 DEF Bijection, Injection, Surjection, IsInjective
<1>8. ExistsBijection(Under(n), Nested)
  BY <1>7, Zenon DEF ExistsBijection
<1>9. IsFiniteSet(Under(n))
  <2>1. Under(n) \in SUBSET items
    BY DEF Under
  <2> QED BY <2>1, FS_Subset
<1>10. Cardinality(Nested) = Cardinality(Under(n))
  <2> HIDE DEF Nested
  <2> QED BY <1>8, <1>9, FS_Bijection
<1> QED BY <1>10

LEMMA ShownCounts ==
  ASSUME ScanInv, OneByOne, CountInv, WorkInv, Undisturbed, ~overlap, faults = 0,
         NEW n \in ShownRows
  PROVE  view.rows[n].count =
            Cardinality({e \in ObjectEntries : IsStrictPrefix(ShownAt[n], e.path)})
<1>1. Settled /\ TopsOnce /\ CountsRight /\ IsFiniteSet(items)
  BY DEF Undisturbed, WorkInv, OneByOne, CountInv
<1>2. TopRows \cup ChildRows = Rows
  BY <1>1 DEF Settled, TopRows, ChildRows
<1>3. view.rows = [m \in Rows |-> node[m]]
  BY <1>2 DEF Undisturbed
<1>4. ShownRows = Rows
  BY <1>3, AllShown
<1>5. view.rows[n] = node[n] /\ n \in Rows
  BY <1>3, <1>4
<1>6. node[n].count = Cardinality(Under(n))
  BY <1>1, <1>5 DEF Settled, CountsRight
<1> QED BY <1>1, <1>4, <1>5, <1>6, EntriesBelow

\* A reader whom no scan disturbs, of a catalogue that no failure or crash has
\* left unfinished, shows for every directory the number of objects that he shows
\* below it, provided that no selection gives one object twice (GetResourceTree).
THEOREM TreeCountsRight == ASSUME SelectedOnce PROVE ExplorerSpec => TreeCounts
<1>1. ScanInv /\ OneByOne /\ CountInv /\ WorkInv =>
        [(TreeBuilt /\ Undisturbed /\ ~overlap /\ faults = 0) =>
            \A n \in ShownRows : view.rows[n].count =
                Cardinality({e \in ObjectEntries : IsStrictPrefix(ShownAt[n], e.path)})]_vars
  BY ShownCounts
<1> QED BY <1>1, ScanInvariant, OneRowPerBucket, CountInvariant, WorkInvariant, PTL
        DEF TreeCounts
=============================================================================
