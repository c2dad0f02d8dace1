-------------------------- MODULE ObjectListingProofs --------------------------
(***************************************************************************)
(* Proofs about ObjectListing: the three programs that fold keys into      *)
(* levels show the same entries, for keys of any number and any length.    *)
(***************************************************************************)
EXTENDS ObjectListing, TLAPS

(* Sequences *)

LEMMA StrictPrefixOf ==
  ASSUME NEW S, NEW p \in Seq(S), NEW k \in Seq(S)
  PROVE  IsStrictPrefix(p, k) <=> Len(p) < Len(k) /\ \A i \in 1 .. Len(p) : k[i] = p[i]
  BY DEF IsStrictPrefix, IsPrefix

LEMMA RestOf ==
  ASSUME NEW S, NEW p \in Seq(S), NEW k \in Seq(S), Len(p) < Len(k),
         NEW r, r = SubSeq(k, Len(p) + 1, Len(k))
  PROVE  /\ r \in Seq(S) /\ Len(r) \in Nat /\ Len(r) > 0 /\ Len(r) = Len(k) - Len(p)
         /\ \A i \in 1 .. Len(r) : r[i] = k[Len(p) + i]
  OBVIOUS

LEMMA HasReservedOf ==
  ASSUME NEW S, NEW k \in Seq(S)
  PROVE  HasReserved(k) <=> \E i \in 1 .. Len(k) : k[i] \in Reserved
  BY DEF HasReserved, Range

LEMMA NotEmpty ==
  ASSUME NEW S, NEW k \in Seq(S), k # <<>>
  PROVE  Len(k) \in Nat /\ Len(k) > 0
  OBVIOUS

LEMMA InitialOf ==
  ASSUME NEW S, NEW k \in Seq(S), NEW n \in 0 .. Len(k)
  PROVE  /\ SubSeq(k, 1, n) \in Seq(S) /\ Len(SubSeq(k, 1, n)) = n
         /\ \A i \in 1 .. n : SubSeq(k, 1, n)[i] = k[i]
  OBVIOUS

LEMMA FrontOf ==
  ASSUME NEW S, NEW k \in Seq(S), k # <<>>
  PROVE  /\ Front(k) \in Seq(S) /\ Len(Front(k)) = Len(k) - 1
         /\ \A i \in 1 .. Len(k) - 1 : Front(k)[i] = k[i]
         /\ Last(k) = k[Len(k)]
<1>1. Len(k) \in Nat /\ Len(k) > 0 /\ Len(k) - 1 \in 0 .. Len(k)
  BY NotEmpty
<1> QED BY <1>1, InitialOf DEF Front, Last

LEMMA SameSequence ==
  ASSUME NEW S, NEW p \in Seq(S), NEW q \in Seq(S), Len(p) = Len(q),
         \A i \in 1 .. Len(p) : p[i] = q[i]
  PROVE  p = q
  OBVIOUS

-----------------------------------------------------------------------------
(* Names below a prefix *)

\* The keys strictly below p.
Below(p, listed) == {k \in listed : IsStrictPrefix(p, k)}

LEMMA RelativeIff ==
  ASSUME NEW p, NEW listed, NEW r
  PROVE  r \in Relative(p, listed) <=>
            /\ r # <<Marker>>
            /\ \E k \in Below(p, listed) : r = SubSeq(k, Len(p) + 1, Len(k))
  BY DEF Relative, Below

\* What the name r of key k below p is.
IsName(S, p, k, r) ==
    /\ k \in Seq(S) /\ k # <<>> /\ Len(p) \in Nat /\ Len(k) \in Nat
    /\ Len(p) < Len(k) /\ \A i \in 1 .. Len(p) : k[i] = p[i]
    /\ r \in Seq(S) /\ Len(r) \in Nat /\ Len(r) > 0 /\ Len(r) = Len(k) - Len(p)
    /\ \A i \in 1 .. Len(r) : r[i] = k[Len(p) + i]

LEMMA NameBelow ==
  ASSUME NEW S, NEW listed \in SUBSET (Seq(S) \ {<<>>}), NEW p \in Seq(S),
         NEW k \in Below(p, listed)
  PROVE  IsName(S, p, k, SubSeq(k, Len(p) + 1, Len(k))) /\ k \in listed
<1>1. k \in listed /\ k \in Seq(S) /\ k # <<>> /\ IsStrictPrefix(p, k)
  BY DEF Below
<1>2. Len(p) < Len(k) /\ \A i \in 1 .. Len(p) : k[i] = p[i]
  BY <1>1, StrictPrefixOf
<1>3. Len(p) \in Nat /\ Len(k) \in Nat
  BY <1>1
<1> QED BY <1>1, <1>2, <1>3, RestOf DEF IsName

\* The browser of Meta and the preview of the Manager show the same entries of
\* every level, provided that reserved names are used at the first level only:
\* one looks for them in all of a name, the other in its first segment.
THEOREM BrowsersAgree ==
  ASSUME NEW S, NEW listed \in SUBSET (Seq(S) \ {<<>>}), NEW p \in Seq(S),
         \A k \in listed : \A i \in 2 .. Len(k) : k[i] \notin Reserved
  PROVE  ImmediateChildren(p, listed) = ListNodes(p, listed)
<1>1. ASSUME NEW r \in Relative(p, listed)
      PROVE  HasReserved(r) <=> r[1] \in Reserved
  <2>1. PICK k \in Below(p, listed) : r = SubSeq(k, Len(p) + 1, Len(k))
    BY <1>1, RelativeIff
  <2>2. k \in listed /\ IsName(S, p, k, r)
    BY <2>1, NameBelow
  <2>3. \A i \in 2 .. Len(r) : r[i] \notin Reserved
    <3> SUFFICES ASSUME NEW i \in 2 .. Len(r) PROVE r[i] \notin Reserved
      OBVIOUS
    <3>1. r[i] = k[Len(p) + i] /\ Len(p) + i \in 2 .. Len(k)
      BY <2>2 DEF IsName
    <3> QED BY <3>1, <2>2
  <2>4. HasReserved(r) <=> \E i \in 1 .. Len(r) : r[i] \in Reserved
    BY <2>2, HasReservedOf DEF IsName
  <2> QED BY <2>2, <2>3, <2>4 DEF IsName
<1> QED BY <1>1 DEF ImmediateChildren, ListNodes

-----------------------------------------------------------------------------
(* The tree that a scan of the bucket makes *)

\* The keys that a scan of a whole bucket keeps.
Kept(listed) == {k \in listed : k # <<Marker>> /\ ~HasReserved(k)}

LEMMA WholeBucket ==
  ASSUME NEW S, NEW listed \in SUBSET (Seq(S) \ {<<>>})
  PROVE  /\ ScanBucket(<<>>, listed).dirs = UNION {DirsOf(k) : k \in Kept(listed)}
         /\ ScanBucket(<<>>, listed).objs =
               {[rel |-> k, key |-> <<>> \o k] : k \in {l \in Kept(listed) : Last(l) # Marker}}
<1>1. ASSUME NEW k \in listed PROVE IsStrictPrefix(<<>>, k) /\ SubSeq(k, Len(<<>>) + 1, Len(k)) = k
  <2>1. k \in Seq(S) /\ k # <<>> /\ Len(k) \in Nat /\ Len(k) > 0
    BY <1>1, NotEmpty
  <2>2. <<>> \in Seq(S) /\ Len(<<>>) = 0
    OBVIOUS
  <2>3. IsStrictPrefix(<<>>, k)
    <3>1. Len(<<>>) < Len(k) /\ \A i \in 1 .. Len(<<>>) : k[i] = <<>>[i]
      BY <2>1, <2>2
    <3> QED BY <2>1, <2>2, <3>1, StrictPrefixOf
  <2>4. SubSeq(k, 1, Len(k)) = k
    BY <2>1
  <2> QED BY <2>2, <2>3, <2>4
<1>2. Relative(<<>>, listed) = {k \in listed : k # <<Marker>>}
  BY <1>1 DEF Relative
<1>3. {r \in Relative(<<>>, listed) : ~HasReserved(r)} = Kept(listed)
  BY <1>2 DEF Kept
<1> QED BY <1>3 DEF ScanBucket

\* Directories of a key are strictly above it.
LEMMA DirAbove ==
  ASSUME NEW S, NEW k \in Seq(S), k # <<>>, NEW d \in DirsOf(k)
  PROVE  d \in Seq(S) /\ Len(d) \in Nat /\ Len(d) < Len(k) /\ \A i \in 1 .. Len(d) : d[i] = k[i]
<1>1. Len(k) \in Nat /\ Len(k) > 0
  BY NotEmpty
<1>2. CASE d = Front(k)
  BY <1>1, <1>2, FrontOf
<1>3. CASE \E i \in 1 .. (Len(k) - 1) : d = SubSeq(k, 1, i)
  BY <1>1, <1>3, InitialOf
<1> QED BY <1>2, <1>3 DEF DirsOf

\* A key that lies at least two segments below p has a directory below p.
LEMMA DirBelow ==
  ASSUME NEW S, NEW k \in Seq(S), k # <<>>, NEW n \in Nat, n + 1 < Len(k)
  PROVE  \E d \in DirsOf(k) : d \in Seq(S) /\ Len(d) \in Nat /\ n < Len(d) /\ \A i \in 1 .. (n + 1) : d[i] = k[i]
<1>1. Len(k) \in Nat
  OBVIOUS
<1>2. CASE Last(k) = Marker
  <2>1. Front(k) \in DirsOf(k)
    BY <1>2 DEF DirsOf
  <2> QED BY <1>1, <2>1, FrontOf
<1>3. CASE Last(k) # Marker
  <2>1. n + 1 \in 1 .. (Len(k) - 1) /\ n + 1 \in 0 .. Len(k)
    BY <1>1
  <2> DEFINE d == SubSeq(k, 1, n + 1)
  <2>2. d \in DirsOf(k)
    BY <1>3, <2>1 DEF DirsOf
  <2>3. d \in Seq(S) /\ Len(d) = n + 1 /\ \A i \in 1 .. (n + 1) : d[i] = k[i]
    BY <2>1, InitialOf
  <2> HIDE DEF d
  <2>4. n + 1 \in Nat /\ n < n + 1
    OBVIOUS
  <2> QED BY <2>2, <2>3, <2>4
<1> QED BY <1>2, <1>3

LEMMA ReservedBelow ==
  ASSUME NEW S, NEW p \in Seq(S), NEW k, NEW r, IsName(S, p, k, r), ~HasReserved(p)
  PROVE  HasReserved(k) <=> HasReserved(r)
<1>1. /\ HasReserved(p) <=> \E i \in 1 .. Len(p) : p[i] \in Reserved
      /\ HasReserved(k) <=> \E i \in 1 .. Len(k) : k[i] \in Reserved
      /\ HasReserved(r) <=> \E i \in 1 .. Len(r) : r[i] \in Reserved
  BY HasReservedOf DEF IsName
<1>2. ASSUME NEW i \in 1 .. Len(k), k[i] \in Reserved PROVE HasReserved(r)
  <2>1. i > Len(p)
    BY <1>1, <1>2 DEF IsName
  <2>2. PICK j : j = i - Len(p)
    OBVIOUS
  <2>3. Len(p) \in Nat /\ Len(k) \in Nat /\ Len(r) = Len(k) - Len(p)
    BY DEF IsName
  <2>4. j \in 1 .. Len(r) /\ Len(p) + j = i
    BY <2>1, <2>2, <2>3
  <2>5. r[j] = k[i]
    BY <2>4 DEF IsName
  <2> QED BY <1>1, <1>2, <2>4, <2>5
<1>3. ASSUME NEW i \in 1 .. Len(r), r[i] \in Reserved PROVE HasReserved(k)
  <2>1. Len(p) + i \in 1 .. Len(k) /\ r[i] = k[Len(p) + i]
    BY DEF IsName
  <2> QED BY <1>1, <1>3, <2>1
<1> QED BY <1>1, <1>2, <1>3

\* The tree that a scan of a whole bucket makes has at every place, outside the
\* reserved names, the entries that the browsers show there.
THEOREM TreeAgrees ==
  ASSUME NEW S, NEW listed \in SUBSET (Seq(S) \ {<<>>}), NEW p \in Seq(S), ~HasReserved(p)
  PROVE  ListNodes(p, listed) = TreeLevel(p, ScanBucket(<<>>, listed))
<1> DEFINE M == ScanBucket(<<>>, listed)
           tree == TreeLevel(p, M)
<1>1. /\ M.dirs = UNION {DirsOf(k) : k \in Kept(listed)}
      /\ M.objs = {[rel |-> k, key |-> <<>> \o k] : k \in {l \in Kept(listed) : Last(l) # Marker}}
  BY WholeBucket
<1> HIDE DEF M
<1>2. tree = {[name |-> d[Len(p) + 1], type |-> "prefix"] :
                 d \in {e \in M.dirs : IsStrictPrefix(p, e)}}
             \cup {[name |-> Last(o.rel), type |-> "object"] :
                 o \in {m \in M.objs : Front(m.rel) = p}}
  BY DEF TreeLevel
<1> HIDE DEF tree
<1>3. ASSUME NEW r \in Relative(p, listed), ~HasReserved(r) PROVE Entry(r) \in tree
  <2>1. PICK k \in Below(p, listed) : r = SubSeq(k, Len(p) + 1, Len(k)) /\ r # <<Marker>>
    BY <1>3, RelativeIff
  <2>2. k \in listed /\ IsName(S, p, k, r)
    BY <2>1, NameBelow
  <2>3. k \in Kept(listed)
    <3>1. ~HasReserved(k)
      BY <1>3, <2>2, ReservedBelow
    <3>2. ASSUME k = <<Marker>> PROVE FALSE
      <4>1. Len(k) = 1 /\ k[1] = Marker
        BY <3>2
      <4>2. Len(p) = 0 /\ Len(r) = 1 /\ r[1] = Marker /\ r \in Seq(S)
        BY <4>1, <2>2 DEF IsName
      <4>3. r = <<r[1]>>
        BY <4>2
      <4> QED BY <2>1, <4>2, <4>3
    <3> QED BY <2>2, <3>1, <3>2 DEF Kept
  <2>4. CASE Len(r) > 1
    <3>0. /\ k \in Seq(S) /\ k # <<>> /\ Len(p) \in Nat /\ Len(p) + 1 < Len(k)
          /\ 1 \in 1 .. Len(r) /\ Len(p) + 1 \in 1 .. (Len(p) + 1)
      BY <2>2, <2>4 DEF IsName
    <3>1. PICK d \in DirsOf(k) : /\ d \in Seq(S) /\ Len(d) \in Nat /\ Len(p) < Len(d)
                                 /\ \A i \in 1 .. (Len(p) + 1) : d[i] = k[i]
      BY <3>0, DirBelow
    <3>2. IsStrictPrefix(p, d)
      <4>1. \A i \in 1 .. Len(p) : i \in 1 .. (Len(p) + 1)
        BY <3>0
      <4>2. \A i \in 1 .. Len(p) : k[i] = p[i]
        BY <2>2 DEF IsName
      <4>3. \A i \in 1 .. Len(p) : d[i] = p[i]
        BY <3>1, <4>1, <4>2
      <4> QED BY <3>1, <4>3, StrictPrefixOf
    <3>3. d[Len(p) + 1] = r[1]
      <4>1. r[1] = k[Len(p) + 1]
        BY <2>2, <3>0 DEF IsName
      <4> QED BY <3>0, <3>1, <4>1
    <3>4. d \in M.dirs
      BY <1>1, <2>3, <3>1
    <3> QED BY <1>2, <2>4, <3>2, <3>3, <3>4 DEF Entry
  <2>5. CASE Len(r) = 1
    <3>1. Len(k) = Len(p) + 1 /\ r[1] = k[Len(k)]
      <4>1. Len(p) \in Nat /\ Len(k) \in Nat /\ Len(r) = Len(k) - Len(p)
        BY <2>2 DEF IsName
      <4>2. Len(k) = Len(p) + 1
        <5>1. 1 = Len(k) - Len(p)
          BY <2>5, <4>1
        <5> QED BY <4>1, <5>1
      <4>3. r[1] = k[Len(p) + 1]
        <5>1. 1 \in 1 .. Len(r)
          BY <2>5
        <5> QED BY <2>2, <5>1 DEF IsName
      <4> QED BY <4>2, <4>3
    <3>2. /\ Front(k) \in Seq(S) /\ Len(Front(k)) = Len(k) - 1
          /\ \A i \in 1 .. Len(k) - 1 : Front(k)[i] = k[i]
          /\ Last(k) = k[Len(k)]
      BY <2>2, FrontOf DEF IsName
    <3>3. Front(k) = p
      BY <2>2, <3>1, <3>2, SameSequence DEF IsName
    <3>4. r = <<r[1]>>
      BY <2>2, <2>5 DEF IsName
    <3>5. Last(k) # Marker /\ Last(k) = r[1]
      BY <2>1, <3>1, <3>2, <3>4
    <3> DEFINE o == [rel |-> k, key |-> <<>> \o k]
    <3>6. o \in M.objs /\ o.rel = k
      BY <1>1, <2>3, <3>5
    <3> HIDE DEF o
    <3>7. Entry(r) = [name |-> Last(o.rel), type |-> "object"]
      BY <2>5, <3>5, <3>6 DEF Entry
    <3> QED BY <1>2, <3>3, <3>6, <3>7
  <2> QED BY <2>2, <2>4, <2>5 DEF IsName
<1>4. ASSUME NEW k \in Kept(listed), IsStrictPrefix(p, k),
             NEW r, r = SubSeq(k, Len(p) + 1, Len(k)), r # <<Marker>>
      PROVE  Entry(r) \in ListNodes(p, listed) /\ IsName(S, p, k, r)
  <2>1. k \in Below(p, listed) /\ ~HasReserved(k)
    BY <1>4 DEF Kept, Below
  <2>2. r \in Relative(p, listed)
    BY <1>4, <2>1, RelativeIff
  <2>3. IsName(S, p, k, r)
    BY <1>4, <2>1, NameBelow
  <2>4. ~HasReserved(r)
    BY <2>1, <2>3, ReservedBelow
  <2> QED BY <2>2, <2>3, <2>4 DEF ListNodes
<1>5. ASSUME NEW d \in M.dirs, IsStrictPrefix(p, d)
      PROVE  [name |-> d[Len(p) + 1], type |-> "prefix"] \in ListNodes(p, listed)
  <2>1. PICK k \in Kept(listed) : d \in DirsOf(k)
    BY <1>1, <1>5
  <2>2. k \in Seq(S) /\ k # <<>>
    BY DEF Kept
  <2>3. d \in Seq(S) /\ Len(d) \in Nat /\ Len(d) < Len(k) /\ \A i \in 1 .. Len(d) : d[i] = k[i]
    BY <2>1, <2>2, DirAbove
  <2>4. Len(p) \in Nat /\ Len(p) < Len(d) /\ \A i \in 1 .. Len(p) : d[i] = p[i]
    BY <1>5, <2>3, StrictPrefixOf
  <2>5. Len(k) \in Nat
    BY <2>2
  <2>6. IsStrictPrefix(p, k)
    BY <2>2, <2>3, <2>4, <2>5, StrictPrefixOf
  <2>7. PICK r : r = SubSeq(k, Len(p) + 1, Len(k))
    OBVIOUS
  <2>8. r \in Seq(S) /\ Len(r) = Len(k) - Len(p) /\ Len(r) > 1 /\ r[1] = k[Len(p) + 1]
    BY <2>2, <2>3, <2>4, <2>5, <2>7
  <2>9. r # <<Marker>>
    <3>1. Len(<<Marker>>) = 1
      OBVIOUS
    <3>2. ASSUME r = <<Marker>> PROVE Len(r) = 1
      BY ONLY <3>1, <3>2
    <3>3. Len(r) > 1
      BY <2>8
    <3> QED BY <3>2, <3>3
  <2>10. Entry(r) = [name |-> d[Len(p) + 1], type |-> "prefix"]
    BY <2>3, <2>4, <2>8 DEF Entry
  <2> QED BY <1>4, <2>6, <2>7, <2>9, <2>10
<1>6. ASSUME NEW o \in M.objs, Front(o.rel) = p
      PROVE  [name |-> Last(o.rel), type |-> "object"] \in ListNodes(p, listed)
  <2>1. PICK k \in Kept(listed) : o.rel = k /\ Last(k) # Marker
    BY <1>1, <1>6
  <2>2. k \in Seq(S) /\ k # <<>>
    BY DEF Kept
  <2>3. /\ Len(k) \in Nat /\ Len(k) > 0 /\ Len(p) = Len(k) - 1
        /\ \A i \in 1 .. Len(k) - 1 : p[i] = k[i]
        /\ Last(k) = k[Len(k)]
    BY <1>6, <2>1, <2>2, FrontOf, NotEmpty
  <2>4. IsStrictPrefix(p, k)
    BY <2>2, <2>3, StrictPrefixOf
  <2>5. PICK r : r = SubSeq(k, Len(p) + 1, Len(k))
    OBVIOUS
  <2>6. r \in Seq(S) /\ Len(r) = 1 /\ r[1] = k[Len(k)]
    BY <2>2, <2>3, <2>5
  <2>7. r # <<Marker>>
    BY <2>1, <2>3, <2>6
  <2>8. Entry(r) = [name |-> Last(o.rel), type |-> "object"]
    BY <2>1, <2>3, <2>6 DEF Entry
  <2> QED BY <1>4, <2>4, <2>5, <2>7, <2>8
<1>7. ListNodes(p, listed) \subseteq tree
  BY <1>3 DEF ListNodes
<1>8. tree \subseteq ListNodes(p, listed)
  BY <1>2, <1>5, <1>6
<1> QED BY <1>7, <1>8 DEF tree, M
=============================================================================
