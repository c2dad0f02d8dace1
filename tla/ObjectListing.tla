---------------------------- MODULE ObjectListing ----------------------------
(***************************************************************************)
(* Three programs that turn the flat keys of an S3 bucket into levels of   *)
(* directories: the scan of the Meta service (scanBucket) and its browser  *)
(* (ListNodes), both in meta/backend/internal/scanner/s3_scanner.go, and   *)
(* the preview of the Manager (listImmediateChildren in                    *)
(* manager/backend/internal/service/object_preview.go).                    *)
(*                                                                         *)
(* A key is the sequence of its segments; one that ends in "/", a          *)
(* directory marker, has Marker for its last segment. Sizes, types and     *)
(* times are left out, and an order of entries too.                        *)
(***************************************************************************)
EXTENDS Naturals, SequencesExt

CONSTANTS
    Marker,     \* last segment of a key that ends in "/"
    Reserved    \* reservedObjectSegments

\* hasReservedObjectSegment
HasReserved(k) == Range(k) \cap Reserved # {}

\* The names of the listed keys below a prefix, relative to it.
Relative(prefix, listed) ==
    {SubSeq(k, Len(prefix) + 1, Len(k)) : k \in {l \in listed : IsStrictPrefix(prefix, l)}}
        \ {<<Marker>>}

\* Directories that a name r stands for: all that it passes through, or itself
\* if it is a directory marker.
DirsOf(r) ==
    IF Last(r) = Marker THEN {Front(r)}
    ELSE {SubSeq(r, 1, i) : i \in 1 .. (Len(r) - 1)}

\* Mutant of ScanBucket: names with a reserved segment are kept.
ScanBucketReserved(prefix, listed) ==
    LET kept == Relative(prefix, listed)
    IN  [dirs |-> (UNION {DirsOf(r) : r \in kept})
                    \cup (IF prefix = <<>> THEN {} ELSE {prefix}),
         objs |-> {[rel |-> r, key |-> prefix \o r] :
                      r \in {s \in kept : Last(s) # Marker}}]

\* scanBucket: directories and objects, by their names relative to the prefix,
\* except the prefix itself; filterReservedMetadata drops the entry of a whole
\* bucket.
ScanBucket(prefix, listed) ==
    LET kept == {r \in Relative(prefix, listed) : ~HasReserved(r)}
    IN  [dirs |-> (UNION {DirsOf(r) : r \in kept})
                    \cup (IF prefix = <<>> THEN {} ELSE {prefix}),
         objs |-> {[rel |-> r, key |-> prefix \o r] :
                      r \in {s \in kept : Last(s) # Marker}}]

\* The entry of one level that a relative name belongs to.
Entry(r) == [name |-> r[1], type |-> IF Len(r) > 1 THEN "prefix" ELSE "object"]

\* ListNodes, for a path inside a bucket.
ListNodes(prefix, listed) ==
    {Entry(r) : r \in {s \in Relative(prefix, listed) : ~HasReserved(s)}}

\* listImmediateChildren: the store itself folds the names below a directory
\* into one, so only the first segment is compared with the reserved ones.
ImmediateChildren(prefix, listed) ==
    {Entry(r) : r \in {s \in Relative(prefix, listed) : s[1] \notin Reserved}}

\* One level of the tree that persistObjectMetas makes of a scan.
TreeLevel(prefix, metas) ==
    {[name |-> d[Len(prefix) + 1], type |-> "prefix"] :
        d \in {e \in metas.dirs : IsStrictPrefix(prefix, e)}}
    \cup {[name |-> Last(o.rel), type |-> "object"] :
        o \in {m \in metas.objs : Front(m.rel) = prefix}}
=============================================================================
