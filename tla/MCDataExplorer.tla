---------------------------- MODULE MCDataExplorer ----------------------------
(* Small instances of DataExplorer for TLC. *)
EXTENDS DataExplorer, TLC

CONSTANTS w1, w2, b1, b2, d, x

\* An object at the top of the bucket and one in a directory.
FewKeys == {<<x>>, <<d, x>>}

\* A request for the whole bucket, and one for its directory.
PathSelections == {{}, {<<b1, <<d>>>>}}

\* Requests are interchangeable, and no property is about a single one.
RequestSymmetry == Permutations(Requests)

\* The run starts with the first bucket full, and the second one empty or with a
\* directory that the first one has, too. A change may empty a bucket or fill it.
FullInit ==
    /\ Init
    /\ store[b1] = Keys
    /\ store[b2] \in {{}, {<<d, x>>}}
FullSpec == FullInit /\ [][ExplorerNext]_vars

\* Bounds: the tree is only read while the store has not changed, and nothing
\* failed if scans overlap. (Changes and failures matter to what a later scan
\* leaves behind, which the invariants check.) Scans overlap with a fault or a
\* change of the store, not with both. The second bucket has objects and rows in
\* behaviours without overlap, faults and changes; in the others, where its
\* listing changes nothing, scans come to it last.
ReaderBound ==
    /\ view.pc # "idle" => puts = 0 /\ (overlap => faults = 0)
    /\ overlap => faults + puts < 2
    /\ IF store[b2] # {} \/ Children(0, b2) # {} THEN ~overlap /\ faults + puts = 0
       ELSE \A w \in Requests : req[w].at = <<b2, <<>>>> => req[w].todo = {}
=============================================================================
