--------------------------- MODULE MCSystemAccounts ---------------------------
(* Small instances of SystemAccounts for TLC. *)
EXTENDS SystemAccounts, TLC

CONSTANTS w1, w2, Alice, Bob, Acme, Zenith

\* Goroutines and the names other than SuperAdmin are interchangeable.
AccountSymmetry == Permutations(Requests) \cup Permutations(Names \ {SuperAdmin})
=============================================================================
