------------------------------ MODULE MCMetaScan ------------------------------
(* Small instances of MetaScan for TLC. *)
EXTENDS MetaScan, TLC

CONSTANTS w1, w2, r1, s1, s2, t1, t2

\* Tables are interchangeable: no definition tells one from another.
TableSymmetry == Permutations(Tables)

\* The overlap run starts with two tables in one schema and none in the other.
OverlapInit ==
    /\ Init
    /\ \A r \in Resources : source[r][s1] = {t1, t2} /\ source[r][s2] = {}

\* The goroutine of a request in progress keeps being scheduled. Clients need
\* not send requests, and nothing has to fail, crash or change.
OverlapSpec ==
    /\ OverlapInit /\ [][Next]_vars
    /\ \A w \in Requests : WF_vars(Step(w))
=============================================================================
