------------------------------ MODULE SecretStore ------------------------------
(***************************************************************************)
(* What System promises of the secrets of registered resources: a map from *)
(* resource ids to secrets. An id is given once, its secret is replaced    *)
(* only while the resource exists, and one operation touches one resource. *)
(***************************************************************************)
CONSTANTS Ids, Values, None

VARIABLES
    secret,  \* id -> the secret that services receive, or None: no resource
    used     \* the ids given so far

TypeOK == secret \in [Ids -> Values \cup {None}] /\ used \in SUBSET Ids

\* The resources registered before the secrets were kept encrypted.
Init == TypeOK /\ used = {i \in Ids : secret[i] # None}

Add(i) ==
    /\ i \notin used
    /\ \E v \in Values : secret' = [secret EXCEPT ![i] = v]
    /\ used' = used \cup {i}

Replace(i) ==
    /\ secret[i] # None
    /\ \E v \in Values : secret' = [secret EXCEPT ![i] = v]
    /\ UNCHANGED used

Drop(i) ==
    /\ secret' = [secret EXCEPT ![i] = None]
    /\ UNCHANGED used

Next == \E i \in Ids : Add(i) \/ Replace(i) \/ Drop(i)

Spec == Init /\ [][Next]_<<secret, used>>
=============================================================================
