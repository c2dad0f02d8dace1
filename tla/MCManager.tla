------------------------------ MODULE MCManager ------------------------------
(* Small instances of ConfigCenter, ManagedTables and DataPreview for TLC. *)
EXTENDS DataPreview, TLC

CONSTANTS w1, w2, k1, k2, a1, a2, low, high, d, e, x, r

SystemEnvironments ==
    [key : {k1, k2, Unset}, api : {a1, Unset}]
        \cup {[key |-> k1, api |-> a2], [key |-> Malformed, api |-> a1]}

ModuleEnvironments ==
    [on : BOOLEAN, api : {a1, Unset}, key : {k1, Unset, Malformed}, db : {TRUE}]
        \cup {[on |-> TRUE, api |-> a1, key |-> Unset, db |-> FALSE]}

\* The name of the second table is the first one's with capitals.
Unquoted == [t \in {low, high} |-> low]

\* Contents that are shown in part, and contents that are not.
Classes == {"image", "text"}
Whole == {"image"}
Bytes == [image |-> 2, text |-> 1]

\* Objects and directory markers on three levels, and reserved names.
SomeKeys == {<<x>>, <<d, x>>, <<d, e, x>>, <<d, Marker>>, <<d, e, Marker>>, <<r, x>>}

RequestSymmetry == Permutations(Requests)

\* A bound: services do not influence each other, one at a time is started.
ServicesApart == \E m \in Modules : mod[m].pc = "down"

\* A bound: no request reads two of the tables to manage, the rows of a table,
\* an object and a bucket, so only one of them is there.
DataApart ==
    Cardinality({a \in 1 .. 4 :
        CASE a = 1 -> \E t \in Tables : source[t] > 0
          [] a = 2 -> lines > 0
          [] a = 3 -> object > 0
          [] OTHER -> bucket # {}}) <= 1

\* A bound: a preview shares nothing with other requests and leaves nothing, so
\* it is looked at on its own.
PreviewAlone == (\E w \in Requests : call[w].op \in {"rows", "object", "level"}) => calls = 1

\* A bound: the fourth request comes to a resource that did not change.
FourUnchanged == changes > 0 => calls < 4

\* The setting in which requests are looked at: the Manager has the shared
\* configuration or a key too short, and System answers or not.
OneSetting ==
    /\ mod[Meta].pc = "down"
    /\ sys.gen > 0 => sys.gen = 1 /\ sys.key = k1 /\ sys.api = a1
    /\ row = [text |-> Sealed(k1), gen |-> 0]
    /\ mod[Manager].pc # "down" =>
          /\ sys.gen = 1 /\ mod[Manager].on /\ mod[Manager].db /\ mod[Manager].api = a1
          /\ mod[Manager].key = k1 => mod[Manager].from = "system"

\* All settings are looked at without requests and data.
AllSettings ==
    /\ calls = 0 /\ changes = 0 /\ typed /\ lines = 0 /\ object = 0 /\ bucket = {}
    /\ \A t \in Tables : source[t] = 0

Bounds == ServicesApart /\ DataApart /\ PreviewAlone /\ FourUnchanged /\ (OneSetting \/ AllSettings)
=============================================================================
