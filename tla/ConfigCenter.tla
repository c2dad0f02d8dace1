----------------------------- MODULE ConfigCenter -----------------------------
(***************************************************************************)
(* The configuration centre: System serves its keys to the other services  *)
(* (system/backend/internal/api/config_handler.go), which ask once, when   *)
(* they start, and fall back to their own environment                      *)
(* (common/config/loader.go); and what Manager and Meta then use as the    *)
(* password of a resource, which System keeps encrypted.                   *)
(*                                                                         *)
(* Abstractions: one resource with one secret; encryption is ideal (a text *)
(* decrypts under its own key only); settings other than the two keys and  *)
(* the database are left out.                                              *)
(***************************************************************************)
EXTENDS Naturals

CONSTANTS
    Manager, Meta,   \* the services that ask
    Keys,            \* 32-byte keys that ENCRYPTION_KEY may hold
    SystemDefault,   \* default of System: 32 bytes
    ShortDefault,    \* default of the other services: 28 bytes
    Malformed,       \* a value of ENCRYPTION_KEY that is no key
    Unset,           \* an environment variable that is not set
    ApiKeys,         \* values of INTERNAL_API_KEY
    SystemSettings,  \* environments that System is started with
    ModuleSettings,  \* environments that the services are started with
    MaxStart         \* bound on the starts of System

Modules == {Manager, Meta}
LongKeys == Keys \cup {SystemDefault}

ASSUME ConfigAssumption ==
    /\ Manager # Meta
    /\ Unset \notin LongKeys \cup ApiKeys
    /\ Malformed \notin LongKeys \cup {Unset, ShortDefault}
    /\ ShortDefault \notin LongKeys
    /\ SystemSettings \subseteq [key : Keys \cup {Unset, Malformed}, api : ApiKeys \cup {Unset}]
    /\ ModuleSettings \subseteq [on : BOOLEAN, api : ApiKeys \cup {Unset},
                                 key : Keys \cup {Unset, Malformed}, db : BOOLEAN]
    /\ MaxStart \in Nat

VARIABLES
    sys,    \* the System process: up, its keys, and the number of its starts
    row,    \* the resource's row: its text, and the start that stored it
    mod     \* service -> its process

configVars == <<sys, row, mod>>

Plain == [form |-> "plain", key |-> Unset]
Masked == [form |-> "masked", key |-> Unset]
Refused == [form |-> "refused", key |-> Unset]   \* no answer, an error
Sealed(k) == [form |-> "sealed", key |-> k]
Texts == {Plain} \cup {Sealed(k) : k \in LongKeys}

\* Decrypt, and what its callers make of an error: they keep the text.
Opened(text, k) == IF k \in LongKeys /\ text = Sealed(k) THEN Plain ELSE text

-----------------------------------------------------------------------------
(* System *)

\* loadEncryptionKey of System.
SystemKey(e) == IF e.key = Unset THEN SystemDefault ELSE e.key

\* System starts, with the environment that its operator has set; a malformed
\* key ends it at once.
SystemStart ==
    /\ ~sys.up /\ sys.gen < MaxStart
    /\ \E e \in SystemSettings :
          /\ SystemKey(e) # Malformed
          /\ sys' = [up |-> TRUE, key |-> SystemKey(e), api |-> e.api, gen |-> sys.gen + 1]
    /\ UNCHANGED <<row, mod>>

SystemStop ==
    /\ sys.up
    /\ sys' = [sys EXCEPT !.up = FALSE]
    /\ UNCHANGED <<row, mod>>

\* A user stores the resource (ResourceVault has the details).
StoreResource ==
    /\ sys.up
    /\ row' = [text |-> Sealed(sys.key), gen |-> sys.gen]
    /\ UNCHANGED <<sys, mod>>

\* Mutant of Admits: keys are only compared.
AdmitsEqual(api) == sys.up /\ api = sys.api

\* InternalAPIMiddleware: without a key of its own, System admits nobody.
Admits(api) == sys.up /\ sys.api # Unset /\ api = sys.api

-----------------------------------------------------------------------------
(* The other services *)

Off == [pc |-> "down", on |-> FALSE, api |-> Unset, key |-> Unset, db |-> FALSE,
        from |-> "none", gen |-> 0]

\* Load of Manager, LoadConfig of Meta, up to the call of LoadSharedConfig.
ModuleStart(m) ==
    /\ mod[m].pc = "down"
    /\ \E e \in ModuleSettings :
          mod' = [mod EXCEPT ![m] =
              [pc |-> "loading", on |-> e.on, api |-> e.api, key |-> e.key, db |-> e.db,
               from |-> "none", gen |-> 0]]
    /\ UNCHANGED <<sys, row>>

\* LoadEncryptionKey of the other services.
LocalKey(key) == IF key = Unset THEN ShortDefault ELSE key

\* LoadLocalConfig, then InitDatabase: a malformed key or a database that
\* cannot be reached ends the process.
RunLocally(m, reason) ==
    mod' = [mod EXCEPT ![m] =
        IF mod[m].key = Malformed \/ ~mod[m].db THEN Off
        ELSE [mod[m] EXCEPT !.pc = "running", !.key = LocalKey(mod[m].key), !.from = reason]]

\* Mutant of SharedKey: the local setting goes before the shared one.
SharedKeyLocal(m) == IF mod[m].key \in Keys THEN mod[m].key ELSE sys.key

\* LoadSharedConfig: the local key serves when System sends none of 32 bytes.
SharedKey(m) == IF sys.key \in LongKeys THEN sys.key ELSE LocalKey(mod[m].key)

\* LoadSharedConfig is answered, or integration is off. The request carries the
\* service's own INTERNAL_API_KEY. Meta prefers that key to the shared one.
LoadConfig(m) ==
    /\ mod[m].pc = "loading"
    /\ \/ /\ mod[m].on /\ Admits(mod[m].api)
          /\ mod' = [mod EXCEPT ![m] = [mod[m] EXCEPT
                !.pc = "running", !.from = "system", !.gen = sys.gen,
                !.key = SharedKey(m),
                !.api = IF m = Meta /\ mod[m].api # Unset THEN mod[m].api ELSE sys.api]]
       \/ ~mod[m].on /\ RunLocally(m, "off")
       \/ mod[m].on /\ ~Admits(mod[m].api) /\ RunLocally(m, "refused")
    /\ UNCHANGED <<sys, row>>

\* The answer is lost, or takes more than the ten seconds allowed.
LoadTimeout(m) ==
    /\ mod[m].pc = "loading" /\ mod[m].on
    /\ RunLocally(m, "late")
    /\ UNCHANGED <<sys, row>>

\* The process ends; it may be started again with other settings.
ModuleStop(m) ==
    /\ mod[m].pc # "down"
    /\ mod' = [mod EXCEPT ![m] = Off]
    /\ UNCHANGED <<sys, row>>

-----------------------------------------------------------------------------
(* The password of the resource, as a service reads it *)

\* Only a service that has the internal key when it starts gets a client of the
\* internal interface, Manager only if integration is on.
HasClient(m) == mod[m].api # Unset /\ (m = Manager => mod[m].on)

\* GetByIDInternal, which decrypts with the key of the running System.
FromSystem == Opened(row.text, sys.key)

\* getResource of Manager and decryptSensitiveFields: from System if it answers,
\* or else from the row itself; decrypted (again) with the key of Manager.
ManagerReads ==
    {Opened(text, mod[Manager].key) :
        text \in (IF HasClient(Manager) /\ Admits(mod[Manager].api)
                  THEN {FromSystem} ELSE {}) \cup {row.text}}

\* GetResourceByID of Meta: the internal interface, or, without a client, that
\* of users, which masks passwords. An error ends the request.
MetaReads ==
    {Refused} \cup
    (IF HasClient(Meta) THEN IF Admits(mod[Meta].api) THEN {FromSystem} ELSE {}
     ELSE IF sys.up THEN {Masked} ELSE {})

-----------------------------------------------------------------------------
ConfigInit ==
    /\ sys = [up |-> FALSE, key |-> SystemDefault, api |-> Unset, gen |-> 0]
    /\ row \in [text : Texts, gen : {0}]
    /\ mod = [m \in Modules |-> Off]

ConfigStep ==
    \/ SystemStart \/ SystemStop \/ StoreResource
    \/ \E m \in Modules : ModuleStart(m) \/ LoadConfig(m) \/ LoadTimeout(m)

ConfigNext == ConfigStep \/ \E m \in Modules : ModuleStop(m)

ConfigSpec == ConfigInit /\ [][ConfigNext]_configVars

-----------------------------------------------------------------------------
(* Properties *)

Processes ==
    [pc : {"down", "loading", "running"}, on : BOOLEAN, api : ApiKeys \cup {Unset},
     key : LongKeys \cup {ShortDefault, Malformed, Unset}, db : BOOLEAN,
     gen : 0 .. MaxStart, from : {"none", "system", "off", "refused", "late"}]

\* The processes and the resource's row keep their types.
ConfigTypeOK ==
    /\ sys \in [up : BOOLEAN, key : LongKeys, api : ApiKeys \cup {Unset}, gen : 0 .. MaxStart]
    /\ row \in [text : Texts, gen : 0 .. MaxStart]
    /\ mod \in [Modules -> Processes]

\* Manager, once it has the shared configuration, can read every password that
\* the System it asked has stored: whether System is up, was stopped, or was
\* restarted with other keys since (getResource, LoadSharedConfig).
ManagerOpens ==
    (mod[Manager].from = "system" /\ row.gen = mod[Manager].gen) => ManagerReads = {Plain}

\* Meta, once it has the shared configuration, never connects with a masked
\* password, and with the right one as long as System was not restarted since.
MetaOpens ==
    mod[Meta].from = "system" =>
        /\ Masked \notin MetaReads
        /\ (row.gen = sys.gen /\ sys.gen = mod[Meta].gen) => MetaReads \subseteq {Plain, Refused}

\* docs/CONFIG_CENTER.md: services with integration need no INTERNAL_API_KEY of
\* their own, they get it from System. So a service that starts while System is
\* up and has the key ends up with the shared configuration.
CentreServes ==
    [][\A m \in Modules :
          (mod[m].pc = "loading" /\ mod[m].on /\ mod[m].api = Unset
           /\ sys.up /\ sys.api # Unset /\ mod'[m].pc = "running")
          => mod'[m].from \in {"system", "late"}]_configVars
=============================================================================
