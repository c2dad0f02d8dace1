--------------------------- MODULE ConfigCenterProofs ---------------------------
(***************************************************************************)
(* Proofs about ConfigCenter: which keys the services end up with, however *)
(* often System and they are restarted and whatever their environments.    *)
(***************************************************************************)
EXTENDS ConfigCenter, TLAPS

\* The row was stored by a start of System that has been, and if by the present
\* one then under its key.
RowOK ==
    /\ sys.up => sys.gen > 0
    /\ row.gen <= sys.gen
    /\ (row.gen = sys.gen /\ sys.gen > 0) => row.text = Sealed(sys.key)

\* A service with the shared configuration has an internal key, and the
\* encryption key of the start of System that it asked; what that start stored
\* is encrypted under it.
SharedOK(m) ==
    mod[m].from = "system" =>
        /\ mod[m].pc = "running" /\ mod[m].api # Unset
        /\ m = Manager => mod[m].on
        /\ 0 < mod[m].gen /\ mod[m].gen <= sys.gen
        /\ mod[m].key \in LongKeys
        /\ mod[m].gen = sys.gen => mod[m].key = sys.key
        /\ row.gen = mod[m].gen => row.text = Sealed(mod[m].key)

\* The inductive invariant.
ConfigInv ==
    /\ ConfigTypeOK
    /\ RowOK
    /\ \A m \in Modules : SharedOK(m)

-----------------------------------------------------------------------------
\* A key of 32 bytes opens what was encrypted under it, and leaves plain text
\* and what was encrypted under another key alone.
LEMMA OpenedOwn == \A k \in LongKeys : Opened(Sealed(k), k) = Plain
  BY DEF Opened

LEMMA OpenedPlain == \A k : Opened(Plain, k) = Plain
  BY DEF Opened, Plain, Sealed

LEMMA OpenedTwoWays == \A t, k : Opened(t, k) \in {t, Plain}
  BY DEF Opened

LEMMA ConfigInitInv == ConfigInit => ConfigInv
<1> SUFFICES ASSUME ConfigInit PROVE ConfigInv
  OBVIOUS
<1> USE ConfigAssumption DEF ConfigInit
<1>1. ConfigTypeOK
  BY DEF ConfigTypeOK, Processes, Off, LongKeys, Modules
<1>2. RowOK
  BY DEF RowOK
<1>3. \A m \in Modules : SharedOK(m)
  BY DEF SharedOK, Off
<1> QED BY <1>1, <1>2, <1>3 DEF ConfigInv

-----------------------------------------------------------------------------
(* One lemma for each kind of step. *)

LEMMA SystemStartInv == ConfigInv /\ SystemStart => ConfigInv'
<1> SUFFICES ASSUME ConfigInv, SystemStart PROVE ConfigInv'
  OBVIOUS
<1> USE ConfigAssumption
<1>1. PICK e \in SystemSettings :
         /\ SystemKey(e) # Malformed
         /\ sys' = [up |-> TRUE, key |-> SystemKey(e), api |-> e.api, gen |-> sys.gen + 1]
  BY DEF SystemStart
<1>2. /\ sys.gen \in Nat /\ sys.gen + 1 \in 0 .. MaxStart
      /\ row.gen \in Nat /\ row.gen <= sys.gen
  BY DEF SystemStart, ConfigInv, ConfigTypeOK, RowOK
<1>3. SystemKey(e) \in LongKeys /\ e.api \in ApiKeys \cup {Unset}
  BY <1>1 DEF SystemKey, LongKeys
<1>4. UNCHANGED <<row, mod>>
  BY DEF SystemStart
<1>5. ConfigTypeOK'
  BY <1>1, <1>2, <1>3, <1>4 DEF ConfigInv, ConfigTypeOK
<1>6. RowOK'
  BY <1>1, <1>2, <1>4 DEF RowOK
<1>7. ASSUME NEW m \in Modules PROVE SharedOK(m)'
  <2>1. SharedOK(m) /\ mod[m].gen \in Nat
    BY DEF ConfigInv, ConfigTypeOK, Processes
  <2> QED BY <2>1, <1>1, <1>2, <1>4 DEF SharedOK
<1> QED BY <1>5, <1>6, <1>7 DEF ConfigInv

LEMMA SystemStopInv == ConfigInv /\ SystemStop => ConfigInv'
<1> SUFFICES ASSUME ConfigInv, SystemStop PROVE ConfigInv'
  OBVIOUS
<1>1. ConfigTypeOK'
  BY DEF SystemStop, ConfigInv, ConfigTypeOK
<1>2. sys'.up = FALSE /\ sys'.key = sys.key /\ sys'.gen = sys.gen /\ UNCHANGED <<row, mod>>
  BY DEF SystemStop, ConfigInv, ConfigTypeOK
<1> QED BY <1>1, <1>2 DEF ConfigInv, RowOK, SharedOK

LEMMA StoreResourceInv == ConfigInv /\ StoreResource => ConfigInv'
<1> SUFFICES ASSUME ConfigInv, StoreResource PROVE ConfigInv'
  OBVIOUS
<1>1. ConfigTypeOK'
  BY DEF StoreResource, ConfigInv, ConfigTypeOK, Texts
<1>2. row' = [text |-> Sealed(sys.key), gen |-> sys.gen] /\ UNCHANGED <<sys, mod>> /\ sys.gen \in Nat
  BY DEF StoreResource, ConfigInv, ConfigTypeOK
<1>3. RowOK'
  BY <1>2 DEF ConfigInv, RowOK
<1>4. ASSUME NEW m \in Modules PROVE SharedOK(m)'
  BY <1>2 DEF ConfigInv, SharedOK
<1> QED BY <1>1, <1>3, <1>4 DEF ConfigInv

\* A step that only changes service m, and leaves m well-typed and SharedOK.
LEMMA ModuleStepInv ==
  ASSUME NEW m \in Modules, ConfigInv, UNCHANGED <<sys, row>>,
         NEW r, mod' = [mod EXCEPT ![m] = r], ConfigTypeOK', SharedOK(m)'
  PROVE  ConfigInv'
<1>1. ASSUME NEW v \in Modules, v # m PROVE SharedOK(v)'
  <2>1. mod'[v] = mod[v]
    BY <1>1 DEF ConfigInv, ConfigTypeOK
  <2> QED BY <2>1 DEF ConfigInv, SharedOK
<1> QED BY <1>1 DEF ConfigInv, RowOK

LEMMA ModuleStartInv ==
  ASSUME NEW m \in Modules, ConfigInv, ModuleStart(m) PROVE ConfigInv'
<1>1. PICK e \in ModuleSettings :
        mod' = [mod EXCEPT ![m] =
              [pc |-> "loading", on |-> e.on, api |-> e.api, key |-> e.key, db |-> e.db,
               from |-> "none", gen |-> 0]]
  BY DEF ModuleStart
<1>2. /\ e.on \in BOOLEAN /\ e.api \in ApiKeys \cup {Unset} /\ e.db \in BOOLEAN
      /\ e.key \in LongKeys \cup {Malformed, Unset}
  BY ConfigAssumption DEF LongKeys
<1>3. ConfigTypeOK' /\ SharedOK(m)' /\ UNCHANGED <<sys, row>>
  BY <1>1, <1>2, ConfigAssumption DEF ModuleStart, ConfigInv, ConfigTypeOK, Processes, SharedOK
<1> QED BY <1>1, <1>3, ModuleStepInv

LEMMA ModuleStopInv ==
  ASSUME NEW m \in Modules, ConfigInv, ModuleStop(m) PROVE ConfigInv'
<1>1. mod' = [mod EXCEPT ![m] = Off] /\ UNCHANGED <<sys, row>>
  BY DEF ModuleStop
<1>2. ConfigTypeOK' /\ SharedOK(m)'
  BY <1>1, ConfigAssumption DEF ConfigInv, ConfigTypeOK, Processes, SharedOK, Off
<1> QED BY <1>1, <1>2, ModuleStepInv

LEMMA RunLocallyInv ==
  ASSUME NEW m \in Modules, ConfigInv, UNCHANGED <<sys, row>>,
         NEW reason \in {"off", "refused", "late"}, RunLocally(m, reason)
  PROVE  ConfigInv'
<1> DEFINE r == IF mod[m].key = Malformed \/ ~mod[m].db THEN Off
                ELSE [mod[m] EXCEPT !.pc = "running", !.key = LocalKey(mod[m].key), !.from = reason]
<1>1. mod' = [mod EXCEPT ![m] = r]
  BY DEF RunLocally
<1>2. mod[m] \in Processes
  BY DEF ConfigInv, ConfigTypeOK
<1>3. /\ r \in Processes
      /\ r.from # "system"
  <2>1. CASE mod[m].key = Malformed \/ ~mod[m].db
    BY <2>1, ConfigAssumption DEF Processes, Off
  <2>2. CASE ~(mod[m].key = Malformed \/ ~mod[m].db)
    BY <2>2, <1>2 DEF Processes, LocalKey
  <2> QED BY <2>1, <2>2
<1> HIDE DEF r
<1>4. ConfigTypeOK' /\ mod'[m] = r
  BY <1>1, <1>3 DEF ConfigInv, ConfigTypeOK
<1>5. SharedOK(m)'
  BY <1>3, <1>4 DEF SharedOK
<1> QED BY <1>1, <1>4, <1>5, ModuleStepInv

\* The heart: the answer of System carries the key of its present start.
LEMMA LoadConfigInv ==
  ASSUME NEW m \in Modules, ConfigInv, LoadConfig(m) PROVE ConfigInv'
<1>1. UNCHANGED <<sys, row>>
  BY DEF LoadConfig
<1>2. CASE \/ ~mod[m].on /\ RunLocally(m, "off")
           \/ mod[m].on /\ ~Admits(mod[m].api) /\ RunLocally(m, "refused")
  BY <1>1, <1>2, RunLocallyInv
<1>3. CASE /\ mod[m].on /\ Admits(mod[m].api)
           /\ mod' = [mod EXCEPT ![m] = [mod[m] EXCEPT
                !.pc = "running", !.from = "system", !.gen = sys.gen,
                !.key = SharedKey(m),
                !.api = IF m = Meta /\ mod[m].api # Unset THEN mod[m].api ELSE sys.api]]
  <2> DEFINE r == [mod[m] EXCEPT
                !.pc = "running", !.from = "system", !.gen = sys.gen,
                !.key = SharedKey(m),
                !.api = IF m = Meta /\ mod[m].api # Unset THEN mod[m].api ELSE sys.api]
  <2>1. mod' = [mod EXCEPT ![m] = r]
    BY <1>3
  <2>2. SharedKey(m) = sys.key /\ sys.key \in LongKeys
    BY DEF SharedKey, ConfigInv, ConfigTypeOK
  <2>3. sys.up /\ sys.api # Unset /\ sys.gen > 0 /\ sys.gen \in 0 .. MaxStart
        /\ sys.api \in ApiKeys
    BY <1>3 DEF Admits, ConfigInv, RowOK, ConfigTypeOK
  <2>4. ConfigTypeOK'
    <3>1. mod[m] \in Processes
      BY DEF ConfigInv, ConfigTypeOK
    <3>2. r \in Processes
      BY <3>1, <2>2, <2>3 DEF Processes
    <3> QED BY <1>1, <2>1, <3>2 DEF ConfigInv, ConfigTypeOK
  <2>5. /\ mod'[m].pc = "running" /\ mod'[m].on /\ mod'[m].gen = sys.gen
        /\ mod'[m].key = sys.key /\ mod'[m].api # Unset
    BY <1>3, <2>1, <2>2, <2>3 DEF ConfigInv, ConfigTypeOK, Processes
  <2>6. SharedOK(m)'
    BY <1>1, <2>2, <2>3, <2>5 DEF ConfigInv, RowOK, SharedOK
  <2> QED BY <1>1, <2>1, <2>4, <2>6, ModuleStepInv
<1> QED BY <1>2, <1>3 DEF LoadConfig

LEMMA LoadTimeoutInv ==
  ASSUME NEW m \in Modules, ConfigInv, LoadTimeout(m) PROVE ConfigInv'
  BY RunLocallyInv DEF LoadTimeout

LEMMA ConfigNextInv == ConfigInv /\ [ConfigNext]_configVars => ConfigInv'
<1> SUFFICES ASSUME ConfigInv, [ConfigNext]_configVars PROVE ConfigInv'
  OBVIOUS
<1>1. CASE UNCHANGED configVars
  BY <1>1 DEF configVars, ConfigInv, ConfigTypeOK, RowOK, SharedOK
<1>2. CASE ConfigNext
  BY <1>2, SystemStartInv, SystemStopInv, StoreResourceInv, ModuleStartInv, LoadConfigInv,
     LoadTimeoutInv, ModuleStopInv DEF ConfigNext, ConfigStep
<1> QED BY <1>1, <1>2

\* Processes and the resource's row keep their types.
THEOREM ConfigInvariant == ConfigSpec => []ConfigInv
  BY ConfigInitInv, ConfigNextInv, PTL DEF ConfigSpec

-----------------------------------------------------------------------------
(* What follows from the invariant *)

LEMMA ManagerOpensFromInv == ConfigInv => ManagerOpens
<1> SUFFICES ASSUME ConfigInv, mod[Manager].from = "system", row.gen = mod[Manager].gen
             PROVE  ManagerReads = {Plain}
  BY DEF ManagerOpens
<1> DEFINE k == mod[Manager].key
<1>1. k \in LongKeys /\ row.text = Sealed(k)
  BY DEF ConfigInv, SharedOK, Modules
<1>2. FromSystem \in {Sealed(k), Plain}
  BY <1>1, OpenedTwoWays DEF FromSystem
<1> HIDE DEF k
<1>3. Opened(row.text, k) = Plain /\ Opened(FromSystem, k) = Plain
  BY <1>1, <1>2, OpenedOwn, OpenedPlain
<1> QED BY <1>3 DEF ManagerReads, k

LEMMA MetaOpensFromInv == ConfigInv => MetaOpens
<1> SUFFICES ASSUME ConfigInv, mod[Meta].from = "system"
             PROVE  /\ Masked \notin MetaReads
                    /\ (row.gen = sys.gen /\ sys.gen = mod[Meta].gen)
                          => MetaReads \subseteq {Plain, Refused}
  BY DEF MetaOpens
<1>1. HasClient(Meta)
  BY ConfigAssumption DEF ConfigInv, SharedOK, HasClient, Modules
<1>2. MetaReads \subseteq {Refused, FromSystem}
  BY <1>1 DEF MetaReads
<1>3. row.text \in Texts
  BY DEF ConfigInv, ConfigTypeOK
<1>4. FromSystem # Masked
  <2>1. row.text.form \in {"plain", "sealed"}
    BY <1>3 DEF Texts, Plain, Sealed
  <2>2. FromSystem \in {row.text, Plain}
    BY OpenedTwoWays DEF FromSystem
  <2> QED BY <2>1, <2>2 DEF Masked, Plain
<1>5. (row.gen = sys.gen /\ sys.gen = mod[Meta].gen) => FromSystem = Plain
  <2> SUFFICES ASSUME row.gen = sys.gen, sys.gen = mod[Meta].gen PROVE FromSystem = Plain
    OBVIOUS
  <2>1. sys.key \in LongKeys /\ row.text = Sealed(sys.key)
    BY DEF ConfigInv, ConfigTypeOK, SharedOK, Modules
  <2> QED BY <2>1, OpenedOwn DEF FromSystem
<1> QED BY <1>2, <1>4, <1>5 DEF Masked, Refused

\* Whatever the environments and the restarts of System and of its clients, a
\* Manager that got the shared configuration opens every password that the
\* System it asked has stored.
THEOREM ManagerAlwaysOpens == ConfigSpec => []ManagerOpens
  BY ConfigInvariant, ManagerOpensFromInv, PTL

\* A Meta service that got the shared configuration never uses a mask for a
\* password, nor a text that it cannot open while the System it asked runs.
THEOREM MetaAlwaysOpens == ConfigSpec => []MetaOpens
  BY ConfigInvariant, MetaOpensFromInv, PTL
=============================================================================
