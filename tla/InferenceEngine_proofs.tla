----------------------- MODULE InferenceEngine_proofs -----------------------
(***************************************************************************)
(* What holds of LocalInferenceEngine for every number of clients and of   *)
(* models, every limit and every policy.                                   *)
(***************************************************************************)
EXTENDS InferenceEngine, FiniteSetTheorems, TLAPS

USE EngineAssumption, PolicyAssumption DEF EngineAssumption

(***************************************************************************)
(* Type correctness                                                        *)
(***************************************************************************)

\* The estimates stay natural numbers when optimize_model scales them.
LEMMA ScaledIsNat == ASSUME NEW n \in Nat PROVE (n * 7) \div 10 \in Nat /\ (n * 8) \div 10 \in Nat
  OBVIOUS

RegistryOK == registry \in [Models -> Entry \cup {Absent}]

LEMMA EntryOfRegistered ==
  ASSUME RegistryOK, NEW m \in Models, registry[m].state # "Absent"
  PROVE  registry[m] \in Entry /\ m \in Registered
  BY DEF RegistryOK, Registered, Absent, Entry

LEMMA ShrunkOK ==
  ASSUME RegistryOK, NEW m \in Models, registry[m].state = "Idle",
         NEW state \in States, NEW tenths \in {7, 8}
  PROVE  Shrunk(m, state, tenths) \in [Models -> Entry \cup {Absent}]
<1>1. registry[m] \in Entry
  BY EntryOfRegistered
<1>2. (registry[m].mem * tenths) \div 10 \in Nat
  BY <1>1, ScaledIsNat DEF Entry
<1>3. [registry[m] EXCEPT !.state = state, !.mem = (@ * tenths) \div 10] \in Entry
  BY <1>1, <1>2 DEF Entry
<1> QED
  BY <1>3 DEF Shrunk, RegistryOK

\* The manager's operations keep the registry well typed.
LEMMA ManagerKeepsRegistryOK ==
  ASSUME RegistryOK, NEW m \in Models
  PROVE  /\ Register(m) => RegistryOK'
         /\ Unregister(m) => RegistryOK'
         /\ MarkActive(m) => RegistryOK'
         /\ MarkRequestComplete(m) => RegistryOK'
         /\ OptimizeModel(m) => RegistryOK'
         /\ MonitorTick(m) => RegistryOK'
<1>1. Register(m) => RegistryOK'
  BY DEF Register, RegistryOK, Entry, States
<1>2. Unregister(m) => RegistryOK'
  BY DEF Unregister, Drop, RegistryOK
<1>3. MarkActive(m) => RegistryOK'
  BY DEF MarkActive, RegistryOK, Entry, States, Absent, Registered
<1>4. MarkRequestComplete(m) => RegistryOK'
  <2> SUFFICES ASSUME MarkRequestComplete(m), m \in Registered PROVE RegistryOK'
    BY DEF MarkRequestComplete, RegistryOK
  <2>1. registry[m] \in Entry
    BY DEF RegistryOK, Registered
  <2> DEFINE left == IF registry[m].active = 0 THEN 0 ELSE registry[m].active - 1
             next == [registry[m] EXCEPT !.active = left,
                                         !.state  = IF left = 0 THEN "Idle" ELSE @]
  <2>2. left \in Nat
    BY <2>1 DEF Entry
  <2>3. next \in Entry
    BY <2>1, <2>2 DEF Entry, States
  <2>4. registry' = [registry EXCEPT ![m] = next]
    BY DEF MarkRequestComplete, RegistryOK
  <2> QED
    BY <2>3, <2>4 DEF RegistryOK
<1>5. OptimizeModel(m) => RegistryOK'
  BY ShrunkOK DEF OptimizeModel, RegistryOK, States
<1>6. MonitorTick(m) => RegistryOK'
  BY ShrunkOK DEF MonitorTick, RegistryOK, States
<1> QED
  BY <1>1, <1>2, <1>3, <1>4, <1>5, <1>6

LEMMA EnforcementKeepsRegistryOK ==
  ASSUME RegistryOK, NEW c \in Clients
  PROVE  /\ EnforceBegin(c) => RegistryOK'
         /\ Enforcement(c) => RegistryOK'
  BY DEF EnforceBegin, Enforcement, EnforceSnapshot, EnforceCheck, EnforceDrop, Drop, RegistryOK

LEMMA CountedIsNat ==
  ASSUME NEW S, NEW f \in [S -> Nat], NEW x
  PROVE  [f EXCEPT ![x] = @ + 1] \in [S -> Nat]
<1>1. CASE x \in S
  <2>1. f[x] + 1 \in Nat
    BY <1>1
  <2> QED
    BY <1>1, <2>1
<1>2. CASE x \notin S
  <2>1. [f EXCEPT ![x] = @ + 1] = f
    BY <1>2, Zenon
  <2> QED
    BY <2>1
<1> QED
  BY <1>1, <1>2

LEMMA TypeInit == Init => TypeOK
  BY DEF Init, RMInit, TypeOK, Handles, NoHandle, Ops, Pcs

LEMMA LoadKeepsTypeOK ==
  ASSUME TypeOK, NEW c \in Clients, Load(c)
  PROVE  TypeOK'
<1> USE DEF TypeOK, engineVars, locals, Goto, At, Move, Pcs, Ops, Handles, NoHandle
<1>0. RegistryOK
  BY DEF RegistryOK
<1>1. CASE Lookup(c)
  BY <1>1 DEF Lookup, rmVars
<1>2. CASE MarkCachedActive(c)
  <2>1. RegistryOK'
    BY <1>0, <1>2, ManagerKeepsRegistryOK DEF MarkCachedActive
  <2> QED
    BY <1>2, <2>1 DEF MarkCachedActive, AfterLoad, RegistryOK
<1>3. CASE CheckLimits(c)
  BY <1>3 DEF CheckLimits, rmVars
<1>4. CASE OptimizeIdle(c)
  <2>1. RegistryOK'
    BY <1>0, <1>4, ManagerKeepsRegistryOK DEF OptimizeIdle, rmVars, RegistryOK
  <2> QED
    BY <1>4, <2>1 DEF OptimizeIdle, RegistryOK
<1>5. CASE BeginEnforce(c)
  <2>1. RegistryOK'
    BY <1>0, <1>5, EnforcementKeepsRegistryOK DEF BeginEnforce, rmVars, RegistryOK
  <2> QED
    BY <1>5, <2>1 DEF BeginEnforce, RegistryOK
<1>6. CASE Enforce(c)
  <2>1. RegistryOK'
    BY <1>0, <1>6, EnforcementKeepsRegistryOK DEF Enforce
  <2> QED
    BY <1>6, <2>1 DEF Enforce, RegistryOK
<1>7. CASE Evict(c)
  BY <1>7 DEF Evict, rmVars
<1>8. CASE LoadConfig(c)
  <2>1. CASE created < MaxRequests /\ created' = created + 1 /\ handle' = [handle EXCEPT ![c] = created + 1]
    <3>1. created + 1 \in Handles /\ created + 1 \in 0..MaxRequests
      BY <2>1
    <3> QED
      BY <1>8, <2>1, <3>1 DEF LoadConfig, rmVars
  <2>2. CASE UNCHANGED <<created, handle>>
    BY <1>8, <2>2 DEF LoadConfig, rmVars
  <2> QED
    BY <1>8, <2>1, <2>2 DEF LoadConfig
<1>9. CASE CacheModel(c)
  BY <1>9 DEF CacheModel, rmVars
<1>10. CASE RegisterModel(c)
  <2>1. RegistryOK'
    BY <1>0, <1>10, ManagerKeepsRegistryOK DEF RegisterModel
  <2> QED
    BY <1>10, <2>1 DEF RegisterModel, AfterLoad, RegistryOK
<1> QED
  BY <1>1, <1>2, <1>3, <1>4, <1>5, <1>6, <1>7, <1>8, <1>9, <1>10 DEF Load

LEMMA InferKeepsTypeOK ==
  ASSUME TypeOK, NEW c \in Clients, Infer(c)
  PROVE  TypeOK'
<1> USE DEF TypeOK, engineVars, locals, Goto, At, Move, Pcs, Ops, Handles, NoHandle
<1>0. RegistryOK
  BY DEF RegistryOK
<1>1. CASE StartInference(c)
  <2>1. RegistryOK'
    BY <1>0, <1>1, ManagerKeepsRegistryOK DEF StartInference, rmVars, RegistryOK
  <2> QED
    BY <1>1, <2>1 DEF StartInference, RegistryOK
<1>2. CASE TestBusy(c)
  BY <1>2 DEF TestBusy, rmVars
<1>3. CASE Reject(c)
  <2>1. RegistryOK'
    BY <1>0, <1>3, ManagerKeepsRegistryOK DEF Reject
  <2> QED
    BY <1>3, <2>1 DEF Reject, RegistryOK
<1>4. CASE SetBusy(c)
  <2>1. busy' \in [Handles -> BOOLEAN]
    BY <1>4 DEF SetBusy
  <2>3. streams' \in [Handles -> Nat]
    <3>1. streams' = streams \/ streams' = [streams EXCEPT ![handle[c]] = @ + 1]
      BY <1>4, Zenon DEF SetBusy
    <3>2. streams \in [Handles -> Nat]
      OBVIOUS
    <3> HIDE DEF TypeOK, Handles
    <3>3. [streams EXCEPT ![handle[c]] = @ + 1] \in [Handles -> Nat]
      BY <3>2, CountedIsNat, Zenon
    <3> QED
      BY <3>1, <3>2, <3>3
  <2>2. pc' \in [Clients -> Pcs]
    BY <1>4, ZenonT(30) DEF SetBusy
  <2> QED
    BY <1>4, <2>1, <2>2, <2>3 DEF SetBusy, rmVars
<1>5. CASE FinishInference(c)
  BY <1>5 DEF FinishInference, rmVars
<1>6. CASE CompleteRequest(c)
  <2>1. RegistryOK'
    BY <1>0, <1>6, ManagerKeepsRegistryOK DEF CompleteRequest
  <2> QED
    BY <1>6, <2>1 DEF CompleteRequest, RegistryOK
<1> QED
  BY <1>1, <1>2, <1>3, <1>4, <1>5, <1>6 DEF Infer

LEMMA UnloadKeepsTypeOK ==
  ASSUME TypeOK, NEW c \in Clients, Unload(c)
  PROVE  TypeOK'
<1> USE DEF TypeOK, engineVars, locals, Goto, At, Move, Pcs, Ops, Handles, NoHandle
<1>0. RegistryOK
  BY DEF RegistryOK
<1>1. CASE CheckLoaded(c)
  BY <1>1 DEF CheckLoaded, rmVars
<1>2. CASE UnregisterModel(c)
  <2>1. RegistryOK'
    BY <1>0, <1>2, ManagerKeepsRegistryOK DEF UnregisterModel
  <2> QED
    BY <1>2, <2>1 DEF UnregisterModel, RegistryOK
<1>3. CASE RemoveFromCache(c)
  BY <1>3 DEF RemoveFromCache, rmVars
<1> QED
  BY <1>1, <1>2, <1>3 DEF Unload

LEMMA TypeNext == TypeOK /\ [Next]_vars => TypeOK'
<1> SUFFICES ASSUME TypeOK, [Next]_vars PROVE TypeOK'
  OBVIOUS
<1> USE DEF TypeOK, engineVars, locals, Goto, At, Pcs, Ops, Handles, NoHandle
<1>1. ASSUME NEW c \in Clients, NEW o \in Ops, NEW m \in Models, ReceiveRequest(c, o, m)
      PROVE  TypeOK'
  BY <1>1 DEF ReceiveRequest, rmVars
<1>2. ASSUME NEW c \in Clients, Handler(c)
      PROVE  TypeOK'
  BY <1>2, LoadKeepsTypeOK, InferKeepsTypeOK, UnloadKeepsTypeOK DEF Handler
<1>3. ASSUME NEW c \in Clients, Cancel(c)
      PROVE  TypeOK'
  <2>0. abandoned' = abandoned \/ abandoned' = abandoned \cup {handle[c]}
    BY <1>3, Zenon DEF Cancel
  <2>1. abandoned' \subseteq {NoHandle} \cup Handles
    <3>1. handle[c] \in {NoHandle} \cup Handles
      OBVIOUS
    <3> QED
      BY <2>0, <3>1, Zenon
  <2>2. /\ UNCHANGED <<registry, budget, created, loaded, busy, streams>>
        /\ UNCHANGED <<op, model, handle>>
    BY <1>3, Zenon DEF Cancel, rmVars
  <2>3. pc' \in [Clients -> Pcs]
    BY <1>3 DEF Cancel
  <2> QED
    BY <2>1, <2>2, <2>3
<1>4. ASSUME NEW h \in Handles, FinishStream(h)
      PROVE  TypeOK'
  BY <1>4 DEF FinishStream, rmVars
<1>5. CASE Monitor
  <2>1. RegistryOK'
    BY <1>5, ManagerKeepsRegistryOK DEF Monitor, RegistryOK
  <2> QED
    BY <1>5, <2>1 DEF Monitor, RegistryOK
<1>6. CASE UNCHANGED vars
  BY <1>6 DEF vars, rmVars
<1> QED
  BY <1>1, <1>2, <1>3, <1>4, <1>5, <1>6 DEF Next

\* Every state of the engine is well typed: counters of the registry never
\* become negative, and no request refers to a handle that was not created.
THEOREM TypeCorrect == Spec => []TypeOK
<1> QED
  BY TypeInit, TypeNext, PTL DEF Spec

(***************************************************************************)
(* The busy flag                                                           *)
(***************************************************************************)

\* A step of request c that runs no inference before it, and leaves the flags
\* and the streams alone, takes no owner away.
LEMMA BusyFrame ==
  ASSUME BusyHasOwner, UNCHANGED <<busy, streams, abandoned>>,
         NEW c, pc[c] # "running",
         \A d \in Clients \ {c} : pc'[d] = pc[d] /\ handle'[d] = handle[d]
  PROVE  BusyHasOwner'
  BY DEF BusyHasOwner

LEMMA LoadKeepsBusyHasOwner ==
  ASSUME TypeOK, BusyHasOwner, NEW c \in Clients, Load(c)
  PROVE  BusyHasOwner'
<1> USE DEF Move, At, Goto
<1>1. pc[c] # "running"
  BY DEF Load, Lookup, MarkCachedActive, CheckLimits, OptimizeIdle, BeginEnforce,
         Enforce, Evict, LoadConfig, CacheModel, RegisterModel
<1>2. UNCHANGED <<busy, streams, abandoned>>
  BY Zenon DEF Load, Lookup, MarkCachedActive, CheckLimits, OptimizeIdle, BeginEnforce,
               Enforce, Evict, LoadConfig, CacheModel, RegisterModel, engineVars
<1>3. \E p \in Pcs : pc' = [pc EXCEPT ![c] = p] \/ UNCHANGED pc
  BY DEF Load, Lookup, MarkCachedActive, CheckLimits, OptimizeIdle, BeginEnforce,
         Enforce, Evict, LoadConfig, CacheModel, RegisterModel, AfterLoad, Pcs
<1>4. \E h : handle' = [handle EXCEPT ![c] = h] \/ UNCHANGED handle
  BY DEF Load, Lookup, MarkCachedActive, CheckLimits, OptimizeIdle, BeginEnforce,
         Enforce, Evict, LoadConfig, CacheModel, RegisterModel, locals
<1> QED
  BY <1>1, <1>2, <1>3, <1>4, BusyFrame DEF TypeOK

LEMMA UnloadKeepsBusyHasOwner ==
  ASSUME TypeOK, BusyHasOwner, NEW c \in Clients, Unload(c)
  PROVE  BusyHasOwner'
  BY BusyFrame DEF TypeOK, Unload, CheckLoaded, UnregisterModel, RemoveFromCache,
                   Move, At, Goto, engineVars, locals

LEMMA InferKeepsBusyHasOwner ==
  ASSUME TypeOK, BusyHasOwner, NEW c \in Clients, Infer(c)
  PROVE  BusyHasOwner'
<1> USE DEF Move, At, Goto
<1>1. CASE StartInference(c)
  BY <1>1, BusyFrame DEF StartInference, TypeOK, engineVars, locals
<1>2. CASE TestBusy(c)
  BY <1>2, BusyFrame DEF TestBusy, TypeOK, engineVars, locals
<1>3. CASE Reject(c)
  BY <1>3, BusyFrame DEF Reject, TypeOK, engineVars, locals
<1>4. CASE SetBusy(c) /\ op[c] = "infer"
  BY <1>4 DEF SetBusy, TypeOK, BusyHasOwner, locals
<1>5. CASE SetBusy(c) /\ op[c] # "infer"
  <2>1. /\ busy' = [busy EXCEPT ![handle[c]] = TRUE]
        /\ streams' = [streams EXCEPT ![handle[c]] = @ + 1]
        /\ UNCHANGED <<handle, abandoned>>
        /\ pc' = [pc EXCEPT ![c] = "idle"]
    BY <1>5 DEF SetBusy, locals
  <2>2. pc[c] = "set"
    BY <1>5 DEF SetBusy
  <2> SUFFICES ASSUME NEW h \in Handles, busy'[h]
               PROVE  \/ \E d \in Clients : pc'[d] = "running" /\ handle'[d] = h
                      \/ streams'[h] > 0
                      \/ h \in abandoned'
    BY DEF BusyHasOwner
  <2>3. CASE h = handle[c]
    <3>1. streams[h] \in Nat
      BY DEF TypeOK
    <3>2. streams'[h] = streams[h] + 1
      BY <2>1, <2>3 DEF TypeOK
    <3> QED
      BY <3>1, <3>2
  <2>4. CASE h # handle[c]
    <3>1. busy[h] /\ streams'[h] = streams[h]
      BY <2>1, <2>4 DEF TypeOK
    <3> QED
      BY <2>1, <2>2, <3>1 DEF TypeOK, BusyHasOwner
  <2> QED
    BY <2>3, <2>4
<1>6. CASE FinishInference(c)
  BY <1>6 DEF FinishInference, TypeOK, BusyHasOwner, locals
<1>7. CASE CompleteRequest(c)
  BY <1>7, BusyFrame DEF CompleteRequest, TypeOK, engineVars, locals
<1> QED
  BY <1>1, <1>2, <1>3, <1>4, <1>5, <1>6, <1>7 DEF Infer

LEMMA BusyHasOwnerNext == TypeOK /\ BusyHasOwner /\ [Next]_vars => BusyHasOwner'
<1> SUFFICES ASSUME TypeOK, BusyHasOwner, [Next]_vars PROVE BusyHasOwner'
  OBVIOUS
<1> USE DEF At, Goto, TypeOK
<1>1. ASSUME NEW c \in Clients, NEW o \in Ops, NEW m \in Models, ReceiveRequest(c, o, m)
      PROVE  BusyHasOwner'
  BY <1>1, BusyFrame DEF ReceiveRequest
<1>2. ASSUME NEW c \in Clients, Handler(c)
      PROVE  BusyHasOwner'
  BY <1>2, LoadKeepsBusyHasOwner, InferKeepsBusyHasOwner, UnloadKeepsBusyHasOwner DEF Handler
<1>3. ASSUME NEW c \in Clients, Cancel(c)
      PROVE  BusyHasOwner'
  <2>1. UNCHANGED <<busy, streams, handle>> /\ pc' = [pc EXCEPT ![c] = "idle"]
    BY <1>3, Zenon DEF Cancel, locals
  <2>2. abandoned \subseteq abandoned' /\ (pc[c] = "running" => handle[c] \in abandoned')
    BY <1>3, Zenon DEF Cancel
  <2> QED
    BY <2>1, <2>2 DEF BusyHasOwner
<1>4. ASSUME NEW h \in Handles, FinishStream(h)
      PROVE  BusyHasOwner'
  BY <1>4 DEF FinishStream, BusyHasOwner, locals
<1>5. CASE Monitor
  BY <1>5 DEF Monitor, BusyHasOwner, engineVars, locals
<1>6. CASE UNCHANGED vars
  BY <1>6 DEF vars, BusyHasOwner, engineVars, locals
<1> QED
  BY <1>1, <1>2, <1>3, <1>4, <1>5, <1>6 DEF Next

\* Whatever the interleaving of the two critical sections in which a request
\* tests and sets is_busy, a flag that stays set without anybody working on the
\* handle is always the work of a client that disconnected.
THEOREM BusyAlwaysHasOwner == Spec => []BusyHasOwner
<1>1. Init => BusyHasOwner
  BY DEF Init, BusyHasOwner
<1> QED
  BY <1>1, BusyHasOwnerNext, TypeCorrect, PTL DEF Spec

(***************************************************************************)
(* The limit of loaded models                                              *)
(***************************************************************************)

\* Cached and Inserting are finite, whatever the state.
LEMMA CountsAreNat ==
  /\ IsFiniteSet(Cached) /\ IsFiniteSet(Inserting)
  /\ Cardinality(Cached) \in Nat /\ Cardinality(Inserting) \in Nat
  /\ Cardinality(Clients) \in Nat /\ Cardinality(Inserting) <= Cardinality(Clients)
<1>1. Cached \in SUBSET Models /\ Inserting \in SUBSET Clients
  BY DEF Cached, Inserting
<1> QED
  BY <1>1, FS_Subset, FS_CardinalityType

LEMMA CountsAreNatNext ==
  /\ IsFiniteSet(Cached') /\ IsFiniteSet(Inserting')
  /\ Cardinality(Cached') \in Nat /\ Cardinality(Inserting') \in Nat
  /\ Cardinality(Inserting') <= Cardinality(Clients)
<1>1. Cached' \in SUBSET Models /\ Inserting' \in SUBSET Clients
  BY DEF Cached, Inserting
<1> QED
  BY <1>1, FS_Subset, FS_CardinalityType

\* A step that neither caches a model nor makes room for one keeps the bound.
LEMMA OvershootFrame ==
  ASSUME OvershootBounded, Cached' \subseteq Cached, Inserting' \subseteq Inserting
  PROVE  OvershootBounded'
<1>1. Cardinality(Cached') <= Cardinality(Cached)
  BY CountsAreNat, FS_Subset
<1>2. Cardinality(Inserting') <= Cardinality(Inserting)
  BY CountsAreNat, FS_Subset
<1> QED
  BY <1>1, <1>2, CountsAreNat, CountsAreNatNext DEF OvershootBounded, Capacity, PolicyAssumption

\* evict_if_needed reserves a place: it removes a model of a full cache, and a
\* cache that is not full has place for one model of every client.
LEMMA EvictKeepsOvershootBounded ==
  ASSUME TypeOK, OvershootBounded, NEW c \in Clients, Evict(c)
  PROVE  OvershootBounded'
<1>1. Inserting' = Inserting \cup {c} /\ c \notin Inserting
  BY DEF Evict, Move, At, Goto, Inserting, TypeOK
<1>2. Cardinality(Inserting') = Cardinality(Inserting) + 1
  BY <1>1, CountsAreNat, FS_AddElement
<1>3. CASE Cardinality(Cached) >= MaxLoaded /\ Cached # {}
  <2>1. PICK m \in Cached : loaded' = [loaded EXCEPT ![m] = NoHandle]
    BY <1>3 DEF Evict, Oldest
  <2>2. Cached' = Cached \ {m}
    BY <2>1 DEF Cached, TypeOK
  <2>3. Cardinality(Cached') = Cardinality(Cached) - 1
    BY <2>1, <2>2, CountsAreNat, FS_RemoveElement
  <2> QED
    BY <1>2, <2>3, CountsAreNat, CountsAreNatNext
    DEF OvershootBounded, Capacity, PolicyAssumption
<1>4. CASE ~(Cardinality(Cached) >= MaxLoaded /\ Cached # {})
  <2>1. Cached' = Cached
    BY <1>4 DEF Evict, Cached
  <2>2. Cardinality(Cached) <= Capacity - 1
    <3>1. CASE Cached = {}
      BY <3>1, FS_EmptySet DEF Capacity, PolicyAssumption
    <3>2. CASE Cached # {}
      BY <1>4, <3>2, CountsAreNat DEF Capacity, PolicyAssumption
    <3> QED
      BY <3>1, <3>2
  <2> QED
    BY <2>1, <2>2, CountsAreNat, CountsAreNatNext
    DEF OvershootBounded, Capacity, PolicyAssumption
<1> QED
  BY <1>3, <1>4

\* cache_model uses the place that was reserved.
LEMMA CacheModelKeepsOvershootBounded ==
  ASSUME TypeOK, OvershootBounded, NEW c \in Clients, CacheModel(c)
  PROVE  OvershootBounded'
<1>1. Inserting' = Inserting \ {c} /\ c \in Inserting
  BY DEF CacheModel, Move, At, Goto, Inserting, TypeOK
<1>2. Cardinality(Inserting') = Cardinality(Inserting) - 1
  BY <1>1, CountsAreNat, FS_RemoveElement
<1>3. Cached' \subseteq Cached \cup {model[c]}
  BY DEF CacheModel, Cached, TypeOK
<1>4. Cardinality(Cached') <= Cardinality(Cached) + 1
  <2>1. /\ IsFiniteSet(Cached \cup {model[c]})
        /\ Cardinality(Cached \cup {model[c]}) \in Nat
        /\ Cardinality(Cached \cup {model[c]}) <= Cardinality(Cached) + 1
    <3>1. /\ IsFiniteSet(Cached \cup {model[c]})
          /\ Cardinality(Cached \cup {model[c]}) =
               IF model[c] \in Cached THEN Cardinality(Cached) ELSE Cardinality(Cached) + 1
      BY CountsAreNat, FS_AddElement
    <3> QED
      BY <3>1, CountsAreNat
  <2>2. Cardinality(Cached') <= Cardinality(Cached \cup {model[c]})
    BY <1>3, <2>1, FS_Subset
  <2> QED
    BY <2>1, <2>2, CountsAreNat, CountsAreNatNext
<1> QED
  BY <1>2, <1>4, CountsAreNat, CountsAreNatNext
  DEF OvershootBounded, Capacity, PolicyAssumption

LEMMA OvershootNext == TypeOK /\ OvershootBounded /\ [Next]_vars => OvershootBounded'
<1> SUFFICES ASSUME TypeOK, OvershootBounded, [Next]_vars PROVE OvershootBounded'
  OBVIOUS
<1> USE DEF At, Goto, Move, TypeOK, Cached, Inserting
<1>1. ASSUME NEW c \in Clients, NEW o \in Ops, NEW m \in Models, ReceiveRequest(c, o, m)
      PROVE  OvershootBounded'
  BY <1>1, OvershootFrame DEF ReceiveRequest
<1>2. ASSUME NEW c \in Clients, Handler(c)
      PROVE  OvershootBounded'
  <2> USE DEF engineVars, AfterLoad
  <2>1. CASE Lookup(c)
    BY <2>1, OvershootFrame DEF Lookup
  <2>2. CASE MarkCachedActive(c)
    BY <2>2, OvershootFrame DEF MarkCachedActive
  <2>3. CASE CheckLimits(c)
    BY <2>3, OvershootFrame DEF CheckLimits
  <2>4. CASE OptimizeIdle(c)
    BY <2>4, OvershootFrame DEF OptimizeIdle
  <2>5. CASE BeginEnforce(c)
    BY <2>5, OvershootFrame DEF BeginEnforce
  <2>6. CASE Enforce(c)
    BY <2>6, OvershootFrame DEF Enforce
  <2>7. CASE Evict(c)
    BY <2>7, EvictKeepsOvershootBounded
  <2>8. CASE LoadConfig(c)
    BY <2>8, OvershootFrame DEF LoadConfig
  <2>9. CASE CacheModel(c)
    BY <2>9, CacheModelKeepsOvershootBounded
  <2>10. CASE RegisterModel(c)
    BY <2>10, OvershootFrame DEF RegisterModel
  <2>11. CASE Infer(c)
    BY <2>11, OvershootFrame
    DEF Infer, StartInference, TestBusy, Reject, SetBusy, FinishInference, CompleteRequest
  <2>12. CASE Unload(c)
    BY <2>12, OvershootFrame
    DEF Unload, CheckLoaded, UnregisterModel, RemoveFromCache
  <2> QED
    BY <1>2, <2>1, <2>2, <2>3, <2>4, <2>5, <2>6, <2>7, <2>8, <2>9, <2>10, <2>11, <2>12
    DEF Handler, Load
<1>3. ASSUME NEW c \in Clients, Cancel(c)
      PROVE  OvershootBounded'
  <2>1. UNCHANGED loaded /\ pc' = [pc EXCEPT ![c] = "idle"]
    BY <1>3, Zenon DEF Cancel
  <2> QED
    BY <2>1, OvershootFrame
<1>4. ASSUME NEW h \in Handles, FinishStream(h)
      PROVE  OvershootBounded'
  BY <1>4, OvershootFrame DEF FinishStream
<1>5. CASE Monitor
  BY <1>5, OvershootFrame DEF Monitor, engineVars
<1>6. CASE UNCHANGED vars
  BY <1>6, OvershootFrame DEF vars, engineVars
<1> QED
  BY <1>1, <1>2, <1>3, <1>4, <1>5, <1>6 DEF Next

\* The checks of max_loaded_models race, yet N concurrent requests never hold
\* more than N - 1 models beyond the limit: with a single request at a time the
\* limit is exact.  At least one client is served.
THEOREM OvershootAlwaysBounded ==
  ASSUME Clients # {}
  PROVE  Spec => []OvershootBounded
<1>1. Init => OvershootBounded
  <2> SUFFICES ASSUME Init PROVE OvershootBounded
    OBVIOUS
  <2>1. Cached = {} /\ Inserting = {}
    BY DEF Init, Cached, Inserting
  <2>2. Cardinality(Clients) >= 1
    BY FS_EmptySet, FS_CardinalityType
  <2> QED
    BY <2>1, <2>2, FS_EmptySet, CountsAreNat DEF OvershootBounded, Capacity, PolicyAssumption
<1> QED
  BY <1>1, OvershootNext, TypeCorrect, PTL DEF Spec

-----------------------------------------------------------------------------
(***************************************************************************)
(* What holds of the resource manager under every policy, for every set of *)
(* models and callers, whatever its monitor does in between.               *)
(***************************************************************************)

USE PolicyAssumption DEF PolicyAssumption

\* The part of RMTypeOK the argument needs.
RegistryTyped == registry \in [Models -> Entry \cup {Absent}]

\* RestingMeansUnused, said of each place of the registry: an absent model has
\* no request either, so that the two say the same.
Unused(e) == e.state # "Active" => e.active = 0

RegistryInv == RegistryTyped /\ \A m \in Models : Unused(registry[m])

LEMMA AbsentIsUnused == Unused(Absent)
  BY DEF Unused, Absent

\* Changing one place keeps the invariant if the new entry does; the place may
\* also lie outside of the registry.
LEMMA PlaceUpdated ==
  ASSUME RegistryInv, NEW m, NEW e,
         m \in Models => e \in Entry \cup {Absent} /\ Unused(e),
         registry' = [registry EXCEPT ![m] = e]
  PROVE  RegistryInv'
  BY DEF RegistryInv, RegistryTyped

\* A resting entry keeps its count of zero when its estimate shrinks.
LEMMA ShrunkIsUnused ==
  ASSUME RegistryInv, NEW m \in Models, NEW state \in States, NEW tenths \in Nat,
         registry[m].state \in States, registry[m].state # "Active"
  PROVE  /\ Shrunk(m, state, tenths)[m] \in Entry /\ Unused(Shrunk(m, state, tenths)[m])
         /\ Shrunk(m, state, tenths) = [registry EXCEPT ![m] = Shrunk(m, state, tenths)[m]]
<1>1. registry[m] \in Entry /\ registry[m].active = 0
  BY DEF RegistryInv, RegistryTyped, Unused, Entry, Absent, States
<1>2. (registry[m].mem * tenths) \div 10 \in Nat
  BY <1>1 DEF Entry
<1> QED
  BY <1>1, <1>2 DEF RegistryInv, RegistryTyped, Shrunk, Entry, Unused

LEMMA MarksKeepRegistryInv ==
  ASSUME RegistryInv, NEW m \in Models,
         MarkActive(m) \/ (registry[m].state = "Active" /\ MarkRequestComplete(m))
  PROVE  RegistryInv'
<1>1. CASE m \notin Registered
  BY <1>1 DEF MarkActive, MarkRequestComplete, RegistryInv, RegistryTyped
<1>2. CASE m \in Registered
  <2>1. registry[m] \in Entry
    BY <1>2 DEF RegistryInv, RegistryTyped, Registered
  <2>2. CASE MarkActive(m)
    <3>1. registry' = [registry EXCEPT ![m] =
            [state |-> "Active", active |-> registry[m].active + 1, mem |-> registry[m].mem]]
      BY <1>2, <2>1, <2>2 DEF MarkActive, RegistryInv, RegistryTyped, Entry
    <3>2. [state |-> "Active", active |-> registry[m].active + 1, mem |-> registry[m].mem]
            \in Entry
      BY <2>1 DEF Entry, States
    <3> QED
      BY <3>1, <3>2, PlaceUpdated DEF Unused
  <2>3. CASE registry[m].state = "Active" /\ MarkRequestComplete(m)
    <3> DEFINE left == IF registry[m].active = 0 THEN 0 ELSE registry[m].active - 1
               e == [registry[m] EXCEPT !.active = left,
                                        !.state  = IF left = 0 THEN "Idle" ELSE @]
    <3>1. left \in Nat
      BY <2>1 DEF Entry
    <3>2. registry' = [registry EXCEPT ![m] = e]
      BY <1>2, <2>3 DEF MarkRequestComplete, RegistryInv, RegistryTyped
    <3>3. e \in Entry /\ Unused(e)
      BY <2>1, <2>3, <3>1 DEF Entry, States, Unused
    <3> QED
      BY <3>2, <3>3, PlaceUpdated
  <2> QED
    BY <2>2, <2>3
<1> QED
  BY <1>1, <1>2

LEMMA RegistryInvNext == RegistryInv /\ [RMNext]_rmVars => RegistryInv'
<1> SUFFICES ASSUME RegistryInv, [RMNext]_rmVars PROVE RegistryInv'
  OBVIOUS
<1>1. ASSUME NEW m \in Models, Register(m) PROVE RegistryInv'
  <2>1. [state |-> "Active", active |-> 0, mem |-> FileSize[m]] \in Entry
    BY DEF Entry, States
  <2> QED
    BY <1>1, <2>1, PlaceUpdated DEF Register, Unused
<1>2. ASSUME NEW m, Drop(m) PROVE RegistryInv'
  BY <1>2, AbsentIsUnused, PlaceUpdated DEF Drop
<1>3. ASSUME NEW m \in Models,
             MarkActive(m) \/ (registry[m].state = "Active" /\ MarkRequestComplete(m))
      PROVE  RegistryInv'
  BY <1>3, MarksKeepRegistryInv
<1>4. ASSUME NEW m \in Models, OptimizeModel(m) \/ MonitorTick(m) PROVE RegistryInv'
  <2>1. registry[m].state \in States /\ registry[m].state # "Active"
    BY <1>4 DEF OptimizeModel, MonitorTick, States
  <2>2. \/ registry' = Shrunk(m, "OffloadedToCpu", 7)
        \/ registry' = Shrunk(m, "Optimized", 8)
    BY <1>4 DEF OptimizeModel, MonitorTick
  <2> QED
    BY <2>1, <2>2, ShrunkIsUnused, PlaceUpdated DEF States
<1>5. ASSUME ReceiveOptimize PROVE RegistryInv'
  <2> SUFFICES ASSUME NEW m \in Models
               PROVE  registry'[m] \in Entry \cup {Absent} /\ Unused(registry'[m])
    BY <1>5 DEF ReceiveOptimize, RegistryInv, RegistryTyped
  <2>1. CASE OptimizeIdleMemory /\ registry[m].state = "Idle" /\ registry[m].active = 0
    <3>1. registry'[m] = Shrunk(m, "Optimized", 8)[m]
      BY <1>5, <2>1 DEF ReceiveOptimize
    <3> QED
      BY <2>1, <3>1, ShrunkIsUnused DEF States
  <2>2. CASE ~(OptimizeIdleMemory /\ registry[m].state = "Idle" /\ registry[m].active = 0)
    <3>1. registry'[m] = registry[m]
      BY <1>5, <2>2 DEF ReceiveOptimize
    <3> QED
      BY <3>1 DEF RegistryInv, RegistryTyped
  <2> QED
    BY <2>1, <2>2
<1>6. ASSUME UNCHANGED registry PROVE RegistryInv'
  BY <1>6 DEF RegistryInv, RegistryTyped
<1>7. ASSUME NEW c \in Callers, EnforceBegin(c) \/ Enforcement(c) PROVE RegistryInv'
  <2>1. CASE EnforceBegin(c) \/ EnforceSnapshot(c) \/ EnforceCheck(c)
    BY <1>6, <2>1 DEF EnforceBegin, EnforceSnapshot, EnforceCheck
  <2>2. CASE EnforceDrop(c)
    BY <1>2, <1>6, <2>2 DEF EnforceDrop
  <2> QED
    BY <1>7, <2>1, <2>2 DEF Enforcement
<1>8. ASSUME (\E cmd \in {"OptimizeMemory", "Shutdown"} : SendCommand(cmd)) \/ ReceiveShutdown
      PROVE  RegistryInv'
  BY <1>6, <1>8 DEF SendCommand, ReceiveShutdown
<1>9. ASSUME UNCHANGED rmVars PROVE RegistryInv'
  BY <1>6, <1>9 DEF rmVars
<1>10. CASE \E m \in Models :
              \/ Register(m)
              \/ Unregister(m)
              \/ registry[m].active < MaxActive /\ MarkActive(m)
              \/ registry[m].state = "Active" /\ MarkRequestComplete(m)
              \/ OptimizeModel(m)
              \/ MonitorTick(m)
  <2>1. PICK m \in Models :
              \/ Register(m) \/ Unregister(m) \/ OptimizeModel(m) \/ MonitorTick(m)
              \/ MarkActive(m) \/ (registry[m].state = "Active" /\ MarkRequestComplete(m))
    BY <1>10
  <2>2. CASE Register(m)
    BY <1>1, <2>2
  <2>3. CASE Unregister(m)
    BY <1>2, <2>3 DEF Unregister
  <2>4. CASE OptimizeModel(m) \/ MonitorTick(m)
    BY <1>4, <2>4
  <2>5. CASE MarkActive(m) \/ (registry[m].state = "Active" /\ MarkRequestComplete(m))
    BY <1>3, <2>5
  <2> QED
    BY <2>1, <2>2, <2>3, <2>4, <2>5
<1> QED
  BY <1>5, <1>7, <1>8, <1>9, <1>10 DEF RMNext, Receive

\* The idle paths and the monitor select models by their state and never look at
\* the count of requests: no interleaving of registrations, requests, phases of
\* enforcement and commands makes them find a model in use.
THEOREM RestingAlwaysUnused == RMSpec => []RestingMeansUnused
<1>1. RMInit => RegistryInv
  BY AbsentIsUnused DEF RMInit, RegistryInv, RegistryTyped
<1>2. RegistryInv => RestingMeansUnused
  BY DEF RegistryInv, RestingMeansUnused, Registered, Unused
<1> QED
  BY <1>1, <1>2, RegistryInvNext, PTL DEF RMSpec
=============================================================================
