-------------------------- MODULE InferenceEngine --------------------------
(***************************************************************************)
(* LocalInferenceEngine (model/local_engine.rs) with its ResourceManager,  *)
(* driven by the HTTP handlers of server/handlers.rs.  A client is one     *)
(* request slot: an axum task that runs one handler.  The cache of loaded  *)
(* models, the registry of the manager and the busy flag of a handle are   *)
(* three separately locked pieces of state, so every critical section is   *)
(* an action of its own and the requests interleave between them.          *)
(*                                                                         *)
(* A handle is a number: the n-th ModelHandle created.  The number stands  *)
(* for the uuid and orders the handles by loaded_at.                       *)
(***************************************************************************)
EXTENDS ResourceManager

CONSTANTS
  Clients,      \* concurrently served requests
  Disconnects,  \* may a client disconnect while its request is served?
  MaxRequests   \* bound of the model: requests received in all

ASSUME EngineAssumption ==
  /\ Callers = Clients
  /\ IsFiniteSet(Clients)
  /\ IsFiniteSet(Models)
  /\ Disconnects \in BOOLEAN
  /\ MaxRequests \in Nat

NoHandle == 0
Handles  == 1..MaxRequests  \* a request creates at most one handle
Ops      == {"infer", "stream", "load", "unload"}
Pcs      == {"idle", "check", "lookup", "hit", "miss", "optimize", "enforce",
             "enforcing", "evict", "config", "insert", "register", "loaded",
             "test", "reject", "set", "running", "complete", "unregister", "uncache"}

VARIABLES
  budget,    \* requests that may still be received
  created,   \* handles created so far
  loaded,    \* loaded[m]: the cached handle of m (loaded_models)
  busy,      \* busy[h]: is_busy in the state of handle h
  streams,   \* streams[h]: spawned streaming tasks running on h
  abandoned, \* history: handles on which a running inference was cancelled
  pc, op, model, handle  \* of each client: position, handler, its locals

engineVars == <<budget, created, loaded, busy, streams, abandoned>>
locals     == <<op, model, handle>>
vars       == <<rmVars, engineVars, pc, locals>>

Init ==
  /\ RMInit
  /\ budget = MaxRequests
  /\ created = 0
  /\ loaded = [m \in Models |-> NoHandle]
  /\ busy = [h \in Handles |-> FALSE]
  /\ streams = [h \in Handles |-> 0]
  /\ abandoned = {}
  /\ pc = [c \in Clients |-> "idle"]
  /\ op = [c \in Clients |-> "load"]
  /\ model \in [Clients -> Models]
  /\ handle = [c \in Clients |-> NoHandle]

Goto(c, next) == pc' = [pc EXCEPT ![c] = next]
At(c, here)   == pc[c] = here
Move(c, here, next) == At(c, here) /\ Goto(c, next)

Cached == {m \in Models : loaded[m] # NoHandle}

-----------------------------------------------------------------------------
\* A handler starts.  The prompt and metadata checks that fail return before
\* they touch the engine and are not modelled as requests.
ReceiveRequest(c, o, m) ==
  /\ At(c, "idle")
  /\ budget > 0
  /\ budget' = budget - 1
  /\ op' = [op EXCEPT ![c] = o]
  /\ model' = [model EXCEPT ![c] = m]
  /\ handle' = [handle EXCEPT ![c] = NoHandle]
  /\ Goto(c, IF o = "unload" THEN "check" ELSE "lookup")
  /\ UNCHANGED <<rmVars, created, loaded, busy, streams, abandoned>>

\* unload_model: is_loaded and get_model_info; either may find nothing.
CheckLoaded(c) ==
  /\ At(c, "check")
  /\ Goto(c, IF model[c] \in Cached THEN "lookup" ELSE "idle")
  /\ UNCHANGED <<rmVars, engineVars, locals>>

\* load_model: get_cached_model.
Lookup(c) ==
  /\ At(c, "lookup")
  /\ handle' = [handle EXCEPT ![c] = loaded[model[c]]]
  /\ Goto(c, IF model[c] \in Cached THEN "hit" ELSE "miss")
  /\ UNCHANGED <<rmVars, engineVars, op, model>>

AfterLoad(c) == CASE op[c] = "load"   -> "idle"
                  [] op[c] = "unload" -> "unregister"
                  [] OTHER            -> "loaded"

MarkCachedActive(c) ==
  /\ Move(c, "hit", AfterLoad(c))
  /\ MarkActive(model[c])
  /\ UNCHANGED <<engineVars, locals>>

\* model_exists and is_over_limit.
CheckLimits(c) ==
  /\ At(c, "miss")
  /\ \/ Goto(c, IF IsOverLimit THEN "optimize" ELSE "evict")
     \/ Goto(c, "idle")  \* Err(ModelNotFound)
  /\ UNCHANGED <<rmVars, engineVars, locals>>

OptimizeIdle(c) ==
  /\ At(c, "optimize")
  /\ \/ \E m \in Models : OptimizeModel(m) /\ UNCHANGED pc
     \/ Goto(c, "enforce") /\ UNCHANGED rmVars
  /\ UNCHANGED <<engineVars, locals>>

BeginEnforce(c) ==
  /\ At(c, "enforce")
  /\ \/ EnforceBegin(c) /\ Goto(c, "enforcing")
     \/ ~IsOverLimit /\ Goto(c, "evict") /\ UNCHANGED rmVars
  /\ UNCHANGED <<engineVars, locals>>

Enforce(c) ==
  /\ At(c, "enforcing")
  /\ Enforcement(c)
  /\ Goto(c, IF enforce'[c].phase = "none" THEN "evict" ELSE "enforcing")
  /\ UNCHANGED <<engineVars, locals>>

\* evict_if_needed: one write lock; the oldest handle leaves the cache and
\* stays in the registry of the resource manager.
Oldest == {m \in Cached : \A n \in Cached : loaded[m] <= loaded[n]}

\* Fault: the limit is compared with > instead of >=.
EvictOffByOne(c) ==
  /\ Move(c, "evict", "config")
  /\ IF Cardinality(Cached) > MaxLoaded /\ Cached # {}
     THEN \E m \in Oldest : loaded' = [loaded EXCEPT ![m] = NoHandle]
     ELSE UNCHANGED loaded
  /\ UNCHANGED <<rmVars, budget, created, busy, streams, abandoned, locals>>

Evict(c) ==
  /\ Move(c, "evict", "config")
  /\ IF Cardinality(Cached) >= MaxLoaded /\ Cached # {}
     THEN \E m \in Oldest : loaded' = [loaded EXCEPT ![m] = NoHandle]
     ELSE UNCHANGED loaded
  /\ UNCHANGED <<rmVars, budget, created, busy, streams, abandoned, locals>>

\* load_model_config reads a file; an unreadable one fails the request after
\* the eviction.
LoadConfig(c) ==
  /\ At(c, "config")
  /\ \/ /\ created < MaxRequests
        /\ created' = created + 1
        /\ handle' = [handle EXCEPT ![c] = created + 1]
        /\ Goto(c, "insert")
     \/ /\ Goto(c, "idle")
        /\ UNCHANGED <<created, handle>>
  /\ UNCHANGED <<rmVars, budget, loaded, busy, streams, abandoned, op, model>>

CacheModel(c) ==
  /\ Move(c, "insert", "register")
  /\ loaded' = [loaded EXCEPT ![model[c]] = handle[c]]
  /\ UNCHANGED <<rmVars, budget, created, busy, streams, abandoned, locals>>

RegisterModel(c) ==
  /\ Move(c, "register", AfterLoad(c))
  /\ Register(model[c])
  /\ UNCHANGED <<engineVars, locals>>

-----------------------------------------------------------------------------
\* unload_model of the engine: the registry, then the cache.
UnregisterModel(c) ==
  /\ Move(c, "unregister", "uncache")
  /\ Unregister(model[c])
  /\ UNCHANGED <<engineVars, locals>>

RemoveFromCache(c) ==
  /\ Move(c, "uncache", "idle")
  /\ loaded' = [loaded EXCEPT ![model[c]] = NoHandle]
  /\ UNCHANGED <<rmVars, budget, created, busy, streams, abandoned, locals>>

\* infer and infer_stream: an invalid image or parameter fails the request
\* here; infer counts itself with the manager, infer_stream does not.
StartInference(c) ==
  /\ At(c, "loaded")
  /\ \/ Goto(c, "idle") /\ UNCHANGED rmVars
     \/ /\ Goto(c, "test")
        /\ IF op[c] = "infer" THEN MarkActive(model[c]) ELSE UNCHANGED rmVars
  /\ UNCHANGED <<engineVars, locals>>

\* Fault: a request that finds the model busy waits for it to become free.
TestBusyWaits(c) ==
  /\ At(c, "test")
  /\ ~busy[handle[c]]
  /\ Goto(c, "set")
  /\ UNCHANGED <<rmVars, engineVars, locals>>

TestBusy(c) ==
  /\ At(c, "test")
  /\ Goto(c, CASE ~busy[handle[c]]   -> "set"
               [] op[c] = "infer"    -> "reject"
               [] OTHER              -> "idle")
  /\ UNCHANGED <<rmVars, engineVars, locals>>

Reject(c) ==
  /\ Move(c, "reject", "idle")
  /\ MarkRequestComplete(model[c])
  /\ UNCHANGED <<engineVars, locals>>

\* The flag is set under a lock of its own; infer_stream then spawns its task
\* and the handler's part in it is over.
SetBusy(c) ==
  /\ At(c, "set")
  /\ busy' = [busy EXCEPT ![handle[c]] = TRUE]
  /\ IF op[c] = "infer"
     THEN Goto(c, "running") /\ UNCHANGED streams
     ELSE /\ Goto(c, "idle")
          /\ streams' = [streams EXCEPT ![handle[c]] = @ + 1]
  /\ UNCHANGED <<rmVars, budget, created, loaded, abandoned, locals>>

FinishInference(c) ==
  /\ Move(c, "running", "complete")
  /\ busy' = [busy EXCEPT ![handle[c]] = FALSE]
  /\ UNCHANGED <<rmVars, budget, created, loaded, streams, abandoned, locals>>

CompleteRequest(c) ==
  /\ Move(c, "complete", "idle")
  /\ MarkRequestComplete(model[c])
  /\ UNCHANGED <<engineVars, locals>>

\* Fault: the streaming task returns early and leaves the flag set.
FinishStreamKeepsBusy(h) ==
  /\ streams[h] > 0
  /\ streams' = [streams EXCEPT ![h] = @ - 1]
  /\ UNCHANGED <<rmVars, budget, created, loaded, busy, abandoned, pc, locals>>

\* The streaming task ends after its last token or when the receiver is gone;
\* it clears the flag either way.
FinishStream(h) ==
  /\ streams[h] > 0
  /\ streams' = [streams EXCEPT ![h] = @ - 1]
  /\ busy' = [busy EXCEPT ![h] = FALSE]
  /\ UNCHANGED <<rmVars, budget, created, loaded, abandoned, pc, locals>>

\* The client disconnects: the handler's future is dropped at an await that
\* was pending (reading the configuration, a handle's lock, the inference).
Cancel(c) ==
  /\ Disconnects
  /\ pc[c] \in {"config", "test", "set", "running"}
  /\ abandoned' = IF At(c, "running") THEN abandoned \cup {handle[c]} ELSE abandoned
  /\ Goto(c, "idle")
  /\ UNCHANGED <<rmVars, budget, created, loaded, busy, streams, locals>>

\* The manager's background task, on the registry the requests work with.
Monitor ==
  /\ \E m \in Models : MonitorTick(m)
  /\ UNCHANGED <<engineVars, pc, locals>>
-----------------------------------------------------------------------------
Load(c)  == \/ Lookup(c) \/ MarkCachedActive(c) \/ CheckLimits(c)
            \/ OptimizeIdle(c) \/ BeginEnforce(c) \/ Enforce(c) \/ Evict(c)
            \/ LoadConfig(c) \/ CacheModel(c) \/ RegisterModel(c)

Infer(c) == \/ StartInference(c) \/ TestBusy(c) \/ Reject(c) \/ SetBusy(c)
            \/ FinishInference(c) \/ CompleteRequest(c)

Unload(c) == CheckLoaded(c) \/ UnregisterModel(c) \/ RemoveFromCache(c)

Handler(c) == Load(c) \/ Infer(c) \/ Unload(c)

Next ==
  \/ \E c \in Clients :
       \/ \E o \in Ops, m \in Models : ReceiveRequest(c, o, m)
       \/ Handler(c)
       \/ Cancel(c)
  \/ \E h \in Handles : FinishStream(h)
  \/ Monitor

Spec == Init /\ [][Next]_vars

\* The runtime polls every task that is ready, and neither an inference nor a
\* stream runs for ever; nothing obliges a client to send or to disconnect.
Fairness ==
  /\ \A c \in Clients : WF_vars(Handler(c))
  /\ \A h \in Handles : WF_vars(FinishStream(h))

FairSpec == Spec /\ Fairness
-----------------------------------------------------------------------------
\* Types; those of accessOrder and enforce are part of RMTypeOK.
TypeOK ==
  /\ registry \in [Models -> Entry \cup {Absent}]
  /\ budget \in 0..MaxRequests
  /\ created \in 0..MaxRequests
  /\ loaded \in [Models -> {NoHandle} \cup Handles]
  /\ busy \in [Handles -> BOOLEAN]
  /\ streams \in [Handles -> Nat]
  /\ abandoned \subseteq {NoHandle} \cup Handles
  /\ pc \in [Clients -> Pcs]
  /\ op \in [Clients -> Ops]
  /\ model \in [Clients -> Models]
  /\ handle \in [Clients -> {NoHandle} \cup Handles]

\* Requests that have made room in the cache and have not used it yet.
Inserting == {c \in Clients : pc[c] \in {"config", "insert"}}

\* The cache has room for at least one model, whatever max_loaded_models says.
Capacity == IF MaxLoaded = 0 THEN 1 ELSE MaxLoaded

\* evict_if_needed and cache_model take the lock separately, so the limit of
\* loaded models can be exceeded, but by no more than one model for every
\* request served at the same time beyond the first.
OvershootBounded ==
  Cardinality(Cached) + Cardinality(Inserting) <= Capacity + Cardinality(Clients) - 1

\* A handle that refuses requests as busy has an inference or a stream running
\* on it, or lost one to a client that disconnected.
BusyHasOwner ==
  \A h \in Handles : busy[h] =>
    \/ \E c \in Clients : pc[c] = "running" /\ handle[c] = h
    \/ streams[h] > 0
    \/ h \in abandoned

\* Without a disconnect a busy handle becomes free again.
BusyClears ==
  \A h \in Handles : busy[h] ~> (~busy[h] \/ h \in abandoned)

\* Every request is answered: a handler waits for nothing that another request
\* may withhold for ever.
RequestsEnd == \A c \in Clients : pc[c] # "idle" ~> pc[c] = "idle"

-----------------------------------------------------------------------------
(* What the documentation says and concurrent requests refute. *)

\* model/inference.rs: is_busy is "whether the model is currently processing a
\* request".
BusyIsAccurate ==
  \A h \in Handles :
    busy[h] <=> \/ \E c \in Clients : pc[c] = "running" /\ handle[c] = h
                \/ streams[h] > 0

\* model/resource_manager.rs: active_requests is the "number of active
\* requests"; with no request in progress none is counted.
QuietMeansUncounted ==
  (\A c \in Clients : pc[c] = "idle") => \A m \in Registered : registry[m].active = 0
=============================================================================
