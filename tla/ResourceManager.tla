-------------------------- MODULE ResourceManager --------------------------
(***************************************************************************)
(* The registry in which model/resource_manager.rs accounts for the models *)
(* an inference engine keeps in memory.  Every public operation takes the  *)
(* lock of the map `models` once, so an operation is one action; the two   *)
(* operations that take it several times (optimize_idle_models and         *)
(* enforce_limits) are one action per critical section, because another    *)
(* thread may run between two of them.                                     *)
(*                                                                         *)
(* Wall-clock time is abstracted: `accessOrder` lists the registered       *)
(* models by last_access, oldest first, and the idle timeout of a model    *)
(* may have elapsed whenever the model is Idle.                            *)
(***************************************************************************)
EXTENDS Integers, Sequences, FiniteSets, FiniteSetsExt

CONSTANTS
  Models,             \* names of the models
  Callers,            \* threads that may be inside enforce_limits
  FileSize,           \* FileSize[m]: bytes on disk, the initial estimate
  MaxMemory,          \* policy.max_memory_bytes
  MaxLoaded,          \* policy.max_loaded_models
  AutoUnloadIdle,     \* policy.auto_unload_idle
  OptimizeIdleMemory, \* policy.optimize_idle_memory
  OffloadToCpu,       \* policy.offload_to_cpu
  MaxCommands,        \* capacity of the monitor's command channel
  MaxActive           \* bound of the model: requests counted on one model

ASSUME PolicyAssumption ==
  /\ FileSize \in [Models -> Nat]
  /\ MaxMemory \in Nat
  /\ MaxLoaded \in Nat
  /\ {AutoUnloadIdle, OptimizeIdleMemory, OffloadToCpu} \subseteq BOOLEAN
  /\ MaxCommands \in Nat
  /\ MaxActive \in Nat

VARIABLES
  registry,     \* registry[m]: what the map holds for m, or Absent
  accessOrder,  \* the registered models by last_access, oldest first
  enforce,      \* enforce[c]: progress of c's call of enforce_limits
  monitor       \* the background task: is it up, and its pending commands

rmVars == <<registry, accessOrder, enforce, monitor>>

States == {"Active", "Idle", "Optimized", "OffloadedToCpu"}
Entry  == [state : States, active : Nat, mem : Nat]
Absent == [state |-> "Absent", active |-> 0, mem |-> 0]

Registered == {m \in Models : registry[m] # Absent}

TotalMemory == MapThenSumSet(LAMBDA m : registry[m].mem, Models)

IsOverLimit == TotalMemory > MaxMemory \/ Cardinality(Registered) > MaxLoaded

NotEnforcing == [phase |-> "none", victims |-> <<>>]

RMInit ==
  /\ registry = [m \in Models |-> Absent]
  /\ accessOrder = <<>>
  /\ enforce = [c \in Callers |-> NotEnforcing]
  /\ monitor = [up |-> TRUE, commands |-> <<>>]

-----------------------------------------------------------------------------
\* The part of a sequence at the positions in K.
KeepAt(q, K) ==
  LET part[k \in 0..Len(q)] ==
        IF k = 0 THEN <<>>
        ELSE IF k \in K THEN Append(part[k - 1], q[k]) ELSE part[k - 1]
  IN  part[Len(q)]

Without(seq, m) == KeepAt(seq, {i \in DOMAIN seq : seq[i] # m})

Register(m) ==
  /\ registry' = [registry EXCEPT
                    ![m] = [state |-> "Active", active |-> 0, mem |-> FileSize[m]]]
  /\ accessOrder' = Append(Without(accessOrder, m), m)
  /\ UNCHANGED <<enforce, monitor>>

Drop(m) ==
  /\ registry' = [registry EXCEPT ![m] = Absent]
  /\ accessOrder' = Without(accessOrder, m)

Unregister(m) == Drop(m) /\ UNCHANGED <<enforce, monitor>>

\* Fault: the request is counted but the state stays what it was.
MarkActiveKeepsState(m) ==
  /\ registry' = IF m \in Registered THEN [registry EXCEPT ![m].active = @ + 1]
                                      ELSE registry
  /\ UNCHANGED <<accessOrder, enforce, monitor>>

MarkActive(m) ==
  /\ IF m \in Registered
     THEN /\ registry' = [registry EXCEPT ![m].state = "Active", ![m].active = @ + 1]
          /\ accessOrder' = Append(Without(accessOrder, m), m)
     ELSE UNCHANGED <<registry, accessOrder>>
  /\ UNCHANGED <<enforce, monitor>>

\* Fault: the counter wraps below zero.
MarkRequestCompleteWraps(m) ==
  /\ registry' =
       IF m \notin Registered THEN registry
       ELSE [registry EXCEPT
               ![m].active = @ - 1,
               ![m].state  = IF registry[m].active = 1 THEN "Idle" ELSE @]
  /\ UNCHANGED <<accessOrder, enforce, monitor>>

\* active_requests.saturating_sub(1); the model turns Idle when none is left.
MarkRequestComplete(m) ==
  /\ LET left == IF registry[m].active = 0 THEN 0 ELSE registry[m].active - 1
     IN  registry' =
           IF m \notin Registered THEN registry
           ELSE [registry EXCEPT
                   ![m].active = left,
                   ![m].state  = IF left = 0 THEN "Idle" ELSE @]
  /\ UNCHANGED <<accessOrder, enforce, monitor>>

-----------------------------------------------------------------------------
Shrunk(m, state, tenths) ==
  [registry EXCEPT ![m].state = state, ![m].mem = (@ * tenths) \div 10]

\* One turn of the loop of optimize_idle_models, for a model whose idle
\* timeout has elapsed: optimize_model takes the write lock again and checks
\* only that the model is still Idle.
OptimizeModel(m) ==
  /\ OptimizeIdleMemory
  /\ registry[m].state = "Idle"
  /\ registry' = IF OffloadToCpu THEN Shrunk(m, "OffloadedToCpu", 7)
                                 ELSE Shrunk(m, "Optimized", 8)
  /\ UNCHANGED <<accessOrder, enforce, monitor>>

\* enforce_limits; within the limits it returns at once and changes nothing.
EnforceBegin(c) ==
  /\ enforce[c].phase = "none"
  /\ IsOverLimit
  /\ enforce' = [enforce EXCEPT ![c].phase = "snapshot"]
  /\ UNCHANGED <<registry, accessOrder, monitor>>

\* The models without an active request are collected, oldest first.
EnforceSnapshot(c) ==
  /\ enforce[c].phase = "snapshot"
  /\ enforce' = [enforce EXCEPT ![c] =
       [phase   |-> "check",
        victims |-> KeepAt(accessOrder,
                      {i \in DOMAIN accessOrder : registry[accessOrder[i]].active = 0})]]
  /\ UNCHANGED <<registry, accessOrder, monitor>>

EnforceCheck(c) ==
  /\ enforce[c].phase = "check"
  /\ enforce' = [enforce EXCEPT ![c] =
       IF enforce[c].victims = <<>> \/ ~IsOverLimit
       THEN NotEnforcing
       ELSE [@ EXCEPT !.phase = "drop"]]
  /\ UNCHANGED <<registry, accessOrder, monitor>>

\* Fault: the loop does not advance past the model it dropped.
EnforceDropStuck(c) ==
  /\ enforce[c].phase = "drop"
  /\ IF AutoUnloadIdle
     THEN Drop(Head(enforce[c].victims))
     ELSE UNCHANGED <<registry, accessOrder>>
  /\ enforce' = [enforce EXCEPT ![c].phase = "check"]
  /\ UNCHANGED monitor

\* The models collected by the snapshot are not looked at again.
EnforceDrop(c) ==
  /\ enforce[c].phase = "drop"
  /\ IF AutoUnloadIdle
     THEN Drop(Head(enforce[c].victims))
     ELSE UNCHANGED <<registry, accessOrder>>
  /\ enforce' = [enforce EXCEPT
       ![c] = [phase |-> "check", victims |-> Tail(@.victims)]]
  /\ UNCHANGED monitor

-----------------------------------------------------------------------------
\* The tick of monitor_loop: check_and_optimize_idle takes the write lock once
\* per model that was Idle long enough and checks again that it is Idle.
MonitorTick(m) ==
  /\ monitor.up
  /\ OffloadToCpu
  /\ registry[m].state = "Idle"
  /\ registry' = Shrunk(m, "OffloadedToCpu", 7)
  /\ UNCHANGED <<accessOrder, enforce, monitor>>

\* trigger_optimization and shutdown send a command; the channel is closed
\* once the task has ended, and the send returns an error.
SendCommand(cmd) ==
  /\ monitor.up
  /\ Len(monitor.commands) < MaxCommands
  /\ monitor' = [monitor EXCEPT !.commands = Append(@, cmd)]
  /\ UNCHANGED <<registry, accessOrder, enforce>>

ReceiveOptimize ==
  /\ monitor.up
  /\ monitor.commands # <<>>
  /\ Head(monitor.commands) = "OptimizeMemory"
  /\ monitor' = [monitor EXCEPT !.commands = Tail(@)]
  /\ registry' = [m \in Models |->
       IF OptimizeIdleMemory /\ registry[m].state = "Idle" /\ registry[m].active = 0
       THEN Shrunk(m, "Optimized", 8)[m]
       ELSE registry[m]]
  /\ UNCHANGED <<accessOrder, enforce>>

\* Fault: the command is consumed but the loop is not left.
ReceiveShutdownNoBreak ==
  /\ monitor.up
  /\ monitor.commands # <<>>
  /\ Head(monitor.commands) = "Shutdown"
  /\ monitor' = [monitor EXCEPT !.commands = Tail(@)]
  /\ UNCHANGED <<registry, accessOrder, enforce>>

ReceiveShutdown ==
  /\ monitor.up
  /\ monitor.commands # <<>>
  /\ Head(monitor.commands) = "Shutdown"
  /\ monitor' = [up |-> FALSE, commands |-> <<>>]
  /\ UNCHANGED <<registry, accessOrder, enforce>>

-----------------------------------------------------------------------------
(***************************************************************************)
(* The manager on its own, under callers that use it in any order, except  *)
(* that a request completes on a model that was marked active for it (the  *)
(* engine also completes requests on a model re-registered meanwhile: see  *)
(* InferenceEngine).                                                       *)
(***************************************************************************)
Receive == ReceiveOptimize \/ ReceiveShutdown

Enforcement(c) == EnforceSnapshot(c) \/ EnforceCheck(c) \/ EnforceDrop(c)

RMNext ==
  \/ \E m \in Models :
       \/ Register(m)
       \/ Unregister(m)
       \/ registry[m].active < MaxActive /\ MarkActive(m)
       \/ registry[m].state = "Active" /\ MarkRequestComplete(m)
       \/ OptimizeModel(m)
       \/ MonitorTick(m)
  \/ \E c \in Callers : EnforceBegin(c) \/ Enforcement(c)
  \/ \E cmd \in {"OptimizeMemory", "Shutdown"} : SendCommand(cmd)
  \/ Receive

\* A call of enforce_limits runs to its end, and select! of the monitor picks
\* its branches at random, so a queued command is received eventually.
RMSpec ==
  /\ RMInit /\ [][RMNext]_rmVars
  /\ WF_rmVars(Receive)
  /\ \A c \in Callers : WF_rmVars(Enforcement(c))

\* Types, and accessOrder enumerates the registered models without repetition.
RMTypeOK ==
  /\ registry \in [Models -> Entry \cup {Absent}]
  /\ accessOrder \in Seq(Models)
  /\ {accessOrder[i] : i \in DOMAIN accessOrder} = Registered
  /\ Len(accessOrder) = Cardinality(Registered)
  /\ enforce \in [Callers -> [phase : {"none", "snapshot", "check", "drop"}, victims : Seq(Models)]]
  /\ monitor \in [up : BOOLEAN, commands : Seq({"OptimizeMemory", "Shutdown"})]

\* A model in any state but Active has no request counted on it: the idle
\* paths (get_idle_models, the monitor) select by the state and rely on it.
RestingMeansUnused ==
  \A m \in Registered : registry[m].state # "Active" => registry[m].active = 0

\* A thread that enters enforce_limits leaves it, whatever others register.
EnforcementEnds == \A c \in Callers : enforce[c].phase # "none" ~> enforce[c].phase = "none"

\* A Shutdown that was accepted by the channel ends the background task.
ShutdownStopsMonitor ==
  (\E i \in DOMAIN monitor.commands : monitor.commands[i] = "Shutdown") ~> ~monitor.up
=============================================================================
