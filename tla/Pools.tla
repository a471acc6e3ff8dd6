------------------------------- MODULE Pools -------------------------------
(***************************************************************************)
(* The two pools of pool.rs, of connections and of loaded models.  They    *)
(* share no state.                                                         *)
(*                                                                         *)
(* ConnectionPool: acquire reads the number of connections, makes one and  *)
(* counts it under separate locks.  The list of available connections      *)
(* starts empty, and nothing enters it: Drop tries to unwrap a second      *)
(* reference to the connection it still holds, which fails, and            *)
(* return_connection has no caller and fails in the same way.  The list,   *)
(* and the branch of acquire that takes a connection from it, are          *)
(* therefore not part of the model.                                        *)
(*                                                                         *)
(* ModelPool: handles of loaded models, shared by the requests.  get_model *)
(* answers with the first handle of the model, busy or not, and loads an   *)
(* instance if there is none; between the look and the push of the new     *)
(* handle others may do the same.  Handles are never removed, so calls of  *)
(* one caller, one after the other, share one instance.  (test_model_pool  *)
(* expects two instances after two such calls; the search in get_model     *)
(* takes any handle of the model, so the code makes one.)                  *)
(***************************************************************************)
EXTENDS Integers, FiniteSets

CONSTANTS
  Users,            \* tasks that acquire connections, requests that use models
  MaxConnections,   \* config.max_connections
  PoolModels,       \* names of models
  MaxLoads,         \* permits of the load semaphore
  MaxReturns        \* bound of the model: calls of return_model for one model

PoolAssumption ==
  /\ IsFiniteSet(Users) /\ Users # {}
  /\ MaxConnections \in Nat \ {0} /\ MaxLoads \in Nat \ {0}
  /\ MaxReturns \in Nat

VARIABLES
  total,     \* total_connections
  poolStage, \* poolStage[u]: where u stands in acquire, or "holds" its connection
  expired    \* expired[u]: the acquire timeout of u has passed

poolVars == <<total, poolStage, expired>>

PoolStages == {"idle", "read", "create", "check", "sleep", "holds"}

PoolInit ==
  /\ total = 0
  /\ poolStage = [u \in Users |-> "idle"]
  /\ expired = [u \in Users |-> FALSE]

At(s) == {u \in Users : poolStage[u] = s}

GoTo(u, s) == poolStage' = [poolStage EXCEPT ![u] = s]

-----------------------------------------------------------------------------
Acquire(u) ==
  /\ poolStage[u] = "idle"
  /\ GoTo(u, "read")
  /\ UNCHANGED <<total, expired>>

\* Fault: the limit itself still leaves room for one more.
ReadTotalOffByOne(u) ==
  /\ poolStage[u] = "read"
  /\ GoTo(u, IF total <= MaxConnections THEN "create" ELSE "check")
  /\ UNCHANGED <<total, expired>>

ReadTotal(u) ==
  /\ poolStage[u] = "read"
  /\ GoTo(u, IF total < MaxConnections THEN "create" ELSE "check")
  /\ UNCHANGED <<total, expired>>

\* The factory makes a connection, which is then counted.
Create(u) ==
  /\ poolStage[u] = "create"
  /\ total' = total + 1
  /\ GoTo(u, "holds")
  /\ expired' = [expired EXCEPT ![u] = FALSE]

CreateFails(u) ==
  /\ poolStage[u] = "create"
  /\ GoTo(u, "check")
  /\ UNCHANGED <<total, expired>>

CheckTimeout(u) ==
  /\ poolStage[u] = "check"
  /\ GoTo(u, IF expired[u] THEN "idle" ELSE "sleep")
  /\ expired' = [expired EXCEPT ![u] = FALSE]
  /\ UNCHANGED total

WakeUp(u) ==
  /\ poolStage[u] = "sleep"
  /\ GoTo(u, "read")
  /\ UNCHANGED <<total, expired>>

TimeoutPasses(u) ==
  /\ poolStage[u] \notin {"idle", "holds"}
  /\ ~expired[u]
  /\ expired' = [expired EXCEPT ![u] = TRUE]
  /\ UNCHANGED <<total, poolStage>>

\* Drop: the reference count is two, try_unwrap fails, nothing is returned.
Release(u) ==
  /\ poolStage[u] = "holds"
  /\ GoTo(u, "idle")
  /\ UNCHANGED <<total, expired>>

\* close sets the count to zero, whatever is in use or being made.
Close ==
  /\ total' = 0
  /\ UNCHANGED <<poolStage, expired>>

Step(u) ==
  ReadTotal(u) \/ Create(u) \/ CreateFails(u) \/ CheckTimeout(u) \/ WakeUp(u)

PoolNext ==
  \/ \E u \in Users : Acquire(u) \/ Step(u) \/ TimeoutPasses(u) \/ Release(u)
  \/ Close

PoolSpec == PoolInit /\ [][PoolNext]_poolVars

-----------------------------------------------------------------------------
PoolTypeOK ==
  /\ total \in Nat
  /\ poolStage \in [Users -> PoolStages]
  /\ expired \in [Users -> BOOLEAN]

\* The users between their look at the count and their own increment of it may
\* pass max_connections, each by one and all but the one that was let in first.
ConnectionsBounded == total <= MaxConnections + Cardinality(Users) - 1

\* "Return connection to pool when dropped": stats counts as in use what is
\* counted and not available, so that many connections are held by somebody.
DroppedAreReturned == total <= Cardinality(At("holds"))

-----------------------------------------------------------------------------
(***************************************************************************)
(* The pool of models.                                                     *)
(***************************************************************************)
VARIABLES
  loads,    \* loads[m]: handles of m that get_model pushed
  returns,  \* returns[m]: handles of m that return_model pushed
  request   \* request[u]: where u stands in get_model, and for which model

mpVars == <<loads, returns, request>>

None == [at |-> "none"]
Request == {None} \cup [at : {"waits", "loads"}, model : PoolModels]

MpInit ==
  /\ loads = [m \in PoolModels |-> 0]
  /\ returns = [m \in PoolModels |-> 0]
  /\ request = [u \in Users |-> None]

Pooled(m) == loads[m] + returns[m] > 0

Loading == {u \in Users : request[u].at = "loads"}

Become(u, s, m) == request' = [request EXCEPT ![u] = [at |-> s, model |-> m]]

-----------------------------------------------------------------------------
\* A user may call again and again, whatever handles it still has; nothing in
\* the pool says who has one.
Get(u, m) ==
  /\ request[u] = None
  /\ IF Pooled(m) THEN UNCHANGED request ELSE Become(u, "waits", m)
  /\ UNCHANGED <<loads, returns>>

AcquirePermit(u) ==
  /\ request[u].at = "waits"
  /\ Cardinality(Loading) < MaxLoads
  /\ Become(u, "loads", request[u].model)
  /\ UNCHANGED <<loads, returns>>

FinishLoad(u) ==
  /\ request[u].at = "loads"
  /\ loads' = [loads EXCEPT ![request[u].model] = @ + 1]
  /\ request' = [request EXCEPT ![u] = None]
  /\ UNCHANGED returns

LoadFails(u) ==
  /\ request[u].at = "loads"
  /\ request' = [request EXCEPT ![u] = None]
  /\ UNCHANGED <<loads, returns>>

\* return_model pushes a handle that get_model gave to somebody again, next to
\* the copy that stayed.
ReturnModel(m) ==
  /\ Pooled(m)
  /\ returns[m] < MaxReturns
  /\ returns' = [returns EXCEPT ![m] = @ + 1]
  /\ UNCHANGED <<loads, request>>

MpNext ==
  \/ \E u \in Users :
       \/ \E m \in PoolModels : Get(u, m)
       \/ AcquirePermit(u) \/ FinishLoad(u) \/ LoadFails(u)
  \/ \E m \in PoolModels : ReturnModel(m)

MpSpec == MpInit /\ [][MpNext]_mpVars

-----------------------------------------------------------------------------
MpTypeOK ==
  /\ loads \in [PoolModels -> Nat]
  /\ returns \in [PoolModels -> 0..MaxReturns]
  /\ request \in [Users -> Request]

\* Users call get_model any number of times.  Calls that overlap load a model
\* several times, but a call that begins once a handle is in the pool does not,
\* so a model is never loaded more often than calls may overlap.
LoadsPerUserBounded == \A m \in PoolModels : loads[m] <= Cardinality(Users)

\* Both pools look and then make under separate locks: what they hold exceeds
\* their limit by the callers that looked at the same time.
PoolOvershootBounded == ConnectionsBounded /\ LoadsPerUserBounded
=============================================================================
