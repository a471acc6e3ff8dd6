---------------------------- MODULE RequestQueue ----------------------------
(***************************************************************************)
(* The request queue of queue.rs.  A client is one request slot: it passes *)
(* through queue_request, waits for the answer and may then be queued      *)
(* again; MaxCallers threads call queue_request on behalf of clients.  The *)
(* consumers are external to the repository's server (the tests pop the    *)
(* queue by hand); a worker follows the protocol of the public operations: *)
(* next_request, mark_started, the inference, mark_completed.              *)
(*                                                                         *)
(* The queues, the per-model counters and the statistics have locks of     *)
(* their own, and each critical section is an action.  total_queued and    *)
(* by_priority, which get_stats recomputes before it reads them, and the   *)
(* fields of the metadata that nothing reads are left out.                 *)
(***************************************************************************)
EXTENDS Integers, Sequences, FiniteSets, FiniteSetsExt

CONSTANTS
  Clients, Workers, Models,
  Priorities,     \* the priorities in use, of 0 (low) to 3 (critical)
  MaxCallers,     \* threads inside queue_request at the same time
  Configs         \* the configurations, with the fair weight in tenths

ASSUME QueueAssumption ==
  /\ IsFiniteSet(Clients) /\ IsFiniteSet(Workers)
  /\ Priorities \subseteq 0..3
  /\ MaxCallers \in Nat \ {0}
  /\ Configs \subseteq [max_size : Nat, max_concurrent_per_model : Nat,
                        fair_scheduling_weight : 0..10]

VARIABLES
  config,      \* the configuration, one of Configs
  queues,      \* queues[p]: the clients whose requests wait under p
  total,       \* total_count
  active,      \* active[m]: active_requests of model m
  statActive,  \* stats.active_requests
  pc, request, \* of each client: position, priority and model asked for
  work, job    \* of each worker: position, the client and model it serves

clientVars == <<pc, request>>
workerVars == <<work, job>>
qVars == <<config, queues, total, active, statActive, clientVars, workerVars>>

Request   == [prio : Priorities, model : Models]
NoRequest == [prio |-> -1]
Job       == [client : Clients, model : Models]
NoJob     == [model |-> "none"]

QInit ==
  /\ config \in Configs
  /\ queues = [p \in Priorities |-> <<>>]
  /\ total = 0
  /\ active = [m \in Models |-> 0]
  /\ statActive = 0
  /\ pc = [c \in Clients |-> "idle"]
  /\ request = [c \in Clients |-> NoRequest]
  /\ work = [w \in Workers |-> "idle"]
  /\ job = [w \in Workers |-> NoJob]

ClientGoes(c, here, next) == pc[c] = here /\ pc' = [pc EXCEPT ![c] = next]
WorkerGoes(w, here, next) == work[w] = here /\ work' = [work EXCEPT ![w] = next]

\* The calls of queue_request between its check and its push.
Pushing == {c \in Clients : pc[c] = "push"}

-----------------------------------------------------------------------------
\* Fault: one request too many passes the check.
CheckCapacityOffByOne(c, r) ==
  /\ Cardinality(Pushing) < MaxCallers
  /\ total <= config.max_size
  /\ ClientGoes(c, "idle", "push")
  /\ request' = [request EXCEPT ![c] = r]
  /\ UNCHANGED <<config, queues, total, active, statActive, workerVars>>

\* queue_request reads the length under the read lock and gives the lock up; on
\* a full queue it returns an error, which changes nothing.
CheckCapacity(c, r) ==
  /\ Cardinality(Pushing) < MaxCallers
  /\ total < config.max_size
  /\ ClientGoes(c, "idle", "push")
  /\ request' = [request EXCEPT ![c] = r]
  /\ UNCHANGED <<config, queues, total, active, statActive, workerVars>>

\* Fault: the request enters its queue at the front.
PushFront(c) ==
  /\ ClientGoes(c, "push", "waiting")
  /\ queues' = [queues EXCEPT ![request[c].prio] = <<c>> \o @]
  /\ total' = total + 1
  /\ UNCHANGED <<config, active, statActive, request, workerVars>>

Push(c) ==
  /\ ClientGoes(c, "push", "waiting")
  /\ queues' = [queues EXCEPT ![request[c].prio] = Append(@, c)]
  /\ total' = total + 1
  /\ UNCHANGED <<config, active, statActive, request, workerVars>>

-----------------------------------------------------------------------------
NonEmpty == {p \in Priorities : queues[p] # <<>>}

\* Fault: fair mode never gets its turn.
PopableStrict == {p \in NonEmpty : \A q \in NonEmpty : q <= p}

\* pop_fair: a random number below the weight selects any queue that is not
\* empty, otherwise the highest priority is served.  The number is below 1.
Popable ==
  {p \in NonEmpty : config.fair_scheduling_weight > 0 \/ \A q \in NonEmpty : q <= p}

Taken(p) == LET c == Head(queues[p]) IN [client |-> c, model |-> request[c].model]

\* Fault: the entry is returned and stays in its queue.
PopKeeps(w, p) ==
  /\ p \in Popable
  /\ WorkerGoes(w, "idle", "acquire")
  /\ total' = total - 1
  /\ job' = [job EXCEPT ![w] = Taken(p)]
  /\ UNCHANGED <<config, queues, active, statActive, clientVars>>

\* next_request, which holds the write lock throughout.
Pop(w, p) ==
  /\ p \in Popable
  /\ WorkerGoes(w, "idle", "acquire")
  /\ queues' = [queues EXCEPT ![p] = Tail(@)]
  /\ total' = total - 1
  /\ job' = [job EXCEPT ![w] = Taken(p)]
  /\ UNCHANGED <<config, active, statActive, clientVars>>

\* Workers inside mark_started that hold a permit of the model's semaphore.
Permits(m) == {w \in Workers : work[w] \in {"count", "countStat"} /\ job[w].model = m}

Acquire(w) ==
  /\ WorkerGoes(w, "acquire", "count")
  /\ Cardinality(Permits(job[w].model)) < config.max_concurrent_per_model
  /\ UNCHANGED <<config, queues, total, active, statActive, clientVars, job>>

\* Fault: the entry of the model is overwritten instead of incremented.
CountOverwrites(w) ==
  /\ WorkerGoes(w, "count", "countStat")
  /\ active' = [active EXCEPT ![job[w].model] = 1]
  /\ UNCHANGED <<config, queues, total, statActive, clientVars, job>>

Count(w) ==
  /\ WorkerGoes(w, "count", "countStat")
  /\ active' = [active EXCEPT ![job[w].model] = @ + 1]
  /\ UNCHANGED <<config, queues, total, statActive, clientVars, job>>

\* The permit is a local of mark_started: it is dropped here, at its end.
CountStat(w) ==
  /\ WorkerGoes(w, "countStat", "running")
  /\ statActive' = statActive + 1
  /\ UNCHANGED <<config, queues, total, active, clientVars, job>>

\* The inference ends and the answer is sent through response_tx.
Respond(w) ==
  /\ WorkerGoes(w, "running", "uncount")
  /\ pc' = [pc EXCEPT ![job[w].client] = "idle"]
  /\ request' = [request EXCEPT ![job[w].client] = NoRequest]
  /\ UNCHANGED <<config, queues, total, active, statActive, job>>

Saturating(n) == IF n = 0 THEN 0 ELSE n - 1

Uncount(w) ==
  /\ WorkerGoes(w, "uncount", "uncountStat")
  /\ active' = [active EXCEPT ![job[w].model] = Saturating(@)]
  /\ UNCHANGED <<config, queues, total, statActive, clientVars, job>>

UncountStat(w) ==
  /\ WorkerGoes(w, "uncountStat", "idle")
  /\ statActive' = Saturating(statActive)
  /\ job' = [job EXCEPT ![w] = NoJob]
  /\ UNCHANGED <<config, queues, total, active, clientVars>>

WorkerStep(w) ==
  Acquire(w) \/ Count(w) \/ CountStat(w) \/ Respond(w) \/ Uncount(w) \/ UncountStat(w)

QNext ==
  \/ \E c \in Clients : Push(c) \/ \E r \in Request : CheckCapacity(c, r)
  \/ \E w \in Workers : WorkerStep(w) \/ \E p \in Priorities : Pop(w, p)

QSpec == QInit /\ [][QNext]_qVars

-----------------------------------------------------------------------------
Queued == UNION {{queues[p][i] : i \in DOMAIN queues[p]} : p \in Priorities}

\* Types, and total_count is the number of queued requests.
QTypeOK ==
  /\ config \in Configs
  /\ queues \in [Priorities -> Seq(Clients)]
  /\ total = MapThenSumSet(LAMBDA p : Len(queues[p]), Priorities)
  /\ active \in [Models -> Nat]
  /\ statActive \in Nat
  /\ pc \in [Clients -> {"idle", "push", "waiting"}]
  /\ request \in [Clients -> Request \cup {NoRequest}]
  /\ work \in [Workers -> {"idle", "acquire", "count", "countStat", "running",
                           "uncount", "uncountStat"}]
  /\ job \in [Workers -> Job \cup {NoJob}]

\* The capacity is checked and used under two acquisitions of the lock, so the
\* queue passes max_size, by at most one request per other concurrent caller.
QueueOvershootBounded == total + Cardinality(Pushing) <= config.max_size + MaxCallers - 1

\* The two counts of active requests never drift apart: each equals the number
\* of workers between its increment and its decrement, per model and in all.
ActiveCountsWorkers ==
  /\ \A m \in Models :
       active[m] = Cardinality({w \in Workers :
         work[w] \in {"countStat", "running", "uncount"} /\ job[w].model = m})
  /\ statActive = Cardinality({w \in Workers :
       work[w] \in {"running", "uncount", "uncountStat"}})

\* The queue implements PriorityFifo, strict when the fair weight is zero.
Strict == config.fair_scheduling_weight = 0

WaitingUnder ==
  [c \in Clients |->
     IF c \in Queued THEN CHOOSE p \in Priorities : \E i \in DOMAIN queues[p] : queues[p][i] = c
                     ELSE -1]

QueuedBefore ==
  [c \in Clients |->
     {d \in Queued : \E p \in Priorities : \E i, j \in DOMAIN queues[p] :
                       i < j /\ queues[p][i] = d /\ queues[p][j] = c}]

Fifo == INSTANCE PriorityFifo WITH
          Requests <- Clients, strict <- Strict, waiting <- WaitingUnder, ahead <- QueuedBefore

\* Every request is taken in an order PriorityFifo allows (pop, pop_fair).
ImplementsFifo == Fifo!Spec

\* With a fair weight above zero no priority starves, however many requests of
\* the others keep coming: a queued request is answered.
QueuedIsAnswered ==
  \A c \in Clients :
    config.fair_scheduling_weight > 0 /\ pc[c] = "waiting" ~> pc[c] = "idle"

\* A comment says of max_concurrent_per_model that it is the "maximum concurrent
\* requests per model"; mark_started gives the permit back before they run.
ConcurrencyWithinLimit == \A m \in Models : active[m] <= config.max_concurrent_per_model
=============================================================================
