------------------------------- MODULE Serving -------------------------------
(***************************************************************************)
(* The two queues that stand between the server and a backend, the request *)
(* queue and the batching coordinator, and what they promise together.     *)
(* They share no state, so each behaviour exercises the one `part`         *)
(* selects.                                                                *)
(***************************************************************************)
EXTENDS RequestQueue

CONSTANTS Callers, MaxBatch, MaxConcurrent, MaxCalls  \* of BatchCoordinator

VARIABLES
  part,
  cpc, call, calls, cancelled, channel, loop, batch, activeRequests, totalRequests

Coordinator == INSTANCE BatchCoordinator WITH Clients <- Callers, pc <- cpc

coordinatorVars ==
  <<cpc, call, calls, cancelled, channel, loop, batch, activeRequests, totalRequests>>
mcVars == <<part, qVars, coordinatorVars>>

ASSUME ServingAssumption == Coordinator!CoordinatorAssumption

\* Strict scheduling of a queue that overflows, fair scheduling of a larger one.
SmallStrict ==
  [max_size |-> 1, max_concurrent_per_model |-> 1, fair_scheduling_weight |-> 0]
LargeFair ==
  [max_size |-> 3, max_concurrent_per_model |-> 1, fair_scheduling_weight |-> 3]
TwoConfigs == {SmallStrict, LargeFair}

ServingInit ==
  /\ part \in {"queue", "coordinator"}
  /\ QInit /\ (part # "queue" => config = CHOOSE f \in Configs : TRUE)
  /\ Coordinator!Init

OfQueue(A)       == part = "queue" /\ A /\ UNCHANGED <<part, coordinatorVars>>
OfCoordinator(A) == part = "coordinator" /\ A /\ UNCHANGED <<part, qVars>>

ServingNext == OfQueue(QNext) \/ OfCoordinator(Coordinator!Next)

\* Queue: a worker carries on with a request it took (tokio hands out permits in
\* the order of arrival), and among workers that keep polling the random choice
\* selects each waiting priority again and again.  Coordinator: its task is
\* scheduled and the backend answers or panics; semaphore and channel serve those
\* who wait in the order of their arrival.
FairSpec ==
  /\ ServingInit /\ [][ServingNext]_mcVars
  /\ \A w \in Workers : SF_mcVars(OfQueue(WorkerStep(w)))
  /\ \A p \in Priorities : SF_mcVars(OfQueue(\E w \in Workers : Pop(w, p)))
  /\ \A c \in Callers : SF_mcVars(OfCoordinator(Coordinator!Passing(c)))
  /\ WF_mcVars(OfCoordinator(Coordinator!LoopStep))

-----------------------------------------------------------------------------
\* In queue.rs total_count is the number of requests in the four queues; the channel
\* and the batch of the coordinator keep to their sizes and its counter above zero.
TypesOK == QTypeOK /\ Coordinator!TypeOK

\* As long as callers wait for their answers, the permits bound what is in flight
\* and, until a backend panics, the count of active requests does not leak.
CallsAccounted == Coordinator!InFlightBounded /\ Coordinator!ActiveCountsCalls

\* Both queues keep their order: the request queue implements one with a first-in
\* first-out lane for each priority, and the coordinator, also when calls are
\* cancelled and the backend panics, takes calls in the order of their arrival.
QueuesKeepOrder == ImplementsFifo /\ Coordinator!FirstInFirstOut

\* Every call of the coordinator returns, also one whose batch panics.
CallsReturn ==
  \A c \in Callers : part = "coordinator" /\ cpc[c] # "idle" ~> cpc[c] = "idle"
=============================================================================
