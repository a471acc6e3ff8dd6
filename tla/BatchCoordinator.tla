-------------------------- MODULE BatchCoordinator --------------------------
(***************************************************************************)
(* The continuous batching coordinator of inference/coordinator.rs: calls  *)
(* of submit pass a semaphore, send a pending request through a bounded    *)
(* channel to one background loop, and await its answer on a oneshot       *)
(* channel.  The future of a call can be dropped at each of its awaits.    *)
(*                                                                         *)
(* A pending request is the number of its call.  The backend is external:  *)
(* it answers, with a response or an error, or it panics, which ends the   *)
(* loop's task and drops both channels' other ends.                        *)
(***************************************************************************)
EXTENDS Integers, Sequences, FiniteSets

CONSTANTS
  Clients,
  MaxBatch,       \* config.max_batch_size
  MaxConcurrent,  \* config.max_concurrent
  MaxCalls        \* bound of the model: calls of submit in all

CoordinatorAssumption ==
  /\ IsFiniteSet(Clients)
  /\ MaxBatch \in Nat
  /\ MaxConcurrent \in Nat \ {0}  \* mpsc::channel(0) panics in new
  /\ MaxCalls \in Nat

VARIABLES
  pc, call,   \* of each client: position and the number of its call
  calls,      \* calls made so far
  cancelled,  \* history: the future of a call was dropped
  channel,    \* the pending requests in the channel
  loop,       \* position of the batch loop
  batch,      \* the requests it has received and not answered
  activeRequests, totalRequests  \* the counters of the statistics

callVars == <<call, calls, cancelled>>
counters == <<activeRequests, totalRequests>>
vars == <<pc, callVars, channel, loop, batch, counters>>

Init ==
  /\ pc = [c \in Clients |-> "idle"]
  /\ call = [c \in Clients |-> 0]
  /\ calls = 0 /\ cancelled = FALSE
  /\ channel = <<>>
  /\ loop = "receive"
  /\ batch = <<>>
  /\ activeRequests = 0
  /\ totalRequests = 0

Goto(c, here, next) == pc[c] = here /\ pc' = [pc EXCEPT ![c] = next]

\* The permit is a local of submit: a call holds it to its end.
Holders == {c \in Clients : pc[c] \in {"send", "await", "answered"}}

-----------------------------------------------------------------------------
Submit(c) ==
  /\ calls < MaxCalls
  /\ Goto(c, "idle", "acquire")
  /\ calls' = calls + 1
  /\ call' = [call EXCEPT ![c] = calls + 1]
  /\ UNCHANGED <<cancelled, channel, loop, batch, counters>>

\* Fault: the semaphore has a permit for every slot of the channel.
AcquireByChannel(c) ==
  /\ Cardinality(Holders) < 2 * MaxConcurrent
  /\ Goto(c, "acquire", "send")
  /\ activeRequests' = activeRequests + 1
  /\ UNCHANGED <<callVars, channel, loop, batch, totalRequests>>

Acquire(c) ==
  /\ Cardinality(Holders) < MaxConcurrent
  /\ Goto(c, "acquire", "send")
  /\ activeRequests' = activeRequests + 1
  /\ UNCHANGED <<callVars, channel, loop, batch, totalRequests>>

Send(c) ==
  /\ loop # "ended"
  /\ Len(channel) < 2 * MaxConcurrent
  /\ Goto(c, "send", "await")
  /\ channel' = Append(channel, call[c])
  /\ UNCHANGED <<callVars, loop, batch, counters>>

\* "coordinator channel closed": the call returns before the decrement.
SendFails(c) ==
  /\ loop = "ended"
  /\ Goto(c, "send", "idle")
  /\ UNCHANGED <<callVars, channel, loop, batch, counters>>

\* "response channel dropped": here, too, the counter stays.
ResponseLost(c) ==
  /\ loop = "ended"
  /\ Goto(c, "await", "idle")
  /\ UNCHANGED <<callVars, channel, loop, batch, counters>>

Return(c) ==
  /\ Goto(c, "answered", "idle")
  /\ activeRequests' = activeRequests - 1
  /\ UNCHANGED <<callVars, channel, loop, batch, totalRequests>>

\* The future is dropped at an await, with the permit and the receiver of the
\* answer, which may have been sent already.
Cancel(c) ==
  /\ pc[c] # "idle"
  /\ pc' = [pc EXCEPT ![c] = "idle"]
  /\ cancelled' = TRUE
  /\ UNCHANGED <<call, calls, channel, loop, batch, counters>>

-----------------------------------------------------------------------------
AfterReceive(b) == IF Len(b) < MaxBatch THEN "collect" ELSE "count"

\* The first request of a batch and the further ones, up to max_batch_size.
Receive ==
  /\ loop \in {"receive", "collect"}
  /\ channel # <<>>
  /\ channel' = Tail(channel)
  /\ batch' = Append(batch, Head(channel))
  /\ loop' = AfterReceive(batch')
  /\ UNCHANGED <<pc, callVars, counters>>

\* max_wait_ms pass on an empty channel.
WaitTimesOut ==
  /\ loop = "collect"
  /\ channel = <<>>
  /\ loop' = "count"
  /\ UNCHANGED <<pc, callVars, channel, batch, counters>>

CountBatch ==
  /\ loop = "count"
  /\ totalRequests' = totalRequests + Len(batch)
  /\ loop' = "process"
  /\ UNCHANGED <<pc, callVars, channel, batch, activeRequests>>

\* Fault: the answers go out newest first.
ProcessNewest ==
  LET n == Len(batch) IN
  /\ loop = "process"
  /\ batch' = SubSeq(batch, 1, n - 1)
  /\ loop' = IF n = 1 THEN "receive" ELSE "process"
  /\ pc' = [c \in Clients |->
       IF pc[c] = "await" /\ call[c] = batch[n] THEN "answered" ELSE pc[c]]
  /\ UNCHANGED <<callVars, channel, counters>>

\* Fault: after the first answer the rest of the batch is dropped unanswered.
ProcessOne ==
  /\ loop = "process"
  /\ batch' = <<>>
  /\ loop' = "receive"
  /\ pc' = [c \in Clients |->
       IF pc[c] = "await" /\ call[c] = Head(batch) THEN "answered" ELSE pc[c]]
  /\ UNCHANGED <<callVars, channel, counters>>

\* backend.infer and the send of its result: a receiver may have been dropped.
Process ==
  /\ loop = "process"
  /\ batch' = Tail(batch)
  /\ loop' = IF Len(batch) = 1 THEN "receive" ELSE "process"
  /\ pc' = [c \in Clients |->
       IF pc[c] = "await" /\ call[c] = Head(batch) THEN "answered" ELSE pc[c]]
  /\ UNCHANGED <<callVars, channel, counters>>

BackendPanics ==
  /\ loop = "process"
  /\ loop' = "ended"
  /\ batch' = <<>>
  /\ channel' = <<>>
  /\ UNCHANGED <<pc, callVars, counters>>

LoopStep   == Receive \/ WaitTimesOut \/ CountBatch \/ Process
Passing(c) == Acquire(c) \/ Send(c) \/ SendFails(c) \/ ResponseLost(c) \/ Return(c)

Next ==
  \/ \E c \in Clients : Submit(c) \/ Passing(c) \/ Cancel(c)
  \/ LoopStep
  \/ BackendPanics

Spec == Init /\ [][Next]_vars

-----------------------------------------------------------------------------
Pcs   == {"idle", "acquire", "send", "await", "answered"}
Calls == 1..MaxCalls

\* Types; a batch is never empty while it is processed, nor too large.
TypeOK ==
  /\ pc \in [Clients -> Pcs]
  /\ call \in [Clients -> Calls \cup {0}]
  /\ calls \in 0..MaxCalls /\ cancelled \in BOOLEAN
  /\ channel \in Seq(Calls) /\ Len(channel) <= 2 * MaxConcurrent
  /\ loop \in {"receive", "collect", "count", "process", "ended"}
  /\ batch \in Seq(Calls)
  /\ loop \in {"collect", "count", "process"} <=> batch # <<>>
  /\ Len(batch) <= IF MaxBatch = 0 THEN 1 ELSE MaxBatch
  /\ activeRequests \in Nat /\ totalRequests \in Nat

\* The semaphore bounds what is pending beyond submit: the channel and the
\* batch together hold at most max_concurrent requests, so that the channel,
\* twice that long, never delays a call.  It holds as long as no call is
\* cancelled: that releases the permit and leaves the request in the channel.
InFlightBounded == ~cancelled => Len(channel) + Len(batch) <= MaxConcurrent

\* active_requests is the number of calls between their permit and their end, as
\* long as no call is cancelled or loses its answer, which leaks one.
ActiveCountsCalls ==
  ~cancelled /\ loop # "ended" =>
    activeRequests = Cardinality(Holders)

\* Requests leave the loop in the order in which they entered the channel.
Pipeline == batch \o channel
FirstInFirstOut ==
  [][Pipeline' # Pipeline =>
       \/ Pipeline' = <<>>
       \/ Pipeline # <<>> /\ Pipeline' = Tail(Pipeline)
       \/ \E n \in Calls : Pipeline' = Append(Pipeline, n)]_vars

\* Every call of submit returns, also when other calls are cancelled with their
\* requests still in the channel, and also when the backend panics.
CallsReturn == \A c \in Clients : pc[c] # "idle" ~> pc[c] = "idle"
=============================================================================
