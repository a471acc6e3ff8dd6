------------------------------- MODULE Metrics -------------------------------
(***************************************************************************)
(* InferenceMetrics of observability/metrics.rs.  A request counts itself  *)
(* in single atomics and under two locks, one after the other; snapshot    *)
(* holds both locks while it reads the atomics, so it waits for nobody's   *)
(* counting to end but keeps writers out of what the locks guard.          *)
(*                                                                         *)
(* The atomics are Relaxed.  What is stated of a snapshot does not depend  *)
(* on their order: each of the relations crosses one of the two locks.     *)
(* A sample is counted, not kept; percentiles and averages are left out.   *)
(***************************************************************************)
EXTENDS Integers, FiniteSets, FiniteSetsExt

CONSTANTS
  Requests,    \* requests, each completed at most once
  Names,       \* names of models
  MaxTokens,   \* tokens a request may generate
  MaxSamples   \* max_samples; 0 (the derived default) panics at the first sample

MetricsAssumption ==
  /\ IsFiniteSet(Requests) /\ IsFiniteSet(Names) /\ Names # {}
  /\ MaxTokens \in Nat /\ MaxSamples \in Nat \ {0}

VARIABLES
  counters,   \* the atomics
  samples,    \* the number of latency samples, guarded by the lock of latencies
  models,     \* model_metrics, guarded by a lock of its own
  counting,   \* counting[r]: how far r is in request_complete
  job,        \* job[r]: model, tokens and outcome of r
  reader,     \* how far the reader is in snapshot
  snapshot    \* what it read

metricsVars == <<counters, samples, models, counting, job, reader, snapshot>>

Zero == [requests |-> 0, tokens |-> 0, errors |-> 0]

Jobs == [model : Names, tokens : 0..MaxTokens, success : BOOLEAN]

MetricsInit ==
  /\ counters = [total |-> 0, tokens |-> 0, errors |-> 0, active |-> 0]
  /\ samples = 0
  /\ models = [m \in Names |-> Zero]
  /\ counting = [r \in Requests |-> "new"]
  /\ job \in [Requests -> Jobs]
  /\ reader = "out"
  /\ snapshot = [counters |-> counters, samples |-> samples, models |-> models]

Goes(r, here, next) == counting[r] = here /\ counting' = [counting EXCEPT ![r] = next]

Add(field, n) == counters' = [counters EXCEPT ![field] = @ + n]

LatenciesHeld == reader # "out"

\* Fault: snapshot takes the lock of the models for the copy alone.
ModelsHeldForCopy == FALSE

ModelsHeld    == reader \notin {"out", "latencies"}

-----------------------------------------------------------------------------
\* A request that is abandoned after this keeps its share of active_requests.
RequestStart(r) ==
  /\ Goes(r, "new", "active")
  /\ Add("active", 1)
  /\ UNCHANGED <<samples, models, job, reader, snapshot>>

LeaveActive(r) ==
  /\ Goes(r, "active", "total")
  /\ Add("active", -1)
  /\ UNCHANGED <<samples, models, job, reader, snapshot>>

CountTotal(r) ==
  /\ Goes(r, "total", "tokens")
  /\ Add("total", 1)
  /\ UNCHANGED <<samples, models, job, reader, snapshot>>

CountTokens(r) ==
  /\ Goes(r, "tokens", "latency")
  /\ Add("tokens", job[r].tokens)
  /\ UNCHANGED <<samples, models, job, reader, snapshot>>

\* The oldest sample makes room for the new one.
RecordLatency(r) ==
  /\ ~LatenciesHeld
  /\ Goes(r, "latency", IF job[r].success THEN "model" ELSE "error")
  /\ samples' = IF samples >= MaxSamples THEN samples ELSE samples + 1
  /\ UNCHANGED <<counters, models, job, reader, snapshot>>

CountError(r) ==
  /\ Goes(r, "error", "model")
  /\ Add("errors", 1)
  /\ UNCHANGED <<samples, models, job, reader, snapshot>>

CountModel(r) ==
  /\ ~ModelsHeld
  /\ Goes(r, "model", "done")
  /\ models' = [models EXCEPT ![job[r].model] =
       [requests |-> @.requests + 1,
        tokens   |-> @.tokens + job[r].tokens,
        errors   |-> IF job[r].success THEN @.errors ELSE @.errors + 1]]
  /\ UNCHANGED <<counters, samples, job, reader, snapshot>>

Complete(r) ==
  \/ LeaveActive(r) \/ CountTotal(r) \/ CountTokens(r)
  \/ RecordLatency(r) \/ CountError(r) \/ CountModel(r)

-----------------------------------------------------------------------------
ReaderGoes(here, next) == reader = here /\ reader' = next

LockLatencies ==
  /\ ReaderGoes("out", "latencies")
  /\ UNCHANGED <<counters, samples, models, counting, job, snapshot>>

LockModels ==
  /\ ReaderGoes("latencies", "total")
  /\ UNCHANGED <<counters, samples, models, counting, job, snapshot>>

\* The atomics are loaded one by one while requests go on counting.
Load(field, next) ==
  /\ ReaderGoes(field, next)
  /\ snapshot' = [snapshot EXCEPT !.counters[field] = counters[field]]
  /\ UNCHANGED <<counters, samples, models, counting, job>>

\* The percentiles and the copy of the models, then the end of both locks.
CopyGuarded ==
  /\ ReaderGoes("guarded", "out")
  /\ snapshot' = [snapshot EXCEPT !.samples = samples, !.models = models]
  /\ UNCHANGED <<counters, samples, models, counting, job>>

Snapshot ==
  \/ LockLatencies \/ LockModels
  \/ Load("total", "tokens") \/ Load("tokens", "errors")
  \/ Load("errors", "active") \/ Load("active", "guarded")
  \/ CopyGuarded

MetricsNext ==
  \/ \E r \in Requests : RequestStart(r) \/ Complete(r)
  \/ Snapshot

MetricsSpec == MetricsInit /\ [][MetricsNext]_metricsVars

-----------------------------------------------------------------------------
Counts == [requests : Nat, tokens : Nat, errors : Nat]

MetricsTypeOK ==
  /\ counters \in [total : Nat, tokens : Nat, errors : Nat, active : Nat]
  /\ samples \in 0..MaxSamples
  /\ models \in [Names -> Counts]
  /\ counting \in
       [Requests -> {"new", "active", "total", "tokens", "latency", "error", "model", "done"}]
  /\ job \in [Requests -> Jobs]
  /\ reader \in {"out", "latencies", "total", "tokens", "errors", "active", "guarded"}
  /\ snapshot \in [counters : [total : Nat, tokens : Nat, errors : Nat, active : Nat],
                    samples : 0..MaxSamples, models : [Names -> Counts]]

\* Sum of a count over the models of a snapshot.
OverModels(count) == MapThenSumSet(LAMBDA m : snapshot.models[m][count], Names)

\* What a snapshot exports adds up although it was taken while requests were
\* counting themselves: no more errors and samples than requests, and the models
\* account for no more requests, tokens and errors than the totals.
SnapshotAddsUp ==
  reader = "out" =>
    /\ snapshot.counters.errors <= snapshot.counters.total
    /\ snapshot.samples <= snapshot.counters.total
    /\ OverModels("requests") <= snapshot.counters.total
    /\ OverModels("tokens") <= snapshot.counters.tokens
    /\ OverModels("errors") <= snapshot.counters.errors
=============================================================================
