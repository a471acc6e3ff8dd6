--------------------------- MODULE Records_proofs ---------------------------
(***************************************************************************)
(* What holds of the parts that record, and of those that show what was    *)
(* recorded, for every value of their constants: fleet, history, metrics,  *)
(* worker and session of agents, the terminal, the swarm, and the two      *)
(* stores of conversations.                                                *)
(***************************************************************************)
EXTENDS Records, DataTheorems

FInv ==
  /\ FleetAssumption
  /\ deviceStatus \in [Devices -> {"unknown", "Online", "Offline", "Deploying", "Error"}]
  /\ silence \in [Devices -> Int]
  /\ sinceCheck \in Nat
  /\ unchecked \subseteq Known
  /\ OnlineWasHeard

LEMMA FInvNext == FInv /\ [FleetNext]_fleetVars => FInv'
<1> SUFFICES ASSUME FInv, [FleetNext]_fleetVars PROVE FInv'
  OBVIOUS
<1> USE DEF FInv, OnlineWasHeard, FleetAssumption, Known
\* What a record brings is not believed before it was checked.
<1>1. ASSUME NEW d \in Devices, RegisterDevice(d) PROVE FInv'
  <2>1. PICK status \in {"Online", "Offline", "Deploying", "Error"}, age \in -MaxSilence..MaxSilence :
          Changed(d, status, age)
    BY <1>1 DEF RegisterDevice
  <2>2. unchecked' = unchecked \cup {d}
    BY <1>1 DEF RegisterDevice
  <2> QED
    BY <2>1, <2>2 DEF Changed
<1>2. ASSUME NEW d \in Devices, RemoveDevice(d) \/ Heartbeat(d) PROVE FInv'
  BY <1>2 DEF RemoveDevice, Heartbeat, Changed
<1>3. CASE CheckHealth
  BY <1>3 DEF CheckHealth, Silent
<1>4. ASSUME NEW targets \in SUBSET Devices, CreateDeployment(targets) PROVE FInv'
  BY <1>4 DEF CreateDeployment
<1>5. CASE TimePasses
  BY <1>5 DEF TimePasses
<1>6. CASE UNCHANGED fleetVars
  BY <1>6 DEF fleetVars
<1> QED
  BY <1>1, <1>2, <1>3, <1>4, <1>5, <1>6 DEF FleetNext

\* A device that counts as Online was heard of within the timeout before the last
\* health check, unless it registered since, for any number of devices and any
\* time in the record it registers with (register_device, heartbeat and
\* check_health, fleet/mod.rs).
THEOREM OnlineAlwaysHeard ==
  FleetAssumption => (FleetSpec => []OnlineWasHeard)
<1>1. FleetAssumption /\ FleetInit => FInv
  BY DEF FleetInit, FInv, OnlineWasHeard, FleetAssumption, Known
<1>2. FInv => OnlineWasHeard
  BY DEF FInv
<1> QED
  BY <1>1, <1>2, FInvNext, PTL DEF FleetSpec

-----------------------------------------------------------------------------
(***************************************************************************)
(* The worker.  What is in the file, unless it is torn, is a state that    *)
(* was reached; and a transition that is not being written and returned Ok *)
(* left just its state there.                                              *)
(***************************************************************************)
WInv ==
  /\ state \in reached /\ Spawning \in reached
  /\ reached \subseteq States
  /\ file \in reached \cup {Missing, Torn}
  /\ writing \in {"no", "open", "fill"}
  /\ writing = "fill" => file = Torn
  /\ writing = "no" /\ answer = "ok" => LoadState = state

LEMMA StatesAreNoMarks == Missing \notin States /\ Torn \notin States
  BY DEF States, Missing, Torn, At

LEMMA LoadStateReached == WInv => LoadState \in reached
  BY DEF WInv, LoadState

LEMMA BecomesKeeps ==
  ASSUME WInv, NEW next \in States, NEW from, Becomes(from, next)
  PROVE  WInv'
  BY DEF Becomes, WInv, LoadState

LEMMA WInvNext == WInv /\ [WorkerNext]_workerVars => WInv'
<1> SUFFICES ASSUME WInv, [WorkerNext]_workerVars PROVE WInv'
  OBVIOUS
<1>0. state.task \in {None} \cup {{t} : t \in Tasks}
  BY DEF WInv, States
<1>1. CASE RequireTrust \/ MarkReady
  BY <1>1, BecomesKeeps DEF RequireTrust, MarkReady, States, At
<1>2. ASSUME NEW t \in Tasks, AcceptPrompt(t) PROVE WInv'
  <2>1. At("prompt_accepted", {t}) \in States
    BY DEF States, At
  <2> QED
    BY <1>2, <2>1, BecomesKeeps DEF AcceptPrompt
<1>3. CASE StartRunning \/ FinishTask \/ Fail
  BY <1>0, <1>3, BecomesKeeps DEF StartRunning, FinishTask, Fail, States, At
<1>4. CASE OpenFile
  BY <1>4 DEF OpenFile, WInv, LoadState
<1>5. CASE FillFile
  BY <1>5, StatesAreNoMarks DEF FillFile, WInv, LoadState
<1>6. CASE Restart
  BY <1>6, LoadStateReached, StatesAreNoMarks DEF Restart, WInv, LoadState
<1>7. CASE UNCHANGED workerVars
  BY <1>7 DEF workerVars, WInv, LoadState
<1> QED
  BY <1>1, <1>2, <1>3, <1>4, <1>5, <1>6, <1>7 DEF WorkerNext

\* Wherever the writing of the state was cut or failed, a successor takes up a state
\* that was reached, and the current one after a transition that returned Ok
\* (persist_state and load_state, agents/worker.rs).
THEOREM RecoveredAlwaysHeld == WorkerSpec => []RecoveredIsHeld
<1>1. WorkerInit => WInv
  BY DEF WorkerInit, WInv, LoadState, Spawning, States, Missing, Torn, At
<1>2. WInv => RecoveredIsHeld
  BY LoadStateReached DEF RecoveredIsHeld, WInv
<1> QED
  BY <1>1, <1>2, WInvNext, PTL DEF WorkerSpec

-----------------------------------------------------------------------------
(***************************************************************************)
(* The metrics.  Every counter is the number (or the sum of the tokens) of *)
(* the requests that are past the step that counts them.  The requests     *)
(* that have their sample are a set that cannot change while the reader    *)
(* holds the latencies, and those counted in the models one that cannot    *)
(* change while it holds the models; the loads in between fall behind no   *)
(* more than the requests that are not in these sets.                      *)
(***************************************************************************)
Stages == {"new", "active", "total", "tokens", "latency", "error", "model", "done"}

In(K) == {r \in Requests : counting[r] \in K}

Counted    == In({"tokens", "latency", "error", "model", "done"})
Paid       == In({"latency", "error", "model", "done"})
Sampled    == In({"error", "model", "done"})
Failed     == {r \in In({"model", "done"}) : ~ job[r].success}
AllDone    == In({"done"})
DoneFailed == {r \in AllDone : ~ job[r].success}

TokensOf == [r \in Requests |-> job[r].tokens]

InModels(count) == SumOf(Field(models, count, Names), Names)

CountersRight ==
  /\ counters.total = Cardinality(Counted)
  /\ counters.tokens = SumOf(TokensOf, Paid)
  /\ counters.errors = Cardinality(Failed)
  /\ counters.active = Cardinality(In({"active"}))
  /\ samples \in 0..MaxSamples /\ samples <= Cardinality(Sampled)
  /\ \A r \in In({"error"}) : ~ job[r].success

ModelsRight ==
  /\ InModels("requests") = Cardinality(AllDone)
  /\ InModels("tokens") = SumOf(TokensOf, AllDone)
  /\ InModels("errors") = Cardinality(DoneFailed)

\* What the loads that were made ensure while the locks are held.
LoadsRight ==
  /\ reader \in {"tokens", "errors", "active", "guarded"} =>
       Cardinality(Sampled) <= snapshot.counters.total
  /\ reader \in {"errors", "active", "guarded"} =>
       SumOf(TokensOf, AllDone) <= snapshot.counters.tokens
  /\ reader \in {"active", "guarded"} =>
       /\ snapshot.counters.errors <= Cardinality(Sampled)
       /\ Cardinality(DoneFailed) <= snapshot.counters.errors

Exported(count) == SumOf(Field(snapshot.models, count, Names), Names)

SnapshotRight ==
  reader = "out" =>
    /\ snapshot.counters.errors <= snapshot.counters.total
    /\ snapshot.samples <= snapshot.counters.total
    /\ Exported("requests") <= snapshot.counters.total
    /\ Exported("tokens") <= snapshot.counters.tokens
    /\ Exported("errors") <= snapshot.counters.errors

LEMMA ExportedIsSum == ASSUME NEW count PROVE OverModels(count) = Exported(count)
  BY SumOfField DEF OverModels, Exported

CounterTypes == [total : Int, tokens : Int, errors : Int, active : Int]

MetricsShape ==
  /\ MetricsAssumption
  /\ counters \in CounterTypes
  /\ models \in [Names -> Counts]
  /\ counting \in [Requests -> Stages]
  /\ job \in [Requests -> Jobs]
  /\ reader \in {"out", "latencies", "total", "tokens", "errors", "active", "guarded"}
  /\ snapshot \in [counters : CounterTypes, samples : Int, models : [Names -> Counts]]

MInv ==
  /\ MetricsShape /\ CountersRight /\ ModelsRight /\ LoadsRight /\ SnapshotRight

LEMMA InFinite ==
  ASSUME MetricsShape, NEW S \in SUBSET Requests
  PROVE  IsFiniteSet(S) /\ Cardinality(S) \in Nat
  BY FS_Subset, FS_CardinalityType DEF MetricsShape, MetricsAssumption

LEMMA SmallerSet ==
  ASSUME MetricsShape, NEW T \in SUBSET Requests, NEW S \in SUBSET T
  PROVE  Cardinality(S) <= Cardinality(T)
  BY InFinite, FS_Subset DEF MetricsShape, MetricsAssumption

LEMMA TokensType ==
  MetricsShape => NatValued(TokensOf, Requests) /\ IntValued(TokensOf, Requests)
  BY DEF MetricsShape, MetricsAssumption, TokensOf, Jobs, NatValued, IntValued

\* One request moves from a to b, and joins the sets that have b but not a.
LEMMA MovesIn ==
  ASSUME MetricsShape, NEW r \in Requests, NEW a, NEW b \in Stages, Goes(r, a, b), NEW K
  PROVE  /\ a \notin K /\ b \in K => In(K)' = In(K) \cup {r} /\ r \notin In(K)
         /\ a \in K /\ b \notin K => In(K)' = In(K) \ {r} /\ r \in In(K)
         /\ (a \in K <=> b \in K) => In(K)' = In(K)
  BY DEF MetricsShape, Goes, In

LEMMA Joins ==
  ASSUME MetricsShape, NEW S \in SUBSET Requests, NEW r \in Requests \ S
  PROVE  /\ Cardinality(S \cup {r}) = Cardinality(S) + 1
         /\ SumOf(TokensOf, S \cup {r}) = SumOf(TokensOf, S) + job[r].tokens
         /\ SumOf(TokensOf, S) \in Nat /\ job[r].tokens \in Nat
<1>1. Cardinality(S \cup {r}) = Cardinality(S) + 1
  BY InFinite, FS_AddElement
<1>2. NatValued(TokensOf, Requests) /\ IntValued(TokensOf, Requests) /\ TokensOf[r] = job[r].tokens
  BY TokensType DEF TokensOf
<1>3. (S \cup {r}) \ {r} = S /\ S \cup {r} \in SUBSET Requests
  OBVIOUS
<1>4. SumOf(TokensOf, S) \in Nat
  BY <1>2, <1>3, SumGrows
<1>5. SumOf(TokensOf, S \cup {r}) = TokensOf[r] + SumOf(TokensOf, S)
  BY <1>2, <1>3, SumAdds
<1>6. TokensOf[r] \in Nat
  BY <1>2 DEF NatValued
<1> QED
  BY <1>1, <1>2, <1>4, <1>5, <1>6

\* What a step of a request has to show, for the reader does not move.
Kept == UNCHANGED <<job, reader, snapshot>>

LEMMA RequestStepKeeps ==
  ASSUME MInv, Kept, NEW r \in Requests, NEW b \in Stages, NEW a, Goes(r, a, b),
         counters' \in CounterTypes, models' \in [Names -> Counts],
         CountersRight', ModelsRight',
         a = "latency" \/ a = "model" => reader \in {"out", "latencies"},
         a \in {"new", "active", "total", "tokens", "latency", "error", "model"},
         a \in {"new", "active", "total", "tokens"} =>
           b \notin {"error", "model", "done"},
         a \in {"latency", "error"} => b \in {"error", "model"}
  PROVE  MInv'
<1>1. MetricsShape'
  BY DEF MInv, MetricsShape, Kept, Goes, MetricsAssumption
<1>2. SnapshotRight'
  BY DEF MInv, Kept, SnapshotRight, Exported
<1>3. LoadsRight'
  <2>1. CASE reader \in {"out", "latencies"}
    BY <2>1 DEF LoadsRight, Kept
  <2>2. CASE reader \notin {"out", "latencies"}
    <3>1. Sampled' = Sampled /\ AllDone' = AllDone
      BY <2>2, MovesIn DEF MInv, Sampled, AllDone
    <3>2. TokensOf' = TokensOf /\ DoneFailed' = DoneFailed
      BY <3>1 DEF TokensOf, DoneFailed, Kept
    <3> QED
      BY <3>1, <3>2 DEF MInv, LoadsRight, Kept
  <2> QED
    BY <2>1, <2>2
<1> QED
  BY <1>1, <1>2, <1>3 DEF MInv

LEMMA StartKeeps == ASSUME MInv, NEW r \in Requests, RequestStart(r) PROVE MInv'
<1>1. Kept /\ Goes(r, "new", "active")
  BY DEF RequestStart, Kept
<1>2. /\ In({"active"})' = In({"active"}) \cup {r} /\ r \notin In({"active"})
      /\ Counted' = Counted /\ Paid' = Paid /\ Sampled' = Sampled /\ AllDone' = AllDone
      /\ In({"model", "done"})' = In({"model", "done"}) /\ In({"error"})' = In({"error"})
  BY <1>1, MovesIn DEF MInv, Counted, Paid, Sampled, AllDone, Stages
<1>3. In({"active"}) \in SUBSET Requests
  BY DEF In
<1>4. Cardinality(In({"active"}))' = Cardinality(In({"active"})) + 1
  BY <1>2, <1>3, Joins DEF MInv
<1>5. Failed' = Failed /\ TokensOf' = TokensOf /\ DoneFailed' = DoneFailed
  BY <1>1, <1>2 DEF Failed, TokensOf, DoneFailed, Kept
<1>6. counters' \in CounterTypes /\ models' = models
  BY DEF RequestStart, Add, MInv, MetricsShape, CounterTypes
<1>7. CountersRight'
  BY <1>1, <1>2, <1>4, <1>5 DEF MInv, MetricsShape, CounterTypes, CountersRight, RequestStart, Add, Kept
<1>8. ModelsRight'
  BY <1>2, <1>5, <1>6 DEF MInv, ModelsRight, InModels
<1> QED
  BY <1>1, <1>6, <1>7, <1>8, RequestStepKeeps DEF MInv, MetricsShape, Stages

LEMMA LeaveKeeps == ASSUME MInv, NEW r \in Requests, LeaveActive(r) PROVE MInv'
<1>1. Kept /\ Goes(r, "active", "total")
  BY DEF LeaveActive, Kept
<1>2. /\ In({"active"})' = In({"active"}) \ {r} /\ r \in In({"active"})
      /\ Counted' = Counted /\ Paid' = Paid /\ Sampled' = Sampled /\ AllDone' = AllDone
      /\ In({"model", "done"})' = In({"model", "done"}) /\ In({"error"})' = In({"error"})
  BY <1>1, MovesIn DEF MInv, Counted, Paid, Sampled, AllDone, Stages
<1>3. Cardinality(In({"active"}))' = Cardinality(In({"active"})) - 1
  <2>1. IsFiniteSet(In({"active"}))
    BY InFinite DEF MInv, In
  <2> QED
    BY <1>2, <2>1, FS_RemoveElement
<1>4. Failed' = Failed /\ TokensOf' = TokensOf /\ DoneFailed' = DoneFailed
  BY <1>1, <1>2 DEF Failed, TokensOf, DoneFailed, Kept
<1>5. counters' \in CounterTypes /\ models' = models
  BY DEF LeaveActive, Add, MInv, MetricsShape, CounterTypes
<1>6. CountersRight'
  BY <1>1, <1>2, <1>3, <1>4 DEF MInv, MetricsShape, CounterTypes, CountersRight, LeaveActive, Add, Kept
<1>7. ModelsRight'
  BY <1>2, <1>4, <1>5 DEF MInv, ModelsRight, InModels
<1> QED
  BY <1>1, <1>5, <1>6, <1>7, RequestStepKeeps DEF MInv, MetricsShape, Stages

LEMMA TotalKeeps == ASSUME MInv, NEW r \in Requests, CountTotal(r) PROVE MInv'
<1>1. Kept /\ Goes(r, "total", "tokens")
  BY DEF CountTotal, Kept
<1>2. /\ Counted' = Counted \cup {r} /\ r \notin Counted /\ Counted \in SUBSET Requests
      /\ Paid' = Paid /\ Sampled' = Sampled /\ AllDone' = AllDone
      /\ In({"active"})' = In({"active"})
      /\ In({"model", "done"})' = In({"model", "done"}) /\ In({"error"})' = In({"error"})
  <2>1. Counted \in SUBSET Requests
    BY DEF Counted, In
  <2> QED
    BY <1>1, <2>1, MovesIn DEF MInv, Counted, Paid, Sampled, AllDone, Stages
<1>3. Cardinality(Counted)' = Cardinality(Counted) + 1
  BY <1>2, Joins DEF MInv
<1>4. Failed' = Failed /\ TokensOf' = TokensOf /\ DoneFailed' = DoneFailed
  BY <1>1, <1>2 DEF Failed, TokensOf, DoneFailed, Kept
<1>5. counters' \in CounterTypes /\ models' = models
  BY DEF CountTotal, Add, MInv, MetricsShape, CounterTypes
<1>6. CountersRight'
  BY <1>1, <1>2, <1>3, <1>4 DEF MInv, MetricsShape, CounterTypes, CountersRight, CountTotal, Add, Kept
<1>7. ModelsRight'
  BY <1>2, <1>4, <1>5 DEF MInv, ModelsRight, InModels
<1> QED
  BY <1>1, <1>5, <1>6, <1>7, RequestStepKeeps DEF MInv, MetricsShape, Stages

LEMMA TokensKeeps == ASSUME MInv, NEW r \in Requests, CountTokens(r) PROVE MInv'
<1>1. Kept /\ Goes(r, "tokens", "latency")
  BY DEF CountTokens, Kept
<1>2. /\ Paid' = Paid \cup {r} /\ r \notin Paid /\ Paid \in SUBSET Requests
      /\ Counted' = Counted /\ Sampled' = Sampled /\ AllDone' = AllDone
      /\ In({"active"})' = In({"active"})
      /\ In({"model", "done"})' = In({"model", "done"}) /\ In({"error"})' = In({"error"})
  <2>1. Paid \in SUBSET Requests
    BY DEF Paid, In
  <2> QED
    BY <1>1, <2>1, MovesIn DEF MInv, Counted, Paid, Sampled, AllDone, Stages
<1>3. Failed' = Failed /\ TokensOf' = TokensOf /\ DoneFailed' = DoneFailed
  BY <1>1, <1>2 DEF Failed, TokensOf, DoneFailed, Kept
<1>4. /\ SumOf(TokensOf, Paid)' = SumOf(TokensOf, Paid) + job[r].tokens
      /\ SumOf(TokensOf, Paid) \in Nat /\ job[r].tokens \in Nat
  BY <1>2, <1>3, Joins DEF MInv
<1>5. counters' \in CounterTypes /\ models' = models
  BY <1>4 DEF CountTokens, Add, MInv, MetricsShape, CounterTypes
<1>6. CountersRight'
  BY <1>1, <1>2, <1>3, <1>4 DEF MInv, MetricsShape, CounterTypes, CountersRight, CountTokens, Add, Kept
<1>7. ModelsRight'
  BY <1>2, <1>3, <1>5 DEF MInv, ModelsRight, InModels
<1> QED
  BY <1>1, <1>5, <1>6, <1>7, RequestStepKeeps DEF MInv, MetricsShape, Stages

LEMMA LatencyKeeps == ASSUME MInv, NEW r \in Requests, RecordLatency(r) PROVE MInv'
<1> DEFINE b == IF job[r].success THEN "model" ELSE "error"
<1>1. Kept /\ Goes(r, "latency", b) /\ b \in {"model", "error"} /\ reader = "out"
  BY DEF RecordLatency, Kept, LatenciesHeld
<1>2. /\ Sampled' = Sampled \cup {r} /\ r \notin Sampled /\ Sampled \in SUBSET Requests
      /\ Counted' = Counted /\ Paid' = Paid /\ AllDone' = AllDone
      /\ In({"active"})' = In({"active"})
  <2>1. Sampled \in SUBSET Requests
    BY DEF Sampled, In
  <2> QED
    BY <1>1, <2>1, MovesIn DEF MInv, Counted, Paid, Sampled, AllDone, Stages
<1>3. Failed' = Failed /\ \A q \in In({"error"})' : ~ job[q].success
  BY <1>1 DEF Failed, In, Kept, Goes, MInv, MetricsShape, CountersRight
<1>4. TokensOf' = TokensOf /\ DoneFailed' = DoneFailed
  BY <1>1, <1>2 DEF TokensOf, DoneFailed, Kept
<1>5. Cardinality(Sampled)' = Cardinality(Sampled) + 1 /\ Cardinality(Sampled) \in Nat
  BY <1>2, Joins, InFinite DEF MInv
<1>6. counters' \in CounterTypes /\ models' = models /\ counters' = counters
  BY DEF RecordLatency, MInv, MetricsShape
<1>7. samples' \in 0..MaxSamples /\ samples' <= Cardinality(Sampled)'
  BY <1>5 DEF RecordLatency, MInv, MetricsShape, MetricsAssumption, CountersRight
<1>8. CountersRight'
  BY <1>1, <1>2, <1>3, <1>4, <1>6, <1>7 DEF MInv, CountersRight, Kept
<1>9. ModelsRight'
  BY <1>2, <1>4, <1>6 DEF MInv, ModelsRight, InModels
<1> QED
  BY <1>1, <1>6, <1>8, <1>9, RequestStepKeeps DEF MInv, MetricsShape, Stages

LEMMA ErrorKeeps == ASSUME MInv, NEW r \in Requests, CountError(r) PROVE MInv'
<1>1. Kept /\ Goes(r, "error", "model") /\ r \in In({"error"})
  BY DEF CountError, Kept, Goes, In
<1>2. /\ Counted' = Counted /\ Paid' = Paid /\ Sampled' = Sampled /\ AllDone' = AllDone
      /\ In({"active"})' = In({"active"})
      /\ In({"model", "done"})' = In({"model", "done"}) \cup {r} /\ r \notin In({"model", "done"})
      /\ In({"error"})' = In({"error"}) \ {r}
  BY <1>1, MovesIn DEF MInv, Counted, Paid, Sampled, AllDone, Stages
<1>3. Failed' = Failed \cup {r} /\ r \notin Failed /\ Failed \in SUBSET Requests
  BY <1>1, <1>2 DEF Failed, In, Kept, MInv, CountersRight
<1>4. TokensOf' = TokensOf /\ DoneFailed' = DoneFailed
  BY <1>1, <1>2 DEF TokensOf, DoneFailed, Kept
<1>5. Cardinality(Failed)' = Cardinality(Failed) + 1
  BY <1>3, Joins DEF MInv
<1>6. counters' \in CounterTypes /\ models' = models
  BY DEF CountError, Add, MInv, MetricsShape, CounterTypes
<1>7. CountersRight'
  BY <1>1, <1>2, <1>4, <1>5 DEF MInv, MetricsShape, CounterTypes, CountersRight, CountError, Add, Kept
<1>8. ModelsRight'
  BY <1>2, <1>4, <1>6 DEF MInv, ModelsRight, InModels
<1> QED
  BY <1>1, <1>6, <1>7, <1>8, RequestStepKeeps DEF MInv, MetricsShape, Stages

\* A model's counts change by what one request adds.
Changes(table, table2, m, new) ==
  /\ table \in [Names -> Counts] /\ m \in Names /\ new \in Counts
  /\ table2 = [table EXCEPT ![m] = new]

LEMMA ModelCounts ==
  ASSUME MetricsAssumption, NEW table, NEW table2, NEW m, NEW new, Changes(table, table2, m, new),
         NEW count \in {"requests", "tokens", "errors"}
  PROVE  /\ SumOf(Field(table2, count, Names), Names) =
              SumOf(Field(table, count, Names), Names) - table[m][count] + new[count]
         /\ SumOf(Field(table, count, Names), Names) \in Int
<1> DEFINE f == Field(table, count, Names)
           g == Field(table2, count, Names)
<1>1. /\ m \in Names /\ f[m] = table[m][count] /\ g[m] = new[count]
      /\ \A n \in Names \ {m} : f[n] = g[n]
  BY DEF Field, Counts, Changes
<1>2. IntValued(f, Names) /\ IntValued(g, Names)
  BY DEF Field, Counts, Changes, MetricsAssumption, IntValued
<1> HIDE DEF f, g
<1>3. SumOf(g, Names) = SumOf(f, Names) - f[m] + g[m]
  BY <1>1, <1>2, SumUpdate
<1>4. SumOf(f, Names) \in Int
  BY <1>2, SumAdds
<1> QED
  BY <1>1, <1>3, <1>4 DEF f, g

LEMMA ModelKeeps == ASSUME MInv, NEW r \in Requests, CountModel(r) PROVE MInv'
<1> DEFINE m == job[r].model
           new == [requests |-> models[m].requests + 1,
                   tokens   |-> models[m].tokens + job[r].tokens,
                   errors   |-> IF job[r].success THEN models[m].errors ELSE models[m].errors + 1]
<1>1. Kept /\ Goes(r, "model", "done") /\ reader \in {"out", "latencies"}
  BY DEF CountModel, Kept, ModelsHeld, MInv, MetricsShape
<1>2. /\ AllDone' = AllDone \cup {r} /\ r \notin AllDone /\ AllDone \in SUBSET Requests
      /\ Counted' = Counted /\ Paid' = Paid /\ Sampled' = Sampled
      /\ In({"active"})' = In({"active"})
      /\ In({"model", "done"})' = In({"model", "done"}) /\ In({"error"})' = In({"error"})
  <2>1. AllDone \in SUBSET Requests
    BY DEF AllDone, In
  <2> QED
    BY <1>1, <2>1, MovesIn DEF MInv, Counted, Paid, Sampled, AllDone, Stages
<1>3. Failed' = Failed /\ TokensOf' = TokensOf
  BY <1>1, <1>2 DEF Failed, TokensOf, Kept
<1>4. /\ DoneFailed \in SUBSET Requests /\ r \notin DoneFailed
      /\ DoneFailed' = IF job[r].success THEN DoneFailed ELSE DoneFailed \cup {r}
  BY <1>1, <1>2 DEF DoneFailed, Kept
<1>5. /\ Cardinality(AllDone)' = Cardinality(AllDone) + 1
      /\ SumOf(TokensOf, AllDone)' = SumOf(TokensOf, AllDone) + job[r].tokens
      /\ SumOf(TokensOf, AllDone) \in Nat /\ job[r].tokens \in Nat
  BY <1>2, <1>3, Joins DEF MInv
<1>6. Cardinality(DoneFailed)' = Cardinality(DoneFailed) + (IF job[r].success THEN 0 ELSE 1)
  BY <1>4, Joins, InFinite DEF MInv
<1>7. Changes(models, models', m, new)
  BY <1>5 DEF CountModel, MInv, MetricsShape, Jobs, Counts, Changes
<1>8. /\ new.requests = models[m].requests + 1
      /\ new.tokens = models[m].tokens + job[r].tokens
      /\ new.errors = models[m].errors + (IF job[r].success THEN 0 ELSE 1)
      /\ models[m].requests \in Nat /\ models[m].tokens \in Nat /\ models[m].errors \in Nat
  BY <1>7 DEF MInv, MetricsShape, Counts, Changes
<1>9. counters' \in CounterTypes /\ models' \in [Names -> Counts] /\ UNCHANGED <<counters, samples>>
  BY <1>7 DEF CountModel, MInv, MetricsShape, Changes
<1> HIDE DEF m, new
<1>10. CountersRight'
  BY <1>1, <1>2, <1>3, <1>9 DEF MInv, CountersRight, Kept
<1>11. ModelsRight'
  <2>1. InModels("requests")' = InModels("requests") + 1 /\ InModels("requests") \in Int
    BY <1>7, <1>8, ModelCounts DEF MInv, MetricsShape, InModels
  <2>2. InModels("tokens")' = InModels("tokens") + job[r].tokens /\ InModels("tokens") \in Int
    BY <1>5, <1>7, <1>8, ModelCounts DEF MInv, MetricsShape, InModels
  <2>3. /\ InModels("errors")' = InModels("errors") + (IF job[r].success THEN 0 ELSE 1)
        /\ InModels("errors") \in Int
    BY <1>7, <1>8, ModelCounts DEF MInv, MetricsShape, InModels
  <2> QED
    BY <1>5, <1>6, <2>1, <2>2, <2>3 DEF MInv, ModelsRight
<1> QED
  BY <1>1, <1>9, <1>10, <1>11, RequestStepKeeps DEF MInv, MetricsShape, Stages

\* The reader changes what it holds and what it has read, and nothing it reads.
LEMMA ReaderStepKeeps ==
  ASSUME MInv, UNCHANGED <<counters, samples, models, counting, job>>,
         reader' \in {"out", "latencies", "total", "tokens", "errors", "active", "guarded"},
         snapshot' \in [counters : CounterTypes, samples : Int, models : [Names -> Counts]],
         LoadsRight', SnapshotRight'
  PROVE  MInv'
<1>1. MetricsShape'
  BY DEF MInv, MetricsShape, MetricsAssumption
<1>2. CountersRight' /\ ModelsRight'
  BY DEF MInv, CountersRight, ModelsRight, InModels, Counted, Paid, Sampled, Failed, AllDone,
         DoneFailed, TokensOf, In
<1> QED
  BY <1>1, <1>2 DEF MInv

LEMMA SnapshotKeeps == ASSUME MInv, Snapshot PROVE MInv'
<1> DEFINE Same == UNCHANGED <<counters, samples, models, counting, job>>
<1>1. Same
  BY DEF Snapshot, LockLatencies, LockModels, Load, CopyGuarded
<1>2. /\ Sampled' = Sampled /\ AllDone' = AllDone /\ DoneFailed' = DoneFailed /\ TokensOf' = TokensOf
  BY <1>1 DEF Sampled, AllDone, DoneFailed, TokensOf, In
<1>3. /\ Cardinality(Sampled) <= counters.total
      /\ SumOf(TokensOf, AllDone) <= counters.tokens
      /\ counters.errors <= Cardinality(Sampled)
      /\ Cardinality(DoneFailed) <= counters.errors
      /\ Cardinality(AllDone) <= Cardinality(Sampled)
  <2>1. /\ Sampled \in SUBSET Counted /\ AllDone \in SUBSET Paid /\ Failed \in SUBSET Sampled
        /\ DoneFailed \in SUBSET Failed /\ AllDone \in SUBSET Sampled
        /\ Counted \in SUBSET Requests /\ Paid \in SUBSET Requests
        /\ Sampled \in SUBSET Requests /\ Failed \in SUBSET Requests
    BY DEF Sampled, Counted, AllDone, Paid, Failed, DoneFailed, In
  <2>2. SumOf(TokensOf, AllDone) <= SumOf(TokensOf, Paid)
    BY <2>1, TokensType, SumGrows DEF MInv, MetricsShape, MetricsAssumption
  <2> QED
    BY <2>1, <2>2, SmallerSet DEF MInv, CountersRight
<1>4. /\ Cardinality(Sampled) \in Nat /\ Cardinality(DoneFailed) \in Nat /\ Cardinality(AllDone) \in Nat
      /\ SumOf(TokensOf, AllDone) \in Int
  BY TokensType, InFinite, SumAdds
     DEF MInv, Sampled, DoneFailed, AllDone, In, MetricsShape, MetricsAssumption
<1>5. CASE LockLatencies \/ LockModels
  <2>1. LoadsRight' /\ SnapshotRight'
    BY <1>5 DEF LockLatencies, LockModels, ReaderGoes, LoadsRight, SnapshotRight
  <2> QED
    BY <1>1, <1>5, <2>1, ReaderStepKeeps DEF LockLatencies, LockModels, ReaderGoes, MInv, MetricsShape
<1>6. ASSUME NEW field \in {"total", "tokens", "errors", "active"}, NEW next, Load(field, next),
             next = (CASE field = "total"  -> "tokens" [] field = "tokens" -> "errors"
                       [] field = "errors" -> "active" [] field = "active" -> "guarded")
      PROVE  MInv'
  <2>1. /\ snapshot' \in [counters : CounterTypes, samples : Int, models : [Names -> Counts]]
        /\ snapshot'.counters = [snapshot.counters EXCEPT ![field] = counters[field]]
    BY <1>6 DEF Load, MInv, MetricsShape, CounterTypes
  <2>2. LoadsRight'
    BY <1>2, <1>3, <1>6, <2>1 DEF Load, ReaderGoes, LoadsRight, MInv, MetricsShape, CounterTypes
  <2>3. SnapshotRight'
    BY <1>6 DEF Load, ReaderGoes, SnapshotRight
  <2> QED
    BY <1>1, <1>6, <2>1, <2>2, <2>3, ReaderStepKeeps DEF Load, ReaderGoes
<1>7. CASE CopyGuarded
  <2>0. /\ samples \in Int /\ models \in [Names -> Counts]
        /\ snapshot \in [counters : CounterTypes, samples : Int, models : [Names -> Counts]]
    BY DEF MInv, MetricsShape, CountersRight
  <2>1. /\ snapshot' \in [counters : CounterTypes, samples : Int, models : [Names -> Counts]]
        /\ snapshot'.counters = snapshot.counters /\ snapshot'.samples = samples
        /\ snapshot'.models = models /\ reader = "guarded" /\ reader' = "out"
    BY <1>7, <2>0 DEF CopyGuarded, ReaderGoes
  <2>2. LoadsRight'
    BY <2>1 DEF LoadsRight
  <2>3. \A count : Exported(count)' = InModels(count)
    BY <2>1 DEF Exported, InModels
  <2>4. /\ snapshot.counters.total \in Int /\ snapshot.counters.tokens \in Int
        /\ snapshot.counters.errors \in Int
    BY DEF MInv, MetricsShape, CounterTypes
  <2>5. SnapshotRight'
    BY <1>3, <1>4, <2>1, <2>3, <2>4
       DEF SnapshotRight, MInv, LoadsRight, ModelsRight, CountersRight, MetricsShape, MetricsAssumption
  <2> QED
    BY <1>1, <2>1, <2>2, <2>5, ReaderStepKeeps
<1> QED
  BY <1>5, <1>6, <1>7 DEF Snapshot

LEMMA MInvNext == MInv /\ [MetricsNext]_metricsVars => MInv'
<1> SUFFICES ASSUME MInv, [MetricsNext]_metricsVars PROVE MInv'
  OBVIOUS
<1>1. ASSUME NEW r \in Requests, RequestStart(r) \/ Complete(r) PROVE MInv'
  BY <1>1, StartKeeps, LeaveKeeps, TotalKeeps, TokensKeeps, LatencyKeeps, ErrorKeeps, ModelKeeps
     DEF Complete
<1>2. CASE Snapshot
  BY <1>2, SnapshotKeeps
<1>3. CASE UNCHANGED metricsVars
  BY <1>3, ReaderStepKeeps
     DEF metricsVars, MInv, MetricsShape, LoadsRight, SnapshotRight, Sampled, AllDone, DoneFailed,
         TokensOf, In, Exported
<1> QED
  BY <1>1, <1>2, <1>3 DEF MetricsNext

LEMMA MInvInit == MetricsAssumption /\ MetricsInit => MInv
<1> SUFFICES ASSUME MetricsAssumption, MetricsInit PROVE MInv
  OBVIOUS
<1>1. MetricsShape
  BY DEF MetricsInit, MetricsShape, CounterTypes, Zero, Counts, Stages
<1>2. /\ Counted = {} /\ Paid = {} /\ Sampled = {} /\ Failed = {} /\ AllDone = {} /\ DoneFailed = {}
      /\ In({"active"}) = {} /\ In({"error"}) = {}
  BY DEF MetricsInit, Counted, Paid, Sampled, Failed, AllDone, DoneFailed, In
<1>3. Cardinality({}) = 0 /\ SumOf(TokensOf, {}) = 0
  BY <1>1, FS_EmptySet, TokensType, SumAdds
<1>4. CountersRight
  BY <1>2, <1>3, SMTT(30) DEF MetricsInit, CountersRight, MetricsAssumption
<1>5. ASSUME NEW count \in {"requests", "tokens", "errors"}
      PROVE  InModels(count) = 0 /\ Exported(count) = 0
  <2>1. Field(models, count, Names) = [m \in Names |-> 0] /\ snapshot.models = models
    BY DEF MetricsInit, Zero, Field
  <2> QED
    BY <2>1, SumOfNothing DEF InModels, Exported, MetricsAssumption
<1>6. ModelsRight
  BY <1>2, <1>3, <1>5 DEF ModelsRight
<1>7. LoadsRight /\ SnapshotRight
  BY <1>5 DEF MetricsInit, LoadsRight, SnapshotRight
<1> QED
  BY <1>1, <1>4, <1>6, <1>7 DEF MInv

LEMMA SnapshotsAlwaysAddUp == MetricsAssumption => (MetricsSpec => []SnapshotAddsUp)
<1>1. MInv => SnapshotAddsUp
  BY ExportedIsSum DEF MInv, SnapshotRight, SnapshotAddsUp
<1> QED
  BY <1>1, MInvInit, MInvNext, PTL DEF MetricsSpec

-----------------------------------------------------------------------------
(***************************************************************************)
(* The sessions of agents.  A record that is none of the two marks has the *)
(* totals of its messages, in memory and in every file.                    *)
(***************************************************************************)
Total(ms) == SumOf(Field(ms, "tokens", DOMAIN ms), DOMAIN ms)

Totalled(s) == s.totalTokens = Total(s.messages) /\ s.messageCount = Len(s.messages)

Whole(s) ==
  /\ s \in [messages : Seq(Session!Message), totalTokens : Int, messageCount : Int]
  /\ Totalled(s)

Sound(s) == s = Session!None \/ s = Session!Torn \/ Whole(s)

SInv ==
  /\ Session!SessionAssumption
  /\ current \in Ids
  /\ live = Session!None \/ Whole(live)
  /\ saving => live # Session!None
  /\ stored = [i \in Ids |-> stored[i]] /\ \A i \in Ids : Sound(stored[i])

LEMMA SumIsTotal == ASSUME NEW ms PROVE Session!Sum(ms) = Total(ms)
<1>1. Session!Sum(ms) = MapThenSumSet(LAMBDA k : ms[k]["tokens"], DOMAIN ms)
  BY Zenon DEF Session!Sum, Session!MapThenSumSet, Session!MapThenFoldSet,
               MapThenSumSet, MapThenFoldSet
<1>2. MapThenSumSet(LAMBDA k : ms[k]["tokens"], DOMAIN ms) = Total(ms)
  BY SumOfField DEF Total
<1> QED
  BY <1>1, <1>2, Zenon

LEMMA MessageTokens ==
  ASSUME Session!SessionAssumption, NEW m \in Session!Message
  PROVE  m.tokens \in Int
<1>1. m.tokens \in Tokens
  BY DEF Session!Message
<1>2. \A t \in Tokens : t \in Nat
  BY DEF Session!SessionAssumption
<1>3. m.tokens \in Nat
  BY <1>1, <1>2, Zenon
<1> QED
  BY <1>3

LEMMA TokensAreInts ==
  ASSUME Session!SessionAssumption, NEW ms \in Seq(Session!Message)
  PROVE  IntValued(Field(ms, "tokens", DOMAIN ms), DOMAIN ms) /\ Total(ms) \in Int
<1>1. IsFiniteSet(1..Len(ms)) /\ DOMAIN ms = 1..Len(ms)
  BY FS_Interval
<1>2. \A k \in DOMAIN ms : ms[k] \in Session!Message /\ ms[k]["tokens"] = ms[k].tokens
  OBVIOUS
<1>3. \A k \in DOMAIN ms : ms[k]["tokens"] \in Int
  BY <1>2, MessageTokens
<1>4. IntValued(Field(ms, "tokens", DOMAIN ms), DOMAIN ms)
  BY <1>1, <1>3 DEF IntValued, Field
<1> QED
  BY <1>4, SumAdds DEF Total

LEMMA TotalOfAppend ==
  ASSUME Session!SessionAssumption, NEW ms \in Seq(Session!Message), NEW m \in Session!Message
  PROVE  Total(Append(ms, m)) = Total(ms) + m.tokens
<1> DEFINE all == Append(ms, m)
           n == Len(ms)
           f == Field(ms, "tokens", DOMAIN ms)
           g == Field(all, "tokens", DOMAIN all)
<1>0. /\ all \in Seq(Session!Message)
      /\ DOMAIN ms = 1..n /\ DOMAIN all = 1..(n + 1) /\ n \in Nat
  OBVIOUS
<1>1. /\ all \in Seq(Session!Message)
      /\ DOMAIN all \ {n + 1} = DOMAIN ms /\ n + 1 \in DOMAIN all
      /\ DOMAIN ms \in SUBSET DOMAIN all
  <2> HIDE DEF all, n
  <2> QED
    BY <1>0
<1>2. IntValued(f, DOMAIN ms) /\ IntValued(g, DOMAIN all) /\ Total(ms) \in Int
  BY <1>1, TokensAreInts
<1>3. g[n + 1] = m.tokens /\ \A k \in DOMAIN ms : f[k] = g[k]
  BY <1>0 DEF Field
<1>4. m.tokens \in Int
  BY MessageTokens
<1>5. Total(ms) = SumOf(f, DOMAIN ms) /\ Total(all) = SumOf(g, DOMAIN all)
  BY DEF Total
<1> HIDE DEF f, g, n, all
<1>6. SumOf(g, DOMAIN all) = g[n + 1] + SumOf(g, DOMAIN ms)
  BY <1>1, <1>2, SumAdds
<1>7. SumOf(f, DOMAIN ms) = SumOf(g, DOMAIN ms)
  BY <1>1, <1>2, <1>3, SumSame
<1>8. Total(all) = Total(ms) + m.tokens
  BY <1>2, <1>3, <1>4, <1>5, <1>6, <1>7
<1> QED
  BY <1>8 DEF all

\* What is in memory after a step that works on it.
LEMMA WorkedOn ==
  ASSUME SInv, live # Session!None
  PROVE  /\ live \in [messages : Seq(Session!Message), totalTokens : Int, messageCount : Int]
         /\ Totalled(live)
  BY DEF SInv, Whole

LEMMA BecomesSound ==
  ASSUME SInv, NEW i \in Ids, NEW s, Whole(s), Session!Becomes(i, s)
  PROVE  SInv'
<1>1. current' = i /\ live' = s /\ stored' = stored /\ ~saving /\ saving' = saving
  BY DEF Session!Becomes
<1>2. Whole(live') /\ \A j \in Ids : Sound(stored'[j])
  BY <1>1 DEF SInv
<1> QED
  BY <1>1, <1>2 DEF SInv

LEMMA SInvNext == SInv /\ [Session!SessionNext]_(Session!sessionVars) => SInv'
<1> SUFFICES ASSUME SInv, [Session!SessionNext]_(Session!sessionVars) PROVE SInv'
  OBVIOUS
<1>1. ASSUME NEW i \in Ids, Session!Create(i) PROVE SInv'
  <2> DEFINE none == <<>>
  <2>1. DOMAIN none = {} /\ none \in Seq(Session!Message) /\ Len(none) = 0
    OBVIOUS
  <2>2. Total(none) = 0
    <3> HIDE DEF none
    <3>1. IntValued(Field(none, "tokens", DOMAIN none), DOMAIN none)
      BY <2>1, TokensAreInts DEF SInv
    <3> QED
      BY <2>1, <3>1, SumAdds DEF Total
  <2>3. Whole(Session!NewSession)
    BY <2>1, <2>2 DEF Whole, Session!NewSession, Totalled
  <2> QED
    BY <1>1, <2>3, BecomesSound DEF Session!Create
<1>2. ASSUME NEW m \in Session!Message, Session!AppendMessage(m) PROVE SInv'
  <2> DEFINE new == [messages |-> Append(live.messages, m), totalTokens |-> live.totalTokens + m.tokens,
                     messageCount |-> live.messageCount + 1]
  <2>1. /\ live.messages \in Seq(Session!Message) /\ live.totalTokens \in Int
        /\ live.messageCount \in Int /\ Totalled(live)
    BY <1>2, WorkedOn DEF Session!AppendMessage
  <2>2. Total(Append(live.messages, m)) = live.totalTokens + m.tokens /\ m.tokens \in Int
    BY <2>1, TotalOfAppend, MessageTokens DEF SInv, Totalled
  <2>3. Whole(new)
    BY <2>1, <2>2 DEF Whole, Totalled
  <2> QED
    BY <1>2, <2>3, BecomesSound DEF Session!AppendMessage, SInv
<1>3. CASE Session!Pin
  <2>1. PICK k \in DOMAIN live.messages :
               Session!Becomes(current, [live EXCEPT !.messages[k].keep = TRUE])
    BY <1>3 DEF Session!Pin
  <2> DEFINE ms == live.messages
             pinned == [ms EXCEPT ![k] = [ms[k] EXCEPT !.keep = TRUE]]
             new == [live EXCEPT !.messages[k].keep = TRUE]
  <2>2. /\ live \in [messages : Seq(Session!Message), totalTokens : Int, messageCount : Int]
        /\ Totalled(live)
    BY <1>3, WorkedOn DEF Session!Pin
  <2>3. ms \in Seq(Session!Message) /\ ms[k] \in Session!Message
    BY <2>2
  <2>4. [ms[k] EXCEPT !.keep = TRUE] \in Session!Message
        /\ [ms[k] EXCEPT !.keep = TRUE].tokens = ms[k].tokens
    BY <2>3 DEF Session!Message
  <2>5. /\ pinned \in Seq(Session!Message) /\ Len(pinned) = Len(ms)
        /\ DOMAIN pinned = DOMAIN ms
    BY <2>3, <2>4
  <2>6. \A j \in DOMAIN ms : pinned[j]["tokens"] = ms[j]["tokens"]
    BY <2>3, <2>4
  <2>7. Field(pinned, "tokens", DOMAIN pinned) = Field(ms, "tokens", DOMAIN ms)
    BY <2>5, <2>6 DEF Field
  <2>8. new = [live EXCEPT !.messages = pinned]
    OBVIOUS
  <2> HIDE DEF pinned, new
  <2>9. new = [messages |-> pinned, totalTokens |-> live.totalTokens,
               messageCount |-> live.messageCount]
    BY <2>2, <2>8
  <2>10. Whole(new)
    BY <2>2, <2>5, <2>7, <2>9 DEF Whole, Totalled, Total
  <2> QED
    BY <2>1, <2>10, BecomesSound DEF SInv, new
<1>4. ASSUME NEW i \in Ids, Session!Fork(i) PROVE SInv'
  <2>1. Whole(live) /\ Session!Becomes(i, live)
    BY <1>4 DEF Session!Fork, SInv
  <2> QED
    BY <2>1, BecomesSound
<1>5. ASSUME NEW n \in 0..MaxMessages, Session!Compact(n) PROVE SInv'
  <2> DEFINE kept == Session!KeepAt(live.messages, Session!Kept(live.messages, n))
  <2>1. live.messages \in Seq(Session!Message)
    BY <1>5, WorkedOn DEF Session!Compact
  <2>2. kept \in Seq(Session!Message)
    BY <2>1, KeptAtSeq DEF Session!KeepAt, KeptAt
  <2>3. Total(kept) \in Int
    BY <2>2, TokensAreInts DEF SInv
  <2> HIDE DEF kept
  <2>4. Whole([messages |-> kept, totalTokens |-> Session!Sum(kept), messageCount |-> Len(kept)])
    BY <2>2, <2>3, SumIsTotal DEF Whole, Totalled
  <2> QED
    BY <1>5, <2>4, BecomesSound DEF Session!Compact, Session!Compacted, SInv, kept
<1>6. CASE Session!BeginSave \/ Session!EndSave
  <2>1. /\ current' = current /\ live' = live /\ live # Session!None
        /\ \/ stored' = stored
           \/ \E s \in {live, Session!Torn} : stored' = [stored EXCEPT ![current] = s]
    BY <1>6 DEF Session!BeginSave, Session!EndSave, SInv
  <2>2. \A i \in Ids : Sound(stored'[i])
    BY <2>1 DEF SInv, Sound
  <2>3. stored' = [i \in Ids |-> stored'[i]]
    BY <2>1 DEF SInv
  <2> QED
    BY <2>1, <2>2, <2>3 DEF SInv
<1>7. ASSUME NEW i \in Ids, Session!Load(i) PROVE SInv'
  <2>1. Whole(stored[i]) /\ Session!Becomes(i, stored[i])
    BY <1>7 DEF Session!Load, SInv, Sound
  <2> QED
    BY <2>1, BecomesSound
<1>8. ASSUME NEW i \in Ids, Session!Delete(i) PROVE SInv'
  BY <1>8 DEF SInv, Session!Delete, Sound
<1>9. CASE Session!ProcessEnds
  BY <1>9 DEF SInv, Session!ProcessEnds
<1>10. CASE UNCHANGED Session!sessionVars
  BY <1>10 DEF SInv, Session!sessionVars
<1> QED
  BY <1>1, <1>2, <1>3, <1>4, <1>5, <1>6, <1>7, <1>8, <1>9, <1>10 DEF Session!SessionNext

LEMMA TotalsAlwaysAgree ==
  Session!SessionAssumption => (Session!SessionSpec => []Session!TotalsAgree)
<1>1. Session!SessionAssumption /\ Session!SessionInit => SInv
  BY DEF Session!SessionInit, SInv, Sound
<1>2. SInv => Session!TotalsAgree
  BY SumIsTotal DEF SInv, Sound, Whole, Totalled, Session!TotalsAgree
<1> QED
  BY <1>1, <1>2, SInvNext, PTL DEF Session!SessionSpec

\* What an agent leaves in its files, its state and its sessions, can be trusted by
\* its successor, wherever the writing was cut (agents/worker.rs and session.rs).
THEOREM StoredAlwaysSound ==
  Session!SessionAssumption => (WorkerSpec /\ Session!SessionSpec => []StoredIsSound)
<1>1. RecoveredIsHeld /\ Session!TotalsAgree => StoredIsSound
  BY DEF StoredIsSound
<1> QED
  BY <1>1, RecoveredAlwaysHeld, TotalsAlwaysAgree, PTL

-----------------------------------------------------------------------------
(***************************************************************************)
(* The history.  Every summary that can be read, and every one a call is   *)
(* about to write, is consistent in itself and lists only executions whose *)
(* call has read a summary: this is why no execution is listed twice.  As  *)
(* long as no call was disturbed at most one is under way, and the files   *)
(* are what the calls that are done have left.                             *)
(***************************************************************************)
Wins(recent) == {i \in DOMAIN recent : success[recent[i]]}

Written == {e \in Executions : recording[e] \in {"emptySummary", "fillSummary", "done"}}

AddsUp(s, known) ==
  /\ s \in History!Summaries
  /\ s.ok + s.failed = s.total
  /\ Len(s.recent) = (IF s.total < MaxRecent THEN s.total ELSE MaxRecent)
  /\ Cardinality(Wins(s.recent)) <= s.ok
  /\ History!IsInjective(s.recent)
  /\ \A i \in DOMAIN s.recent : s.recent[i] \in known

HistoryShape ==
  /\ History!HistoryAssumption
  /\ recording \in [Executions -> {"new", "emptyLog", "fillLog", "fillRemoved", "readSummary",
                                    "emptySummary", "fillSummary", "done"}]
  /\ success \in [Executions -> BOOLEAN]
  /\ held = [e \in Executions |-> held[e]]
  /\ disturbed \in BOOLEAN
  /\ order \in Seq(Executions)

SummariesAddUp ==
  /\ summary = History!Unreadable \/ AddsUp(summary, Written)
  /\ \A e \in Executions : recording[e] \in {"emptySummary", "fillSummary"} => AddsUp(held[e], Written)

Recorded == {e \in Executions : recording[e] = "done"}

Succeeding == {e \in Executions : recording[e] = "done" /\ success[e]}

OrderLines == [i \in DOMAIN order |-> History!Line(order[i])]

Undisturbed ==
  /\ \A e \in Executions : recording[e] # "fillRemoved"
  /\ \A e, f \in Executions : History!InProgress(e) /\ History!InProgress(f) => e = f
  /\ \A e \in Executions : recording[e] \in {"emptyLog", "fillLog"} =>
       held[e] = OrderLines \o <<History!Line(e)>>
  /\ IF \E e \in Executions : recording[e] = "fillLog" THEN log = <<>> ELSE log = OrderLines
  /\ \A e \in Executions : recording[e] \in {"emptySummary", "fillSummary"} =>
       /\ held[e].total = Cardinality(Recorded) + 1
       /\ held[e].ok = Cardinality(Succeeding) + (IF success[e] THEN 1 ELSE 0)
  /\ IF \E e \in Executions : recording[e] = "fillSummary"
     THEN summary = History!Unreadable
     ELSE /\ summary # History!Unreadable
          /\ summary.total = Cardinality(Recorded) /\ summary.ok = Cardinality(Succeeding)

HInv == HistoryShape /\ SummariesAddUp /\ (~disturbed => Undisturbed)

\* The instance has the definitions of the library once more.
LEMMA HistoryCounts ==
  /\ \A S : History!Cardinality(S) = Cardinality(S)
  /\ \A S : History!IsFiniteSet(S) <=> IsFiniteSet(S)
  BY Zenon DEF History!Cardinality, Cardinality, History!IsFiniteSet, IsFiniteSet

LEMMA WinsFinite ==
  ASSUME NEW T, NEW r \in Seq(T)
  PROVE  IsFiniteSet(Wins(r)) /\ Cardinality(Wins(r)) \in Nat /\ Wins(r) \subseteq 1..Len(r)
<1>1. Wins(r) \in SUBSET DOMAIN r
  BY Zenon DEF Wins
<1>2. DOMAIN r = 1..Len(r) /\ Len(r) \in Int /\ 1 \in Int
  OBVIOUS
<1>3. IsFiniteSet(1..Len(r))
  BY <1>2, FS_Interval
<1> QED
  BY <1>1, <1>2, <1>3, FS_Subset, FS_CardinalityType

LEMMA ShiftedWins ==
  ASSUME NEW T, NEW r \in Seq(T)
  PROVE  LET later == {i + 1 : i \in Wins(r)}
         IN  IsFiniteSet(later) /\ Cardinality(later) <= Cardinality(Wins(r))
<1> DEFINE later == {i + 1 : i \in Wins(r)}
           f == [i \in Wins(r) |-> i + 1]
<1>1. f \in Surjection(Wins(r), later)
  BY DEF Surjection
<1> QED
  BY <1>1, WinsFinite, FS_Surjection

\* Counting one more execution keeps a summary consistent.
LEMMA UpdatedAddsUp ==
  ASSUME HistoryShape, NEW e \in Executions, recording[e] = "readSummary",
         NEW s, AddsUp(s, Written), NEW n, n = History!Updated(s, e)
  PROVE  /\ n.total = s.total + 1 /\ n.ok = s.ok + (IF success[e] THEN 1 ELSE 0)
         /\ AddsUp(n, Written \cup {e})
<1> DEFINE r == s.recent
           last == IF Len(r) < MaxRecent THEN Len(r) + 1 ELSE MaxRecent
           new == SubSeq(<<e>> \o r, 1, last)
           later == {i + 1 : i \in Wins(r)}
<1>1. /\ s.total \in Nat /\ s.ok \in Nat /\ s.failed \in Nat /\ r \in Seq(Executions)
      /\ MaxRecent \in Nat /\ Len(r) = (IF s.total < MaxRecent THEN s.total ELSE MaxRecent)
  BY DEF AddsUp, History!Summaries, HistoryShape, History!HistoryAssumption
<1>2. n = [total |-> s.total + 1, ok |-> IF success[e] THEN s.ok + 1 ELSE s.ok,
           failed |-> IF success[e] THEN s.failed ELSE s.failed + 1, recent |-> new]
  BY DEF History!Updated
<1>3. /\ new \in Seq(Executions) /\ Len(new) = last /\ last \in 0..(Len(r) + 1)
      /\ \A i \in 1..last : new[i] = IF i = 1 THEN e ELSE r[i - 1]
  <2>1. /\ <<e>> \o r \in Seq(Executions) /\ Len(<<e>> \o r) = Len(r) + 1
        /\ \A i \in 1..(Len(r) + 1) : (<<e>> \o r)[i] = IF i = 1 THEN e ELSE r[i - 1]
    BY <1>1
  <2>2. last \in 0..(Len(r) + 1)
    BY <1>1
  <2> DEFINE all == <<e>> \o r
  <2> HIDE DEF all, last, r
  <2>3. /\ SubSeq(all, 1, last) \in Seq(Executions) /\ Len(SubSeq(all, 1, last)) = last
        /\ \A i \in 1..last : SubSeq(all, 1, last)[i] = all[i]
    BY <2>1, <2>2, <1>1 DEF all
  <2> QED
    BY <2>1, <2>2, <2>3, <1>1 DEF all
<1>4. /\ \A i \in DOMAIN r : r[i] # e
      /\ \A i, j \in DOMAIN r : r[i] = r[j] => i = j
      /\ \A i \in DOMAIN r : r[i] \in Written
      /\ DOMAIN r = 1..Len(r)
  BY <1>1 DEF AddsUp, Written, History!IsInjective
<1>5. \A i \in 1..last : i # 1 => i - 1 \in DOMAIN r
  BY <1>1, <1>3, <1>4
<1>6. \A i, j \in 1..last : new[i] = new[j] => i = j
  <2> SUFFICES ASSUME NEW i \in 1..last, NEW j \in 1..last, new[i] = new[j] PROVE i = j
    OBVIOUS
  <2>1. /\ i # 1 => i - 1 \in DOMAIN r /\ new[i] = r[i - 1]
        /\ j # 1 => j - 1 \in DOMAIN r /\ new[j] = r[j - 1]
        /\ i = 1 => new[i] = e
        /\ j = 1 => new[j] = e
        /\ i \in Int /\ j \in Int
    BY <1>3, <1>5
  <2> HIDE DEF new, last, r
  <2> QED
    BY <2>1, <1>4
<1>7. Cardinality(Wins(new)) <= Cardinality(Wins(r)) + (IF success[e] THEN 1 ELSE 0)
  <2>1. IsFiniteSet(later) /\ Cardinality(later) <= Cardinality(Wins(r))
        /\ Cardinality(later) \in Nat /\ Cardinality(Wins(r)) \in Nat
    BY <1>1, ShiftedWins, WinsFinite, FS_CardinalityType
  <2>2. \A i \in Wins(new) : i \in later \/ (i = 1 /\ success[e])
    <3> SUFFICES ASSUME NEW i \in Wins(new), i # 1 PROVE i \in later
      <4> HIDE DEF new, later, last, r
      <4>1. \A i \in Wins(new) : i \in 1..last /\ success[new[i]]
        BY <1>3 DEF Wins
      <4> QED
        BY <1>3, <4>1
    <3>1. i \in 1..last /\ success[new[i]] /\ i - 1 \in DOMAIN r /\ new[i] = r[i - 1]
      <4> HIDE DEF new, last, r
      <4> QED
        BY <1>3, <1>5 DEF Wins
    <3>2. i - 1 \in Wins(r) /\ i = (i - 1) + 1
      <4>1. i - 1 \in DOMAIN r /\ success[r[i - 1]]
        BY <3>1
      <4>2. i \in Int
        BY <1>3, <3>1
      <4> HIDE DEF r
      <4> QED
        BY <4>1, <4>2 DEF Wins
    <3> QED
      BY <3>2
  <2> HIDE DEF new, later, last, r
  <2>3. CASE success[e]
    <3>1. Wins(new) \in SUBSET (later \cup {1})
      BY <2>2
    <3>2. IsFiniteSet(later \cup {1}) /\ Cardinality(later \cup {1}) <= Cardinality(later) + 1
          /\ Cardinality(later \cup {1}) \in Nat
      <4>1. IsFiniteSet(later \cup {1})
            /\ Cardinality(later \cup {1}) \in {Cardinality(later), Cardinality(later) + 1}
        BY <2>1, FS_AddElement, Zenon
      <4> QED
        BY <2>1, <4>1
    <3>3. Cardinality(Wins(new)) <= Cardinality(later \cup {1}) /\ Cardinality(Wins(new)) \in Nat
      BY <1>3, <3>1, <3>2, FS_Subset, WinsFinite
    <3> QED
      BY <2>1, <2>3, <3>2, <3>3
  <2>4. CASE ~success[e]
    <3>1. Wins(new) \in SUBSET later
      BY <2>2, <2>4
    <3>3. Cardinality(Wins(new)) <= Cardinality(later) /\ Cardinality(Wins(new)) \in Nat
      BY <1>3, <2>1, <3>1, FS_Subset, WinsFinite
    <3> QED
      BY <2>1, <2>4, <3>3
  <2> QED
    BY <2>3, <2>4
<1>8. /\ n.total = s.total + 1 /\ n.recent = new
      /\ n.ok = s.ok + (IF success[e] THEN 1 ELSE 0)
      /\ n.failed = s.failed + (IF success[e] THEN 0 ELSE 1)
  <2>1. /\ n.total = s.total + 1 /\ n.recent = new
        /\ n.ok = IF success[e] THEN s.ok + 1 ELSE s.ok
        /\ n.failed = IF success[e] THEN s.failed ELSE s.failed + 1
    <3> HIDE DEF new
    <3> QED
      BY <1>2
  <2>2. s.ok \in Nat /\ s.failed \in Nat
    BY <1>1
  <2> HIDE DEF new
  <2> QED
    BY <2>1, <2>2
<1>9. Len(new) = (IF s.total + 1 < MaxRecent THEN s.total + 1 ELSE MaxRecent)
  BY <1>1, <1>3
<1>10. /\ Cardinality(Wins(r)) <= s.ok /\ s.ok + s.failed = s.total
       /\ Cardinality(Wins(new)) \in Nat /\ Cardinality(Wins(r)) \in Nat
  BY <1>1, <1>3, WinsFinite DEF AddsUp
<1>11. n \in History!Summaries
  <2> HIDE DEF new
  <2> QED
    BY <1>1, <1>2, <1>3, SMTT(30) DEF History!Summaries
<1>12. /\ DOMAIN new = 1..last
       /\ \A i \in 1..last : new[i] \in Written \cup {e}
  <2> HIDE DEF new, last, r
  <2> QED
    BY <1>3, <1>4, <1>5
<1> HIDE DEF new, last, r, later
<1>13. History!IsInjective(new)
  BY <1>6, <1>12 DEF History!IsInjective
<1>14. n.ok + n.failed = n.total /\ Cardinality(Wins(new)) <= n.ok
  <2>1. s.total \in Nat /\ s.ok \in Nat /\ s.failed \in Nat
    BY <1>1
  <2>2. CASE success[e]
    BY <1>7, <1>8, <1>10, <2>1, <2>2
  <2>3. CASE ~success[e]
    BY <1>7, <1>8, <1>10, <2>1, <2>3
  <2> QED
    BY <2>2, <2>3
<1>15. \A i \in DOMAIN new : new[i] \in Written \cup {e}
  BY <1>12
<1>16. AddsUp(n, Written \cup {e})
  BY <1>8, <1>9, <1>11, <1>13, <1>14, <1>15, Zenon DEF AddsUp
<1> QED
  BY <1>8, <1>16

LEMMA MoreKnown ==
  ASSUME NEW s, NEW known, NEW known2, known \subseteq known2, AddsUp(s, known)
  PROVE  AddsUp(s, known2)
  BY DEF AddsUp

LEMMA ReadableIsSummary ==
  ASSUME NEW known PROVE ~AddsUp(History!Unreadable, known)
<1>1. \A s \in History!Summaries : DOMAIN s = {"total", "ok", "failed", "recent"}
  BY DEF History!Summaries
<1>2. DOMAIN History!Unreadable = {"torn"}
  BY DEF History!Unreadable
<1>3. {"torn"} # {"total", "ok", "failed", "recent"}
  OBVIOUS
<1> QED
  BY <1>1, <1>2, <1>3 DEF AddsUp

LEMMA EmptyAddsUp == ASSUME HistoryShape, NEW known PROVE AddsUp(History!Empty, known)
<1> DEFINE none == <<>>
<1>1. Wins(none) = {} /\ Len(none) = 0 /\ none \in Seq(Executions) /\ DOMAIN none = {}
  BY DEF Wins
<1>2. Cardinality({}) = 0
  BY FS_EmptySet
<1>3. MaxRecent \in Nat
  BY DEF HistoryShape, History!HistoryAssumption
<1>4. History!Empty = [total |-> 0, ok |-> 0, failed |-> 0, recent |-> none]
  BY DEF History!Empty
<1> HIDE DEF none
<1>5. History!Empty \in History!Summaries
  BY <1>1, <1>4 DEF History!Summaries
<1>6. /\ History!Empty.total = 0 /\ History!Empty.ok = 0 /\ History!Empty.failed = 0
      /\ History!Empty.recent = none
  BY <1>4
<1>7. 0 = IF 0 < MaxRecent THEN 0 ELSE MaxRecent
  BY <1>3
<1>8. History!IsInjective(none)
  BY <1>1 DEF History!IsInjective
<1> QED
  BY <1>1, <1>2, <1>5, <1>6, <1>7, <1>8, SMTT(30) DEF AddsUp

\* Nothing new is held, and the summary is one that was held or none.
LEMMA AddUpFrame ==
  ASSUME SummariesAddUp, UNCHANGED success, Written \subseteq Written',
         \A e \in Executions : recording'[e] \in {"emptySummary", "fillSummary"} =>
           recording[e] \in {"emptySummary", "fillSummary"} /\ held'[e] = held[e],
         \/ summary' \in {summary, History!Unreadable}
         \/ \E e \in Executions : recording[e] = "fillSummary" /\ summary' = held[e]
  PROVE  SummariesAddUp'
<1>0. \A s, known : AddsUp(s, known)' <=> AddsUp(s', known')
  BY DEF AddsUp, Wins
<1>1. \A e \in Executions : recording'[e] \in {"emptySummary", "fillSummary"} => AddsUp(held'[e], Written')
  BY MoreKnown DEF SummariesAddUp
<1>2. summary' = History!Unreadable \/ AddsUp(summary', Written')
  BY MoreKnown DEF SummariesAddUp
<1> QED
  BY <1>1, <1>2 DEF SummariesAddUp, AddsUp, Wins

-----------------------------------------------------------------------------
LEMMA OneInProgress ==
  ASSUME HInv, ~disturbed, NEW e \in Executions, History!InProgress(e)
  PROVE  \A f \in Executions : f # e => recording[f] \in {"new", "done"}
  BY DEF HInv, HistoryShape, Undisturbed, History!InProgress

\* A step of a call that is not its last leaves the calls that are done.
LEMMA DoneStays ==
  ASSUME HistoryShape, NEW e \in Executions, NEW here, NEW next, History!Goes(e, here, next),
         here # "done", next # "done", success' = success
  PROVE  Recorded' = Recorded /\ Succeeding' = Succeeding
  BY DEF HistoryShape, History!Goes, Recorded, Succeeding

LEMMA ReadLogKeeps == ASSUME HInv, NEW e \in Executions, History!ReadLog(e) PROVE HInv'
<1>1. /\ HistoryShape' /\ UNCHANGED <<log, summary, success, order>>
      /\ History!Goes(e, "new", "emptyLog")
      /\ held'[e] = log \o <<History!Line(e)>>
      /\ \A f \in Executions : f # e => recording'[f] = recording[f] /\ held'[f] = held[f]
      /\ recording[e] = "new" /\ recording'[e] = "emptyLog"
  BY DEF History!ReadLog, History!Goes, History!Holds, HInv, HistoryShape
<1>2. SummariesAddUp'
  <2>1. Written \subseteq Written'
    BY <1>1 DEF Written
  <2>2. SummariesAddUp
    BY DEF HInv
  <2> QED
    BY <1>1, <2>1, <2>2, AddUpFrame
<1>3. ASSUME ~disturbed' PROVE Undisturbed'
  <2>1. ~disturbed /\ \A f \in Executions : ~History!InProgress(f)
    BY <1>3 DEF History!ReadLog, HInv, HistoryShape
  <2>2. \A f \in Executions : recording[f] \in {"new", "done"}
    BY <2>1 DEF History!InProgress, HInv, HistoryShape
  <2>3. Recorded' = Recorded /\ Succeeding' = Succeeding
    BY <1>1, DoneStays DEF HInv
  <2>4. /\ Undisturbed /\ log = OrderLines /\ OrderLines' = OrderLines
    BY <1>1, <2>1, <2>2 DEF HInv, Undisturbed, OrderLines
  <2> QED
    BY <1>1, <2>2, <2>3, <2>4 DEF Undisturbed, History!InProgress
<1> QED
  BY <1>1, <1>2, <1>3 DEF HInv

LEMMA EmptyLogKeeps == ASSUME HInv, NEW e \in Executions, History!EmptyLog(e) PROVE HInv'
<1>1. /\ HistoryShape' /\ UNCHANGED <<summary, success, held, disturbed, order>>
      /\ History!Goes(e, "emptyLog", "fillLog") /\ log' = <<>>
      /\ \A f \in Executions : f # e => recording'[f] = recording[f]
      /\ recording[e] = "emptyLog" /\ recording'[e] = "fillLog"
  BY DEF History!EmptyLog, History!Goes, HInv, HistoryShape
<1>2. SummariesAddUp'
  <2>1. Written \subseteq Written'
    BY <1>1 DEF Written
  <2>2. SummariesAddUp
    BY DEF HInv
  <2> QED
    BY <1>1, <2>1, <2>2, AddUpFrame
<1>3. ASSUME ~disturbed' PROVE Undisturbed'
  <2>1. Undisturbed /\ ~disturbed
    BY <1>1, <1>3 DEF HInv
  <2>2. \A f \in Executions : f # e => recording[f] \in {"new", "done"}
    BY <1>1, <2>1, OneInProgress DEF History!InProgress
  <2>3. Recorded' = Recorded /\ Succeeding' = Succeeding
    BY <1>1, DoneStays DEF HInv
  <2>4. OrderLines' = OrderLines
    BY <1>1 DEF OrderLines
  <2> QED
    BY <1>1, <2>1, <2>2, <2>3, <2>4 DEF Undisturbed, History!InProgress
<1> QED
  BY <1>1, <1>2, <1>3 DEF HInv

LEMMA FillLogKeeps == ASSUME HInv, NEW e \in Executions, History!FillLog(e) PROVE HInv'
<1>1. /\ UNCHANGED <<summary, success, disturbed>> /\ order' = Append(order, e)
      /\ History!Goes(e, "fillLog", "readSummary") /\ log' \in History!Overlaid(held[e], log)
      /\ \A f \in Executions : f # e => recording'[f] = recording[f] /\ held'[f] = held[f]
      /\ recording[e] = "fillLog" /\ recording'[e] = "readSummary"
  BY DEF History!FillLog, History!Goes, History!Holds, HInv, HistoryShape
<1>2. HistoryShape'
  <2>1. order' \in Seq(Executions)
    BY <1>1 DEF HInv, HistoryShape
  <2>2. /\ recording' = [recording EXCEPT ![e] = "readSummary"]
        /\ held' = [held EXCEPT ![e] = History!Nothing]
    BY DEF History!FillLog, History!Goes, History!Holds
  <2> QED
    BY <1>1, <2>1, <2>2 DEF HInv, HistoryShape
<1>3. SummariesAddUp'
  <2>1. Written \subseteq Written'
    BY <1>1 DEF Written
  <2>2. SummariesAddUp
    BY DEF HInv
  <2> QED
    BY <1>1, <2>1, <2>2, AddUpFrame
<1>4. ASSUME ~disturbed' PROVE Undisturbed'
  <2>1. Undisturbed /\ ~disturbed
    BY <1>1, <1>4 DEF HInv
  <2>2. \A f \in Executions : f # e => recording[f] \in {"new", "done"}
    BY <1>1, <2>1, OneInProgress DEF History!InProgress
  <2>3. Recorded' = Recorded /\ Succeeding' = Succeeding
    BY <1>1, DoneStays DEF HInv
  <2>4. log = <<>> /\ held[e] = OrderLines \o <<History!Line(e)>>
    BY <1>1, <2>1 DEF Undisturbed
  <2>5. log' = held[e]
    <3>1. Len(<<>>) = 0 /\ 2..(0 + 1) = {}
      OBVIOUS
    <3> QED
      BY <1>1, <2>4, <3>1 DEF History!Overlaid
  <2>6. OrderLines' = OrderLines \o <<History!Line(e)>>
    <3>1. order \in Seq(Executions)
      BY DEF HInv, HistoryShape
    <3>2. /\ DOMAIN order' = 1..(Len(order) + 1) /\ Len(order) \in Nat /\ DOMAIN order = 1..Len(order)
          /\ \A i \in 1..Len(order) : order'[i] = order[i]
          /\ order'[Len(order) + 1] = e
      BY <1>1, <3>1
    <3> DEFINE lines == OrderLines
               L == History!Line(e)
    <3>3. lines \in Seq({History!Line(f) : f \in Executions}) /\ Len(lines) = Len(order)
          /\ \A i \in 1..Len(order) : lines[i] = History!Line(order[i])
      BY <3>1, <3>2 DEF OrderLines
    <3> HIDE DEF lines, L
    <3>4. /\ DOMAIN (lines \o <<L>>) = 1..(Len(order) + 1)
          /\ \A i \in 1..Len(order) : (lines \o <<L>>)[i] = lines[i]
          /\ (lines \o <<L>>)[Len(order) + 1] = L
          /\ lines \o <<L>> = [i \in 1..(Len(order) + 1) |-> (lines \o <<L>>)[i]]
      BY <3>2, <3>3
    <3>5. OrderLines' = [i \in 1..(Len(order) + 1) |-> History!Line(order'[i])]
      BY <3>2 DEF OrderLines
    <3>6. \A i \in 1..(Len(order) + 1) : i \in 1..Len(order) \/ i = Len(order) + 1
      BY <3>2
    <3> QED
      BY <3>2, <3>3, <3>4, <3>5, <3>6 DEF L, lines
  <2> QED
    BY <1>1, <2>1, <2>2, <2>3, <2>4, <2>5, <2>6 DEF Undisturbed, History!InProgress
<1> QED
  BY <1>2, <1>3, <1>4 DEF HInv

LEMMA ReadSummaryKeeps == ASSUME HInv, NEW e \in Executions, History!ReadSummary(e) PROVE HInv'
<1> DEFINE s == History!Readable(summary)
           n == History!Updated(s, e)
<1>1. /\ UNCHANGED <<log, summary, success, disturbed, order>>
      /\ History!Goes(e, "readSummary", "emptySummary") /\ held'[e] = n
      /\ \A f \in Executions : f # e => recording'[f] = recording[f] /\ held'[f] = held[f]
      /\ recording[e] = "readSummary" /\ recording'[e] = "emptySummary"
  BY DEF History!ReadSummary, History!Goes, History!Holds, HInv, HistoryShape
<1>2. HistoryShape'
  BY <1>1 DEF History!ReadSummary, History!Goes, History!Holds, HInv, HistoryShape
<1>3. Written' = Written \cup {e}
  BY <1>1 DEF Written
<1>4. AddsUp(s, Written)
  BY EmptyAddsUp DEF HInv, SummariesAddUp, History!Readable
<1> HIDE DEF s, n
<1>5. /\ n.total = s.total + 1 /\ n.ok = s.ok + (IF success[e] THEN 1 ELSE 0)
      /\ AddsUp(n, Written \cup {e})
  BY <1>1, <1>4, UpdatedAddsUp DEF HInv, n
<1>6. SummariesAddUp'
  <2>0. \A x, known : AddsUp(x, known)' <=> AddsUp(x', known')
    BY <1>1 DEF AddsUp, Wins
  <2>1. SummariesAddUp /\ Written \subseteq Written'
    BY <1>3 DEF HInv
  <2>2. \A f \in Executions : recording'[f] \in {"emptySummary", "fillSummary"} => AddsUp(held'[f], Written')
    BY <1>1, <1>3, <1>5, <2>1, MoreKnown DEF SummariesAddUp
  <2>3. summary' = History!Unreadable \/ AddsUp(summary', Written')
    BY <1>1, <2>1, MoreKnown DEF SummariesAddUp
  <2> QED
    BY <1>1, <2>2, <2>3 DEF SummariesAddUp, AddsUp, Wins
<1>7. ASSUME ~disturbed' PROVE Undisturbed'
  <2>1. Undisturbed /\ ~disturbed
    BY <1>1, <1>7 DEF HInv
  <2>2. \A f \in Executions : f # e => recording[f] \in {"new", "done"}
    BY <1>1, <2>1, OneInProgress DEF History!InProgress
  <2>3. Recorded' = Recorded /\ Succeeding' = Succeeding
    BY <1>1, DoneStays DEF HInv
  <2>4. OrderLines' = OrderLines
    BY <1>1 DEF OrderLines
  <2>5. /\ s.total = Cardinality(Recorded) /\ s.ok = Cardinality(Succeeding)
        /\ summary # History!Unreadable
    BY <1>1, <2>1, <2>2 DEF s, History!Readable, Undisturbed
  <2>6. /\ held'[e].total = Cardinality(Recorded) + 1
        /\ held'[e].ok = Cardinality(Succeeding) + (IF success[e] THEN 1 ELSE 0)
    BY <1>1, <1>5, <2>5
  <2> QED
    BY <1>1, <2>1, <2>2, <2>3, <2>4, <2>6 DEF Undisturbed, History!InProgress
<1> QED
  BY <1>2, <1>6, <1>7 DEF HInv

LEMMA EmptySummaryKeeps == ASSUME HInv, NEW e \in Executions, History!EmptySummary(e) PROVE HInv'
<1>1. /\ HistoryShape' /\ UNCHANGED <<log, success, held, disturbed, order>>
      /\ History!Goes(e, "emptySummary", "fillSummary") /\ summary' = History!Unreadable
      /\ \A f \in Executions : f # e => recording'[f] = recording[f]
      /\ recording[e] = "emptySummary" /\ recording'[e] = "fillSummary"
  BY DEF History!EmptySummary, History!Goes, HInv, HistoryShape
<1>2. SummariesAddUp'
  <2>1. Written \subseteq Written'
    BY <1>1 DEF Written
  <2>2. SummariesAddUp
    BY DEF HInv
  <2> QED
    BY <1>1, <2>1, <2>2, AddUpFrame
<1>3. ASSUME ~disturbed' PROVE Undisturbed'
  <2>1. Undisturbed /\ ~disturbed
    BY <1>1, <1>3 DEF HInv
  <2>2. \A f \in Executions : f # e => recording[f] \in {"new", "done"}
    BY <1>1, <2>1, OneInProgress DEF History!InProgress
  <2>3. Recorded' = Recorded /\ Succeeding' = Succeeding
    BY <1>1, DoneStays DEF HInv
  <2>4. OrderLines' = OrderLines
    BY <1>1 DEF OrderLines
  <2> QED
    BY <1>1, <2>1, <2>2, <2>3, <2>4 DEF Undisturbed, History!InProgress
<1> QED
  BY <1>1, <1>2, <1>3 DEF HInv

LEMMA FillSummaryKeeps == ASSUME HInv, NEW e \in Executions, History!FillSummary(e) PROVE HInv'
<1>1. /\ HistoryShape' /\ UNCHANGED <<log, success, disturbed, order>>
      /\ summary' \in {held[e]} \cup (IF summary = History!Unreadable THEN {} ELSE {History!Unreadable})
      /\ \A f \in Executions : f # e => recording'[f] = recording[f] /\ held'[f] = held[f]
      /\ recording[e] = "fillSummary" /\ recording'[e] = "done"
  BY DEF History!FillSummary, History!Goes, History!Holds, HInv, HistoryShape
<1>2. SummariesAddUp'
  <2>1. Written \subseteq Written'
    BY <1>1 DEF Written
  <2>2. SummariesAddUp
    BY DEF HInv
  <2> QED
    BY <1>1, <2>1, <2>2, AddUpFrame
<1>3. ASSUME ~disturbed' PROVE Undisturbed'
  <2>1. Undisturbed /\ ~disturbed
    BY <1>1, <1>3 DEF HInv
  <2>2. \A f \in Executions : f # e => recording[f] \in {"new", "done"}
    BY <1>1, <2>1, OneInProgress DEF History!InProgress
  <2>3. summary' = held[e] /\ held[e] # History!Unreadable
    <3>1. summary = History!Unreadable /\ AddsUp(held[e], Written)
      BY <1>1, <2>1 DEF Undisturbed, HInv, SummariesAddUp
    <3> QED
      BY <1>1, <3>1, ReadableIsSummary
  <2>4. OrderLines' = OrderLines
    BY <1>1 DEF OrderLines
  <2>5. /\ Recorded' = Recorded \cup {e} /\ e \notin Recorded
        /\ Succeeding' = (IF success[e] THEN Succeeding \cup {e} ELSE Succeeding) /\ e \notin Succeeding
    BY <1>1 DEF Recorded, Succeeding
  <2>6. IsFiniteSet(Recorded) /\ IsFiniteSet(Succeeding)
    <3>1. Recorded \in SUBSET Executions /\ Succeeding \in SUBSET Executions
      BY DEF Recorded, Succeeding
    <3> QED
      BY <3>1, HistoryCounts, FS_Subset DEF HInv, HistoryShape, History!HistoryAssumption
  <2>7. /\ Cardinality(Recorded)' = Cardinality(Recorded) + 1
        /\ Cardinality(Succeeding)' = Cardinality(Succeeding) + (IF success[e] THEN 1 ELSE 0)
    <3>1. Cardinality(Succeeding) \in Nat
      BY <2>6, FS_CardinalityType
    <3>2. Cardinality(Recorded \cup {e}) = Cardinality(Recorded) + 1
      BY <2>5, <2>6, FS_AddElement, Zenon
    <3>3. Cardinality(Succeeding \cup {e}) = Cardinality(Succeeding) + 1
      BY <2>5, <2>6, FS_AddElement, Zenon
    <3>4. Cardinality(Recorded)' = Cardinality(Recorded')
          /\ Cardinality(Succeeding)' = Cardinality(Succeeding')
      OBVIOUS
    <3> QED
      BY <2>5, <3>1, <3>2, <3>3, <3>4
  <2>8. held[e].total = Cardinality(Recorded)' /\ held[e].ok = Cardinality(Succeeding)'
    BY <1>1, <2>1, <2>7 DEF Undisturbed
  <2> QED
    BY <1>1, <2>1, <2>2, <2>3, <2>4, <2>8 DEF Undisturbed, History!InProgress
<1> QED
  BY <1>1, <1>2, <1>3 DEF HInv

LEMMA StopKeeps == ASSUME HInv, NEW e \in Executions, History!Stop(e) PROVE HInv'
<1>1. /\ HistoryShape' /\ disturbed' = TRUE /\ UNCHANGED <<log, summary, success, order>>
      /\ \A f \in Executions : f # e => recording'[f] = recording[f] /\ held'[f] = held[f]
      /\ recording'[e] = "done"
  BY DEF History!Stop, History!Holds, HInv, HistoryShape
<1>2. SummariesAddUp'
  <2>1. Written \subseteq Written'
    BY <1>1 DEF Written
  <2>2. SummariesAddUp
    BY DEF HInv
  <2> QED
    BY <1>1, <2>1, <2>2, AddUpFrame
<1> QED
  BY <1>1, <1>2 DEF HInv

LEMMA FillRemovedLogKeeps == ASSUME HInv, NEW e \in Executions, History!FillRemovedLog(e) PROVE HInv'
<1>1. /\ HistoryShape' /\ UNCHANGED <<log, summary, success, disturbed, order>>
      /\ \A f \in Executions : f # e => recording'[f] = recording[f] /\ held'[f] = held[f]
      /\ recording[e] = "fillRemoved" /\ recording'[e] = "readSummary"
  BY DEF History!FillRemovedLog, History!Goes, History!Holds, HInv, HistoryShape
<1>2. SummariesAddUp'
  <2>1. Written \subseteq Written'
    BY <1>1 DEF Written
  <2>2. SummariesAddUp
    BY DEF HInv
  <2> QED
    BY <1>1, <2>1, <2>2, AddUpFrame
<1>3. disturbed
  BY <1>1 DEF HInv, HistoryShape, Undisturbed
<1> QED
  BY <1>1, <1>2, <1>3 DEF HInv

LEMMA CleanupKeeps == ASSUME HInv, History!CleanupOldLogs PROVE HInv'
<1>1. /\ HistoryShape' /\ UNCHANGED <<summary, success, held>>
      /\ log' = <<>> /\ order' = <<>>
      /\ \A e \in Executions :
           recording'[e] = IF recording[e] = "fillLog" THEN "fillRemoved" ELSE recording[e]
  BY DEF History!CleanupOldLogs, HInv, HistoryShape
<1>2. SummariesAddUp'
  <2>1. Written \subseteq Written'
    BY <1>1 DEF Written
  <2>2. SummariesAddUp
    BY DEF HInv
  <2> QED
    BY <1>1, <2>1, <2>2, AddUpFrame
<1>3. ASSUME ~disturbed' PROVE Undisturbed'
  <2>1. ~disturbed /\ \A e \in Executions : recording[e] \notin {"emptyLog", "fillLog"}
    BY <1>3 DEF History!CleanupOldLogs, HInv, HistoryShape
  <2>2. Undisturbed /\ \A e \in Executions : recording'[e] = recording[e]
    BY <1>1, <2>1 DEF HInv
  <2>3. OrderLines' = <<>>
    BY <1>1 DEF OrderLines
  <2>4. Recorded' = Recorded /\ Succeeding' = Succeeding
    BY <1>1, <2>2 DEF Recorded, Succeeding
  <2> QED
    BY <1>1, <2>1, <2>2, <2>3, <2>4 DEF Undisturbed, History!InProgress
<1> QED
  BY <1>1, <1>2, <1>3 DEF HInv

LEMMA HInvNext == HInv /\ [History!HistoryNext]_(History!historyVars) => HInv'
<1> SUFFICES ASSUME HInv, [History!HistoryNext]_(History!historyVars) PROVE HInv'
  OBVIOUS
<1>1. ASSUME NEW e \in Executions, History!Record(e) \/ History!Stop(e) PROVE HInv'
  BY <1>1, ReadLogKeeps, EmptyLogKeeps, FillLogKeeps, FillRemovedLogKeeps, ReadSummaryKeeps,
     EmptySummaryKeeps, FillSummaryKeeps, StopKeeps DEF History!Record
<1>2. CASE History!CleanupOldLogs
  BY <1>2, CleanupKeeps
<1>3. CASE UNCHANGED History!historyVars
  <2>1. UNCHANGED <<log, summary, recording, success, held, disturbed, order>>
    BY <1>3 DEF History!historyVars
  <2>2. HistoryShape' /\ (~disturbed' => Undisturbed')
    BY <2>1 DEF HInv, HistoryShape, Undisturbed, OrderLines, Recorded, Succeeding, History!InProgress
  <2>3. SummariesAddUp /\ Written = Written'
    BY <2>1 DEF HInv, Written
  <2>4. SummariesAddUp'
    BY <2>1, <2>3, AddUpFrame
  <2> QED
    BY <2>2, <2>4 DEF HInv
<1> QED
  BY <1>1, <1>2, <1>3 DEF History!HistoryNext

LEMMA HInvInit == History!HistoryAssumption /\ History!HistoryInit => HInv
<1> SUFFICES ASSUME History!HistoryAssumption, History!HistoryInit PROVE HInv
  OBVIOUS
<1>1. HistoryShape
  <2>1. held = [e \in Executions |-> History!Nothing]
    BY DEF History!HistoryInit
  <2>2. held = [e \in Executions |-> held[e]]
    BY <2>1
  <2>3. recording \in [Executions -> {"new", "emptyLog", "fillLog", "fillRemoved", "readSummary",
                                      "emptySummary", "fillSummary", "done"}]
    BY DEF History!HistoryInit
  <2>4. success \in [Executions -> BOOLEAN] /\ disturbed \in BOOLEAN
    BY Zenon DEF History!HistoryInit
  <2>5. order \in Seq(Executions)
    BY DEF History!HistoryInit
  <2> QED
    BY <2>2, <2>3, <2>4, <2>5, Zenon DEF HistoryShape
<1>2. SummariesAddUp
  BY <1>1, EmptyAddsUp DEF SummariesAddUp, History!HistoryInit
<1>3. Recorded = {} /\ Succeeding = {} /\ Cardinality({}) = 0
  BY FS_EmptySet DEF Recorded, Succeeding, History!HistoryInit
<1>4. OrderLines = <<>>
  BY DEF OrderLines, History!HistoryInit
<1>5. summary # History!Unreadable /\ summary.total = 0 /\ summary.ok = 0
  <2>1. AddsUp(summary, {})
    BY <1>1, EmptyAddsUp DEF History!HistoryInit
  <2> QED
    BY <2>1, ReadableIsSummary DEF History!HistoryInit, History!Empty
<1> QED
  BY <1>1, <1>2, <1>3, <1>4, <1>5 DEF HInv, Undisturbed, History!HistoryInit, History!InProgress

LEMMA HistoryAlwaysKept ==
  History!HistoryAssumption => (History!HistorySpec => []History!HistoryKept)
<1>1. HInv => History!SummaryAddsUp
  BY HistoryCounts DEF HInv, SummariesAddUp, AddsUp, Wins, HistoryShape, History!SummaryAddsUp, History!Succeeded
<1>2. HInv => History!RecordsKept
  <2> SUFFICES ASSUME HInv, ~disturbed, \A e \in Executions : ~History!InProgress(e)
               PROVE  /\ log = OrderLines
                      /\ summary.total = Cardinality(Recorded)
                      /\ summary.ok = Cardinality(Succeeding)
    BY HistoryCounts DEF OrderLines, Recorded, Succeeding, History!RecordsKept
  <2> QED
    BY DEF HInv, Undisturbed, History!InProgress
<1>3. HInv => History!HistoryKept
  BY <1>1, <1>2 DEF History!HistoryKept
<1> QED
  BY <1>3, HInvInit, HInvNext, PTL DEF History!HistorySpec

\* What is recorded adds up: the history of executions that were not disturbed is
\* kept, and so is the sum of every summary; and what a snapshot of the metrics exports
\* agrees with itself (workflow/history.rs and observability/metrics.rs).
THEOREM RecordsAlwaysAddUp ==
  History!HistoryAssumption /\ MetricsAssumption =>
    (History!HistorySpec /\ MetricsSpec => []RecordsAddUp)
<1>1. History!HistoryKept /\ SnapshotAddsUp => RecordsAddUp
  BY DEF RecordsAddUp
<1> QED
  BY <1>1, HistoryAlwaysKept, SnapshotsAlwaysAddUp, PTL

-----------------------------------------------------------------------------
(***************************************************************************)
(* The terminal.  The types and the property together are inductive.       *)
(***************************************************************************)
Modes   == {"Chat", "CommandPalette", "Help", "Scroll"}
Senders == {"user", "assistant", "system"}

Chatting(c) ==
  /\ c \in Seq(Senders) /\ Len(c) <= MaxHistory
  /\ \A i \in DOMAIN c : c[i] = "user" => i < Len(c) /\ c[i + 1] = "assistant"

Typed(x, S) == x \in Seq(S) /\ Len(x) <= MaxTyped

Prompt(x) == Typed(x, Ui!Characters) /\ (x # <<>> => x[1] \notin {"/", "?"})

TInv ==
  /\ Ui!TerminalAssumption
  /\ mode \in Modes /\ tab \in 1..4 /\ options \subseteq Ui!Options /\ offset \in 0..Top
  /\ mode = "Scroll" => offset > 0
  /\ Typed(commandInput, Words) /\ (commandInput # <<>> => mode = "CommandPalette")
  /\ Prompt(input) /\ Chatting(chat) /\ shouldQuit \in BOOLEAN

LEMMA TInvIsSound == TInv => Ui!TerminalSound
  BY DEF TInv, Ui!TerminalSound, Ui!ModesAgree, Ui!PromptsArePlain, Ui!PromptsAnswered,
         Prompt, Chatting

\* Trimming the front keeps an answer with its prompt.
LEMMA TrimmedChat ==
  ASSUME NEW c \in Seq(Senders), NEW k \in Nat, k <= Len(c), Len(c) - k <= MaxHistory,
         \A i \in DOMAIN c : c[i] = "user" => i < Len(c) /\ c[i + 1] = "assistant"
  PROVE  Chatting(SubSeq(c, k + 1, Len(c)))
<1> DEFINE n == Len(c)
           t == SubSeq(c, k + 1, n)
<1>1. n \in Nat /\ DOMAIN c = 1..n
  OBVIOUS
<1>2. /\ t \in Seq(Senders) /\ Len(t) = n - k /\ DOMAIN t = 1..(n - k)
      /\ \A i \in 1..(n - k) : t[i] = c[i + k]
  <2>1. t \in Seq(Senders)
    BY <1>1
  <2>2. Len(t) = n - k
    <3>1. Len(t) = IF k + 1 <= n THEN n - (k + 1) + 1 ELSE 0
      BY <1>1
    <3>2. n \in Nat /\ k <= n
      BY <1>1
    <3> HIDE DEF t, n
    <3> QED
      BY <3>1, <3>2
  <2>3. DOMAIN t = 1..(n - k)
    BY <2>1, <2>2
  <2>4. ASSUME NEW i \in 1..(n - k) PROVE t[i] = c[i + k]
    <3>1. k + 1 + i - 1 = i + k /\ i \in Nat
      OBVIOUS
    <3> QED
      BY <1>1, <3>1
  <2> QED
    BY <2>1, <2>2, <2>3, <2>4
<1> HIDE DEF n, t
<1>3. ASSUME NEW i \in 1..(n - k), t[i] = "user" PROVE i < n - k /\ t[i + 1] = "assistant"
  <2>1. i + k \in 1..n /\ c[i + k] = "user"
    BY <1>1, <1>2, <1>3
  <2>2. i + k < n /\ c[(i + k) + 1] = "assistant"
    BY <1>1, <2>1 DEF n
  <2>3. i + 1 \in 1..(n - k) /\ (i + 1) + k = (i + k) + 1 /\ i < n - k
    BY <1>1, <2>2
  <2> QED
    BY <1>2, <2>2, <2>3
<1> QED
  BY <1>2, <1>3 DEF Chatting, n, t

LEMMA AddedChat ==
  ASSUME TInv, NEW s \in {<<"system">>, <<"user", "assistant">>}
  PROVE  Chatting(Ui!Added(s))
<1> DEFINE n == Len(chat)
           m == Len(s)
           c == chat \o s
<1>1. /\ chat \in Seq(Senders) /\ n \in Nat /\ DOMAIN chat = 1..n /\ MaxHistory \in Nat
      /\ \A i \in 1..n : chat[i] = "user" => i < n /\ chat[i + 1] = "assistant"
  BY DEF TInv, Chatting, Ui!TerminalAssumption
<1>2. /\ s \in Seq(Senders) /\ m \in {1, 2}
      /\ \A i \in 1..m : s[i] = "user" => i < m /\ s[i + 1] = "assistant"
  <2>1. CASE s = <<"system">>
    BY <2>1 DEF Senders
  <2>2. CASE s = <<"user", "assistant">>
    <3>1. m = 2 /\ s \in Seq(Senders) /\ s[1] = "user" /\ s[2] = "assistant"
      BY <2>2 DEF Senders
    <3> HIDE DEF m
    <3> QED
      BY <3>1
  <2> QED
    BY <2>1, <2>2
<1>3. /\ c \in Seq(Senders) /\ Len(c) = n + m /\ DOMAIN c = 1..(n + m)
      /\ \A i \in 1..(n + m) : c[i] = IF i <= n THEN chat[i] ELSE s[i - n]
  BY <1>1, <1>2
<1> HIDE DEF n, m, c
<1>4. ASSUME NEW i \in 1..(n + m), c[i] = "user" PROVE i < n + m /\ c[i + 1] = "assistant"
  <2>1. CASE i <= n
    <3>1. i \in 1..n /\ chat[i] = "user"
      BY <1>1, <1>2, <1>3, <1>4, <2>1
    <3>2. i < n /\ chat[i + 1] = "assistant"
      BY <1>1, <3>1
    <3>3. i + 1 \in 1..(n + m) /\ i + 1 <= n
      BY <1>1, <1>2, <3>1, <3>2
    <3> QED
      BY <1>1, <1>2, <1>3, <3>1, <3>2, <3>3
  <2>2. CASE ~(i <= n)
    <3>1. i - n \in 1..m /\ s[i - n] = "user"
      BY <1>1, <1>2, <1>3, <1>4, <2>2
    <3>2. i - n < m /\ s[(i - n) + 1] = "assistant"
      BY <1>2, <3>1
    <3>3. i + 1 \in 1..(n + m) /\ ~(i + 1 <= n) /\ (i + 1) - n = (i - n) + 1 /\ i < n + m
      BY <1>1, <1>2, <2>2, <3>1, <3>2
    <3> QED
      BY <1>3, <3>2, <3>3
  <2> QED
    BY <2>1, <2>2
<1>5. Ui!Added(s) = SubSeq(c, IF Len(c) > MaxHistory THEN Len(c) - MaxHistory + 1 ELSE 1, Len(c))
  BY Zenon DEF Ui!Added, c
<1>6. CASE Len(c) > MaxHistory
  <2>1. Len(c) - MaxHistory \in Nat /\ Len(c) - MaxHistory <= Len(c)
        /\ Len(c) - (Len(c) - MaxHistory) <= MaxHistory
    BY <1>1, <1>2, <1>3, <1>6
  <2>2. Chatting(SubSeq(c, (Len(c) - MaxHistory) + 1, Len(c)))
    BY <1>3, <1>4, <2>1, TrimmedChat
  <2> QED
    BY <1>5, <1>6, <2>2, Zenon
<1>7. CASE ~(Len(c) > MaxHistory)
  <2>1. Len(c) \in Nat /\ 0 <= Len(c) /\ Len(c) - 0 <= MaxHistory /\ 0 \in Nat /\ 0 + 1 = 1
    BY <1>1, <1>2, <1>3, <1>7
  <2>2. Chatting(SubSeq(c, 0 + 1, Len(c)))
    BY <1>3, <1>4, <2>1, TrimmedChat
  <2> QED
    BY <1>5, <1>7, <2>1, <2>2, Zenon
<1> QED
  BY <1>6, <1>7

\* What a text becomes.
LEMMA TextGrows ==
  ASSUME MaxTyped \in Nat, NEW S, NEW x, Typed(x, S)
  PROVE  /\ \A c \in S : Len(x) < MaxTyped => Typed(Append(x, c), S) /\ Append(x, c) # <<>>
                         /\ Append(x, c)[1] = IF x = <<>> THEN c ELSE x[1]
         /\ x # <<>> => Typed(Ui!Front(x), S) /\ (Ui!Front(x) # <<>> => Ui!Front(x)[1] = x[1])
<1>1. x \in Seq(S) /\ Len(x) \in Nat
  BY DEF Typed
<1>2. ASSUME NEW c \in S, Len(x) < MaxTyped
      PROVE  /\ Typed(Append(x, c), S) /\ Append(x, c) # <<>>
             /\ Append(x, c)[1] = IF x = <<>> THEN c ELSE x[1]
  BY <1>1, <1>2 DEF Typed
<1>3. ASSUME x # <<>>
      PROVE  Typed(Ui!Front(x), S) /\ (Ui!Front(x) # <<>> => Ui!Front(x)[1] = x[1])
  <2> DEFINE n == Len(x) - 1
             f == SubSeq(x, 1, n)
  <2>1. Ui!Front(x) = f
    BY DEF Ui!Front
  <2>2. n \in Nat /\ n + 1 = Len(x)
    BY <1>1, <1>3
  <2>3. f \in Seq(S) /\ Len(f) = n /\ \A i \in 1..n : f[i] = x[i]
    BY <1>1, <2>2
  <2>4. f # <<>> => 1 \in 1..n
    BY <2>2, <2>3
  <2>5. n <= MaxTyped
    BY <1>1, <2>2 DEF Typed
  <2> HIDE DEF n, f
  <2> QED
    BY <2>1, <2>3, <2>4, <2>5 DEF Typed
<1> QED
  BY <1>2, <1>3

LEMMA NothingTyped == ASSUME TInv, NEW S PROVE Typed(<<>>, S)
  BY DEF TInv, Typed, Ui!TerminalAssumption

LEMMA TKeeps ==
  ASSUME TInv, mode' \in Modes, tab' \in 1..4, options' \subseteq Ui!Options, offset' \in 0..Top,
         mode' = "Scroll" => offset' > 0,
         Typed(commandInput', Words), commandInput' # <<>> => mode' = "CommandPalette",
         Prompt(input'), Chatting(chat'), shouldQuit' \in BOOLEAN
  PROVE  TInv'
  BY Zenon DEF TInv, Ui!TerminalAssumption, Typed, Prompt, Chatting

LEMMA Commanded ==
  ASSUME TInv, NEW word, Ui!execute_command(word)
  PROVE  /\ mode' \in {"Chat", "Help"} /\ offset' \in 0..Top /\ options' \subseteq Ui!Options
         /\ Chatting(chat') /\ shouldQuit' \in BOOLEAN
<1>1. /\ mode' \in {"Chat", "Help"} /\ offset' \in {offset, 0}
      /\ options' \in {options, (options \cup {word}) \ (options \cap {word})}
      /\ (options' # options => word \in Ui!Options)
      /\ chat' \in {chat, <<>>, Ui!Added(<<"system">>)}
  BY Zenon DEF Ui!execute_command, Ui!Toggle
<1>2. shouldQuit' \in BOOLEAN
  BY Zenon DEF Ui!execute_command, TInv
<1>3. Chatting(<<>>)
  BY DEF Chatting, TInv, Ui!TerminalAssumption
<1>4. Chatting(chat')
  BY <1>1, <1>3, AddedChat, Zenon DEF TInv
<1>5. offset' \in 0..Top /\ options' \subseteq Ui!Options
  BY <1>1 DEF TInv, Ui!TerminalAssumption
<1> QED
  BY <1>1, <1>2, <1>4, <1>5

\* Scrolling, by keys and by the wheel.
LEMMA Scrolled ==
  ASSUME TInv, NEW to \in 0..Top, NEW there \in Modes, there = "Scroll" => to > 0,
         commandInput # <<>> => there = "CommandPalette", Ui!Scrolls(to, there)
  PROVE  TInv'
<1>1. /\ offset' = to /\ mode' = there /\ tab' = tab /\ options' = options
      /\ commandInput' = commandInput /\ input' = input /\ chat' = chat
      /\ shouldQuit' = shouldQuit
  BY Zenon DEF Ui!Scrolls
<1> QED
  BY <1>1, TKeeps, Zenon DEF TInv

LEMMA Offsets ==
  ASSUME TInv
  PROVE  /\ Ui!Up(offset) \in 0..Top /\ Ui!Up(offset) > 0
         /\ Ui!Down(offset) \in 0..Top /\ Top \in 0..Top /\ Top > 0 /\ 0 \in 0..Top
         /\ Ui!Down(offset) # 0 => Ui!Down(offset) > 0
  BY DEF TInv, Ui!TerminalAssumption, Ui!Up, Ui!Down

\* The keys of a chat, scrolled or not; nothing is left in the palette.
LEMMA TypingKeeps ==
  ASSUME TInv, mode \in {"Chat", "Scroll"}, Ui!TypingKey PROVE TInv'
<1>0. /\ tab \in 1..4 /\ options \subseteq Ui!Options /\ offset \in 0..Top /\ 0 \in 0..Top
      /\ commandInput = <<>> /\ Prompt(input) /\ Chatting(chat) /\ shouldQuit \in BOOLEAN
  BY Offsets, Zenon DEF TInv
<1>a. \A S : Typed(<<>>, S)
  BY NothingTyped
<1>b. Prompt(<<>>) /\ Chatting(<<>>)
  BY <1>a DEF Prompt, Chatting, TInv, Ui!TerminalAssumption
<1>1. CASE Ui!Submit
  <2>1. input # <<>> /\ input' = <<>> /\ input[1] # "/"
    <3>1. input # <<>> /\ input' = <<>>
      BY <1>1, Zenon DEF Ui!Submit
    <3> QED
      BY <1>0, <3>1 DEF Prompt
  <2>2. /\ chat' = Ui!Added(<<"user", "assistant">>) /\ offset' = 0 /\ mode' = "Chat"
        /\ tab' = tab /\ options' = options /\ commandInput' = commandInput
        /\ shouldQuit' = shouldQuit
    BY <1>1, <2>1, Zenon DEF Ui!Submit
  <2>3. Chatting(chat')
    BY <2>2, AddedChat
  <2>4. mode' \in Modes /\ mode' # "Scroll"
    BY <2>2 DEF Modes
  <2> QED
    BY <1>0, <1>a, <1>b, <2>1, <2>2, <2>3, <2>4, TKeeps, Zenon
<1>2. CASE /\ mode' = "Chat"
           /\ UNCHANGED <<tab, options, offset, commandInput, input, chat, shouldQuit>>
  <2>1. mode' \in Modes /\ mode' # "Scroll"
    BY <1>2 DEF Modes
  <2> QED
    BY <1>0, <1>2, <1>a, <2>1, TKeeps, Zenon
<1>3. ASSUME NEW c \in Ui!Characters, Ui!Type(c),
             UNCHANGED <<tab, options, offset, chat, shouldQuit>>
      PROVE  TInv'
  <2>1. /\ mode' \in {"Chat", "CommandPalette", "Help"}
        /\ commandInput' = <<>>
    BY <1>0, <1>3, Zenon DEF Ui!Type
  <2>2. Prompt(input')
    <3>1. CASE UNCHANGED input
      BY <1>0, <3>1
    <3>2. CASE /\ c \notin {"/", "?"} \/ input # <<>>
               /\ Len(input) < MaxTyped /\ input' = Append(input, c)
      <4>1. MaxTyped \in Nat /\ Typed(input, Ui!Characters)
        BY <1>0 DEF TInv, Ui!TerminalAssumption, Prompt
      <4>2. /\ Typed(input', Ui!Characters) /\ input' # <<>>
            /\ input'[1] = IF input = <<>> THEN c ELSE input[1]
        BY <3>2, <4>1, TextGrows, Zenon
      <4> QED
        BY <1>0, <3>2, <4>2 DEF Prompt
    <3> QED
      BY <1>3, <3>1, <3>2, Zenon DEF Ui!Type
  <2>3. mode' \in Modes /\ mode' # "Scroll"
    BY <2>1 DEF Modes
  <2> QED
    BY <1>0, <1>3, <1>a, <2>1, <2>2, <2>3, TKeeps, Zenon
<1>4. ASSUME NEW c \in {"b", "l"}, Ui!ControlKey(c), mode' = "Chat",
             UNCHANGED <<tab, commandInput, input, shouldQuit>>
      PROVE  TInv'
  <2>1. /\ offset' \in {offset, 0} /\ chat' \in {chat, <<>>}
        /\ options' \in {options, (options \cup {"sidebar"}) \ (options \cap {"sidebar"})}
    BY <1>4, Zenon DEF Ui!ControlKey, Ui!Toggle
  <2>2. options' \subseteq Ui!Options
    BY <1>0, <2>1 DEF Ui!Options
  <2>3. offset' \in 0..Top /\ Chatting(chat')
    BY <1>0, <1>b, <2>1, Zenon
  <2>4. mode' \in Modes /\ mode' # "Scroll"
    BY <1>4 DEF Modes
  <2> QED
    BY <1>0, <1>4, <1>a, <2>2, <2>3, <2>4, TKeeps, Zenon
<1> QED
  BY <1>1, <1>2, <1>3, <1>4, Zenon DEF Ui!TypingKey

LEMMA ChatKeyKeeps == ASSUME TInv, Ui!ChatKey PROVE TInv'
<1>0. mode = "Chat" /\ commandInput = <<>> /\ "Chat" \in Modes /\ "Scroll" \in Modes
  BY DEF TInv, Ui!ChatKey, Modes
<1>1. CASE Ui!TypingKey
  BY <1>0, <1>1, TypingKeeps
<1>2. CASE /\ input # <<>> /\ input' = Ui!Front(input)
           /\ UNCHANGED <<mode, tab, options, offset, commandInput, chat, shouldQuit>>
  <2>1. Prompt(input) /\ MaxTyped \in Nat
    BY Zenon DEF TInv, Ui!TerminalAssumption
  <2>2. Typed(input', Ui!Characters) /\ (input' # <<>> => input'[1] = input[1])
    BY <1>2, <2>1, TextGrows, Zenon DEF Prompt
  <2>3. Prompt(input')
    BY <1>2, <2>1, <2>2 DEF Prompt
  <2> QED
    BY <1>2, <2>3, TKeeps, Zenon DEF TInv
<1>3. CASE Ui!Scrolls(Ui!Up(offset), "Scroll")
  BY <1>0, <1>3, Offsets, Scrolled, Zenon
<1>4. CASE \/ Ui!Scrolls(Ui!Down(offset), "Chat")
           \/ Ui!Scrolls(Top, "Chat") \/ Ui!Scrolls(0, "Chat")
  <2>1. "Chat" # "Scroll"
    OBVIOUS
  <2> QED
    BY <1>0, <1>4, <2>1, Offsets, Scrolled, Zenon
<1>5. CASE /\ tab' \in {(tab % Len(Ui!Tabs)) + 1, ((tab + Len(Ui!Tabs) - 2) % Len(Ui!Tabs)) + 1}
           /\ UNCHANGED <<mode, options, offset, commandInput, input, chat, shouldQuit>>
  <2>1. Len(Ui!Tabs) = 4
    BY DEF Ui!Tabs
  <2>2. tab' \in 1..4
    BY <1>5, <2>1 DEF TInv
  <2> QED
    BY <1>5, <2>2, TKeeps, Zenon DEF TInv
<1> QED
  BY <1>1, <1>2, <1>3, <1>4, <1>5, Zenon DEF Ui!ChatKey

LEMMA ScrollKeyKeeps == ASSUME TInv, Ui!ScrollKey PROVE TInv'
<1>0. mode = "Scroll" /\ commandInput = <<>> /\ "Chat" \in Modes /\ "Scroll" \in Modes
  BY DEF TInv, Ui!ScrollKey, Modes
<1>a. "Chat" # "Scroll"
  OBVIOUS
<1>1. CASE Ui!TypingKey
  BY <1>0, <1>1, TypingKeeps
<1>2. CASE Ui!Scrolls(Ui!Up(offset), "Scroll") \/ Ui!Scrolls(Top, "Scroll")
  BY <1>0, <1>2, Offsets, Scrolled, Zenon
<1>3. CASE Ui!Scrolls(0, "Chat")
  BY <1>0, <1>3, <1>a, Offsets, Scrolled, Zenon
<1>4. CASE Ui!Scrolls(Ui!Down(offset), IF Ui!Down(offset) = 0 THEN "Chat" ELSE "Scroll")
  <2>1. CASE Ui!Down(offset) = 0
    <3>1. Ui!Scrolls(Ui!Down(offset), "Chat")
      BY <1>4, <2>1, Zenon
    <3> QED
      BY <1>0, <1>a, <3>1, Offsets, Scrolled, Zenon
  <2>2. CASE Ui!Down(offset) # 0
    <3>1. Ui!Scrolls(Ui!Down(offset), "Scroll")
      BY <1>4, <2>2, Zenon
    <3> QED
      BY <1>0, <2>2, <3>1, Offsets, Scrolled, Zenon
  <2> QED
    BY <2>1, <2>2
<1> QED
  BY <1>1, <1>2, <1>3, <1>4, Zenon DEF Ui!ScrollKey

LEMMA CommandKeyKeeps == ASSUME TInv, Ui!CommandKey PROVE TInv'
<1>0. /\ mode = "CommandPalette" /\ tab' = tab /\ input' = input
      /\ tab \in 1..4 /\ Prompt(input) /\ \A S : Typed(<<>>, S)
  BY NothingTyped, Zenon DEF TInv, Ui!CommandKey
<1>1. CASE /\ mode' = "Chat" /\ commandInput' = <<>>
           /\ UNCHANGED <<options, offset, chat, shouldQuit>>
  <2>1. mode' \in Modes /\ mode' # "Scroll"
    BY <1>1 DEF Modes
  <2> QED
    BY <1>0, <1>1, <2>1, TKeeps, Zenon DEF TInv
<1>2. ASSUME NEW word, Ui!execute_command(word), commandInput' = <<>> PROVE TInv'
  <2>1. /\ mode' \in {"Chat", "Help"} /\ offset' \in 0..Top /\ options' \subseteq Ui!Options
        /\ Chatting(chat') /\ shouldQuit' \in BOOLEAN
    BY <1>2, Commanded
  <2>2. mode' \in Modes /\ mode' # "Scroll"
    BY <2>1 DEF Modes
  <2> QED
    BY <1>0, <1>2, <2>1, <2>2, TKeeps, Zenon
<1>3. CASE /\ \/ commandInput # <<>> /\ commandInput' = Ui!Front(commandInput)
              \/ \E c \in Words : Len(commandInput) < MaxTyped /\ commandInput' = Append(commandInput, c)
           /\ UNCHANGED <<mode, options, offset, chat, shouldQuit>>
  <2>1. Typed(commandInput, Words) /\ MaxTyped \in Nat
    BY Zenon DEF TInv, Ui!TerminalAssumption
  <2>2. Typed(commandInput', Words)
    BY <1>3, <2>1, TextGrows, Zenon
  <2> QED
    BY <1>0, <1>3, <2>2, TKeeps, Zenon DEF TInv
<1> QED
  BY <1>1, <1>2, <1>3, Zenon DEF Ui!CommandKey

LEMMA TInvNext == TInv /\ [Ui!TerminalNext]_(Ui!uiVars) => TInv'
<1> SUFFICES ASSUME TInv, [Ui!TerminalNext]_(Ui!uiVars) PROVE TInv'
  OBVIOUS
<1>1. CASE Ui!HelpKey
  <2>1. mode' = "Chat" /\ mode' \in Modes /\ commandInput = <<>> /\ mode' # "Scroll"
    BY <1>1 DEF Ui!HelpKey, Modes, TInv
  <2> QED
    BY <1>1, <2>1, TKeeps, Zenon DEF Ui!HelpKey, TInv
<1>2. CASE Ui!handle_mouse_event
  <2>1. CASE Ui!Scrolls(Ui!Up(offset), IF mode = "Chat" THEN "Scroll" ELSE mode)
    <3> DEFINE there == IF mode = "Chat" THEN "Scroll" ELSE mode
    <3>1. there \in Modes /\ (commandInput # <<>> => there = "CommandPalette")
      BY DEF TInv, Modes
    <3> HIDE DEF there
    <3> QED
      BY <2>1, <3>1, Offsets, Scrolled, Zenon DEF there
  <2>2. CASE Ui!Scrolls(Ui!Down(offset), IF Ui!Down(offset) = 0 /\ mode = "Scroll" THEN "Chat" ELSE mode)
    <3> DEFINE there == IF Ui!Down(offset) = 0 /\ mode = "Scroll" THEN "Chat" ELSE mode
    <3>1. there \in Modes /\ (commandInput # <<>> => there = "CommandPalette")
          /\ (there = "Scroll" => Ui!Down(offset) > 0)
      BY Offsets DEF TInv, Modes
    <3>2. Ui!Scrolls(Ui!Down(offset), there)
      BY <2>2, Zenon
    <3> HIDE DEF there
    <3> QED
      BY <3>1, <3>2, Offsets, Scrolled, Zenon
  <2> QED
    BY <1>2, <2>1, <2>2, Zenon DEF Ui!handle_mouse_event
<1>3. CASE Ui!Interrupt
  <2>1. shouldQuit' \in BOOLEAN
    BY <1>3, Zenon DEF Ui!Interrupt
  <2> QED
    BY <1>3, <2>1, TKeeps, Zenon DEF Ui!Interrupt, TInv
<1>4. CASE UNCHANGED Ui!uiVars
  BY <1>4, TKeeps, Zenon DEF Ui!uiVars, TInv
<1> QED
  BY <1>1, <1>2, <1>3, <1>4, ChatKeyKeeps, ScrollKeyKeeps, CommandKeyKeeps, Zenon
     DEF Ui!TerminalNext

LEMMA TInvInit == Ui!TerminalAssumption /\ Ui!TerminalInit => TInv
<1> SUFFICES ASSUME Ui!TerminalAssumption, Ui!TerminalInit PROVE TInv
  OBVIOUS
<1>1. Typed(<<>>, Words) /\ Prompt(<<>>) /\ Chatting(<<>>)
  BY DEF Typed, Prompt, Chatting, Ui!TerminalAssumption
<1>2. shouldQuit \in BOOLEAN
  BY Zenon DEF Ui!TerminalInit
<1>3. options \subseteq Ui!Options /\ offset \in 0..Top /\ tab \in 1..4 /\ mode \in Modes /\ mode # "Scroll"
  BY DEF Ui!TerminalInit, Ui!Options, Modes, Ui!TerminalAssumption
<1> QED
  BY <1>1, <1>2, <1>3, Zenon DEF TInv, Ui!TerminalInit

LEMMA TerminalAlwaysSound ==
  Ui!TerminalAssumption => (Ui!TerminalSpec => []Ui!TerminalSound)
  BY TInvInit, TInvIsSound, TInvNext, PTL DEF Ui!TerminalSpec

-----------------------------------------------------------------------------
(***************************************************************************)
(* The swarm.  Outputs stand in the order of their agents, and once there  *)
(* is a consensus, no agent is asked any more.                             *)
(***************************************************************************)
SwInv ==
  /\ strategy \in Swarm!Strategies /\ asked \in 0..AgentCount
  /\ outputs \in Seq(Swarm!Output)
  /\ \A i \in DOMAIN outputs : outputs[i].agent <= asked
  /\ \A i, j \in DOMAIN outputs : i < j => outputs[i].agent < outputs[j].agent
  /\ consensus # {} => ~Swarm!Asking
  /\ Swarm!SwarmSound

With(c) == {i \in DOMAIN outputs : outputs[i].content = c}

LEMMA VotesCounted ==
  ASSUME outputs \in Seq(Swarm!Output)
  PROVE  \A c : /\ With(c) \in SUBSET (1..Len(outputs)) /\ IsFiniteSet(With(c))
                /\ Swarm!Votes(c) = Cardinality(With(c)) /\ Swarm!Votes(c) \in Nat
<1>1. Len(outputs) \in Nat /\ DOMAIN outputs = 1..Len(outputs)
  OBVIOUS
<1>2. IsFiniteSet(1..Len(outputs))
  BY <1>1, FS_Interval
<1>3. \A c : With(c) \in SUBSET (1..Len(outputs))
  BY <1>1 DEF With
<1>4. \A c : IsFiniteSet(With(c)) /\ Cardinality(With(c)) \in Nat
  BY <1>2, <1>3, FS_Subset, FS_CardinalityType
<1>5. \A c : Swarm!Votes(c) = Cardinality(With(c))
  BY Zenon DEF Swarm!Votes, Swarm!Cardinality, Cardinality, With
<1> QED
  BY <1>3, <1>4, <1>5

LEMMA OutputsScored ==
  ASSUME Swarm!SwarmAssumption, outputs \in Seq(Swarm!Output)
  PROVE  /\ Len(outputs) \in Nat /\ DOMAIN outputs = 1..Len(outputs)
         /\ \A j \in 1..Len(outputs) : outputs[j].agent \in Int /\ outputs[j].score \in Int
<1>1. ASSUME NEW o \in Swarm!Output PROVE o.agent \in Int /\ o.score \in Int
  <2>1. o.agent \in 1..AgentCount /\ o.score \in Scores
    BY DEF Swarm!Output
  <2>2. AgentCount \in Nat /\ Scores \subseteq Int
    BY Zenon DEF Swarm!SwarmAssumption
  <2>3. o.score \in Int
    BY <2>1, <2>2, Zenon
  <2>4. o.agent \in Int
    <3> DEFINE a == o.agent
    <3>1. a \in 1..AgentCount
      BY <2>1, Zenon
    <3> HIDE DEF a
    <3>2. a \in Int
      BY <3>1, <2>2
    <3> QED
      BY <3>2, Zenon DEF a
  <2> QED
    BY <2>3, <2>4, Zenon
<1>2. Len(outputs) \in Nat /\ DOMAIN outputs = 1..Len(outputs)
  OBVIOUS
<1>3. \A j \in 1..Len(outputs) : outputs[j] \in Swarm!Output
  OBVIOUS
<1> QED
  BY <1>1, <1>2, <1>3

\* What strategies choose among.
Stands(o) ==
  \A i \in DOMAIN outputs :
    /\ strategy = "BestScore" => outputs[i].score <= o.score
    /\ strategy = "Majority" => Swarm!Votes(outputs[i].content) <= Swarm!Votes(o.content)
    /\ strategy # "BestScore" /\ outputs[i].content = o.content => o.agent <= outputs[i].agent

LEMMA ChosenStands ==
  ASSUME Swarm!SwarmAssumption, SwInv, outputs # <<>>, NEW i \in Swarm!select_consensus
  PROVE  i \in DOMAIN outputs /\ Stands(outputs[i])
<1> DEFINE n == Len(outputs)
<1>1. /\ n \in Nat /\ n > 0 /\ DOMAIN outputs = 1..n /\ outputs \in Seq(Swarm!Output)
      /\ \A j \in 1..n : outputs[j].agent \in Int /\ outputs[j].score \in Int
  <2>1. outputs \in Seq(Swarm!Output)
    BY DEF SwInv
  <2>2. n > 0
    BY <2>1
  <2> QED
    BY <2>1, <2>2, OutputsScored
<1>2. ASSUME NEW j \in 1..n, NEW k \in 1..n, j <= k PROVE outputs[j].agent <= outputs[k].agent
  <2>1. CASE j = k
    BY <1>1, <2>1
  <2>2. CASE j < k
    <3>1. outputs[j].agent < outputs[k].agent
      BY <1>1, <2>2 DEF SwInv
    <3> QED
      BY <1>1, <3>1
  <2> QED
    BY <1>2, <2>1, <2>2
<1>3. CASE strategy = "FirstComplete"
  <2>1. i = 1
    BY <1>3 DEF Swarm!select_consensus
  <2>2. 1 \in 1..n /\ \A j \in 1..n : 1 <= j
    BY <1>1
  <2> QED
    BY <1>1, <1>2, <1>3, <2>1, <2>2 DEF Stands
<1>4. CASE strategy = "BestScore"
  <2> DEFINE B == {j \in DOMAIN outputs : \A k \in DOMAIN outputs : outputs[k].score <= outputs[j].score}
             f == [j \in 1..n |-> outputs[j].score]
  <2>1. f \in [1..n -> Int]
    BY <1>1
  <2>2. B # {}
    <3>1. \E j \in 1..n : \A k \in 1..n : f[k] <= f[j]
      <4> HIDE DEF f
      <4> QED
        BY <1>1, <2>1, GreatestOf
    <3> QED
      BY <1>1, <3>1
  <2>3. B \in SUBSET (1..n)
    BY <1>1
  <2>4. i = Max(B)
    <3>1. i = Swarm!Best
      BY <1>4 DEF Swarm!select_consensus
    <3> QED
      BY <3>1, Zenon DEF Swarm!Best, Swarm!Max, Max
  <2>5. i \in B
    <3> HIDE DEF B
    <3> QED
      BY <1>1, <2>2, <2>3, <2>4, LastOfSet
  <2> QED
    BY <1>4, <2>5 DEF Stands
<1>5. CASE strategy = "Majority"
  <2>1. PICK j \in DOMAIN outputs :
          /\ \A k \in DOMAIN outputs : Swarm!Votes(outputs[k].content) <= Swarm!Votes(outputs[j].content)
          /\ i = Swarm!Representative(outputs[j].content)
    BY <1>5 DEF Swarm!select_consensus
  <2> DEFINE c == outputs[j].content
  <2>2. With(c) \in SUBSET (1..n) /\ With(c) # {}
    BY <1>1, <2>1 DEF With
  <2>3. i = Min(With(c))
    BY <2>1, Zenon DEF Swarm!Representative, Swarm!Min, Min, With
  <2>4. i \in With(c) /\ \A k \in With(c) : i <= k
    <3> HIDE DEF c
    <3> QED
      BY <1>1, <2>2, <2>3, FirstOfSet
  <2>5. i \in 1..n /\ outputs[i].content = c
    BY <1>1, <2>4 DEF With
  <2>6. ASSUME NEW k \in 1..n, outputs[k].content = outputs[i].content
        PROVE  outputs[i].agent <= outputs[k].agent
    <3>1. k \in With(c)
      BY <1>1, <2>5, <2>6 DEF With
    <3> QED
      BY <1>2, <2>4, <2>5, <3>1
  <2>7. \A k \in 1..n : Swarm!Votes(outputs[k].content) <= Swarm!Votes(outputs[i].content)
    BY <1>1, <2>1, <2>5
  <2> HIDE DEF n
  <2> QED
    BY <1>1, <1>5, <2>5, <2>6, <2>7 DEF Stands
<1> QED
  BY <1>3, <1>4, <1>5 DEF SwInv, Swarm!Strategies

\* Two contents of which one has a majority and the other no fewer votes are one.
LEMMA MajorityStands ==
  ASSUME outputs \in Seq(Swarm!Output), NEW c, NEW d,
         2 * Swarm!Votes(c) > Len(outputs), Swarm!Votes(c) <= Swarm!Votes(d)
  PROVE  c = d
<1> DEFINE U == 1..Len(outputs)
<1>1. Len(outputs) \in Nat /\ IsFiniteSet(U) /\ Cardinality(U) = Len(outputs)
  <2>1. Len(outputs) \in Nat
    OBVIOUS
  <2>2. IsFiniteSet(1..Len(outputs))
        /\ Cardinality(1..Len(outputs)) = IF 1 > Len(outputs) THEN 0 ELSE Len(outputs) - 1 + 1
    <3>1. Len(outputs) \in Int /\ 1 \in Int
      BY <2>1
    <3> QED
      BY <3>1, FS_Interval, Zenon
  <2> QED
    BY <2>1, <2>2
<1>2. With(c) \subseteq U /\ With(d) \subseteq U
  BY VotesCounted
<1>3. /\ Swarm!Votes(c) = Cardinality(With(c)) /\ Swarm!Votes(c) \in Nat
      /\ Swarm!Votes(d) = Cardinality(With(d)) /\ Swarm!Votes(d) \in Nat
  BY VotesCounted
<1> HIDE DEF U
<1>4. Cardinality(With(c)) + Cardinality(With(d)) > Cardinality(U)
  BY <1>1, <1>3
<1>5. With(c) \cap With(d) # {}
  BY <1>1, <1>2, <1>4, FS_MajoritiesIntersect
<1> QED
  BY <1>5 DEF With

LEMMA SwInvNext ==
  Swarm!SwarmAssumption /\ SwInv /\ [Swarm!SwarmNext]_(Swarm!swarmVars) => SwInv'
<1> SUFFICES ASSUME Swarm!SwarmAssumption, SwInv, [Swarm!SwarmNext]_(Swarm!swarmVars)
             PROVE  SwInv'
  OBVIOUS
<1>1. CASE Swarm!Answer
  <2>1. /\ asked' = asked + 1 /\ asked < AgentCount /\ consensus = {}
        /\ consensus' = {} /\ strategy' = strategy
    BY <1>1 DEF Swarm!Answer, Swarm!Asking, SwInv
  <2>2. PICK c \in Answers, s \in Scores :
          outputs' = Append(outputs, [agent |-> asked + 1, content |-> c, score |-> s])
    BY <1>1, <2>1 DEF Swarm!Answer
  <2> DEFINE o == [agent |-> asked + 1, content |-> c, score |-> s]
             n == Len(outputs)
  <2>3. asked' \in 0..AgentCount /\ asked + 1 \in 1..AgentCount /\ asked \in Nat
    BY <2>1 DEF SwInv, Swarm!SwarmAssumption
  <2>4. o \in Swarm!Output /\ o.agent = asked + 1
    BY <2>3 DEF Swarm!Output
  <2>5. outputs \in Seq(Swarm!Output)
    BY DEF SwInv
  <2> HIDE DEF o
  <2>6. /\ outputs' \in Seq(Swarm!Output) /\ DOMAIN outputs' = 1..(n + 1) /\ n \in Nat
        /\ DOMAIN outputs = 1..n /\ outputs'[n + 1] = o
        /\ \A i \in 1..n : outputs'[i] = outputs[i] /\ outputs[i].agent \in Int
    <3>1. outputs' = Append(outputs, o)
      BY <2>2 DEF o
    <3>2. \A i \in 1..n : outputs[i].agent \in Int
      BY <2>5, OutputsScored
    <3> QED
      BY <2>4, <2>5, <3>1, <3>2
  <2> HIDE DEF n
  <2>7. \A i \in 1..(n + 1) : i \in 1..n \/ i = n + 1
    BY <2>6
  <2>8. \A i \in DOMAIN outputs' : outputs'[i].agent <= asked'
    BY <2>1, <2>3, <2>4, <2>6, <2>7 DEF SwInv
  <2>9. ASSUME NEW i \in DOMAIN outputs', NEW j \in DOMAIN outputs', i < j
        PROVE  outputs'[i].agent < outputs'[j].agent
    <3>1. i \in 1..n
      BY <2>6, <2>9
    <3>2. CASE j \in 1..n
      BY <2>6, <2>9, <3>1, <3>2 DEF SwInv
    <3>3. CASE j = n + 1
      <4>1. outputs[i].agent <= asked /\ outputs[i].agent \in Int
        BY <2>6, <3>1 DEF SwInv
      <4> QED
        BY <2>3, <2>4, <2>6, <3>1, <3>3, <4>1
    <3> QED
      BY <2>6, <2>7, <2>9, <3>2, <3>3
  <2>10. (Swarm!SwarmSound)'
    BY <2>1 DEF Swarm!SwarmSound, Swarm!ConsensusStands, Swarm!MajorityWins
  <2>11. strategy' \in Swarm!Strategies
    BY <2>1 DEF SwInv
  <2> QED
    BY <2>1, <2>3, <2>6, <2>8, <2>9, <2>10, <2>11 DEF SwInv
<1>2. CASE Swarm!FailOrTimeOut
  <2>1. /\ asked' = asked + 1 /\ asked < AgentCount /\ consensus = {}
        /\ consensus' = {} /\ strategy' = strategy /\ outputs' = outputs
    BY <1>2 DEF Swarm!FailOrTimeOut, Swarm!Asking, SwInv
  <2>2. asked' \in 0..AgentCount /\ asked \in Nat
    BY <2>1 DEF SwInv, Swarm!SwarmAssumption
  <2>3. \A i \in DOMAIN outputs : outputs[i].agent \in Int
    BY OutputsScored DEF SwInv
  <2>4. \A i \in DOMAIN outputs' : outputs'[i].agent <= asked'
    BY <2>1, <2>2, <2>3 DEF SwInv
  <2>5. (Swarm!SwarmSound)'
    BY <2>1 DEF Swarm!SwarmSound, Swarm!ConsensusStands, Swarm!MajorityWins
  <2> QED
    BY <2>1, <2>2, <2>4, <2>5 DEF SwInv
<1>3. CASE Swarm!Decide
  <2>1. /\ ~Swarm!Asking /\ outputs # <<>>
        /\ strategy' = strategy /\ asked' = asked /\ outputs' = outputs
    BY <1>3 DEF Swarm!Decide
  <2>2. PICK i \in Swarm!select_consensus : consensus' = {outputs[i]}
    BY <1>3 DEF Swarm!Decide
  <2>3. i \in DOMAIN outputs /\ Stands(outputs[i])
    BY <2>1, ChosenStands
  <2>4. outputs[i] \in Swarm!ToSet(outputs)
    BY <2>3 DEF Swarm!ToSet
  <2>5. ASSUME strategy = "Majority", NEW c \in Answers, 2 * Swarm!Votes(c) > Len(outputs)
        PROVE  outputs[i].content = c
    <3>1. Len(outputs) \in Nat /\ Swarm!Votes(c) \in Nat /\ Swarm!Votes(c) = Cardinality(With(c))
          /\ IsFiniteSet(With(c))
      BY VotesCounted DEF SwInv
    <3>2. With(c) # {}
      BY <2>5, <3>1, FS_EmptySet
    <3>3. PICK k \in DOMAIN outputs : outputs[k].content = c
      BY <3>2 DEF With
    <3>4. Swarm!Votes(c) <= Swarm!Votes(outputs[i].content)
      BY <2>3, <2>5, <3>3 DEF Stands
    <3> QED
      BY <2>5, <3>4, MajorityStands DEF SwInv
  <2>6. (Swarm!ConsensusStands)'
    BY <2>1, <2>2, <2>3, <2>4, Zenon
       DEF Swarm!ConsensusStands, Stands, Swarm!ToSet, Swarm!Votes
  <2>7. (Swarm!MajorityWins)'
    BY <2>1, <2>2, <2>5, Zenon DEF Swarm!MajorityWins, Swarm!Votes
  <2>8. ~(Swarm!Asking)'
    BY <2>1 DEF Swarm!Asking
  <2> QED
    BY <2>1, <2>6, <2>7, <2>8, Zenon DEF SwInv, Swarm!SwarmSound
<1>4. CASE UNCHANGED Swarm!swarmVars
  BY <1>4, ZenonT(30) DEF SwInv, Swarm!swarmVars, Swarm!SwarmSound, Swarm!ConsensusStands,
     Swarm!MajorityWins, Swarm!Asking, Swarm!ToSet, Swarm!Votes
<1> QED
  BY <1>1, <1>2, <1>3, <1>4 DEF Swarm!SwarmNext

\* What the user and an agent are shown is sound for any number of agents, answers
\* and scores, and for any sequence of keys, clicks and commands: nothing stands
\* against the consensus of a swarm, and the modes and the messages of the terminal
\* agree (agents/swarm.rs, tui/app.rs).
THEOREM ShownAlwaysSound ==
  ASSUME Swarm!SwarmAssumption, Ui!TerminalAssumption
  PROVE  Swarm!SwarmSpec /\ Ui!TerminalSpec => []ShownIsSound
<1>1. Swarm!SwarmInit => SwInv
  BY DEF Swarm!SwarmInit, SwInv, Swarm!SwarmSound, Swarm!ConsensusStands,
         Swarm!MajorityWins, Swarm!SwarmAssumption
<1>2. SwInv => Swarm!SwarmSound
  BY DEF SwInv
<1> QED
  BY <1>1, <1>2, SwInvNext, TerminalAlwaysSound, PTL DEF Swarm!SwarmSpec, ShownIsSound

-----------------------------------------------------------------------------
(***************************************************************************)
(* The two stores of conversations.  What a session has said is what a     *)
(* loop over the common list collects.                                     *)
(***************************************************************************)
Entry == [session : Ids, content : Contents]

SaidAt(q, s) == {i \in DOMAIN q : q[i].session = s}
SaidBy(q, s) == KeptAt(q, SaidAt(q, s))

LEMMA SaidNext ==
  ASSUME NEW q \in Seq(Entry), NEW e \in Entry, NEW s
  PROVE  SaidBy(Append(q, e), s) =
           IF e.session = s THEN Append(SaidBy(q, s), e) ELSE SaidBy(q, s)
<1> DEFINE r == Append(q, e)
           n == Len(q)
           K == SaidAt(r, s)
<1>1. n \in Nat /\ DOMAIN q = 1..n /\ DOMAIN r = 1..(n + 1) /\ r[n + 1] = e
      /\ \A i \in 1..n : r[i] = q[i]
  OBVIOUS
<1>2. \A i \in 1..n : i \in K <=> i \in SaidAt(q, s)
  <2> HIDE DEF r, n
  <2> QED
    BY <1>1 DEF SaidAt
<1>3. n + 1 \in K <=> e.session = s
  <2> HIDE DEF r, n
  <2> QED
    BY <1>1 DEF SaidAt
<1> HIDE DEF K
<1>4. KeptAt(q, K) = SaidBy(q, s)
  <2>1. Len(q) \in Nat /\ \A i \in 1..Len(q) : i \in K <=> i \in SaidAt(q, s)
    BY <1>1, <1>2
  <2> QED
    BY <2>1, KeptSame DEF SaidBy
<1>5. KeptAt(r, K) = IF n + 1 \in K THEN Append(KeptAt(q, K), e) ELSE KeptAt(q, K)
  BY KeptAppend
<1> HIDE DEF r, n
<1>6. KeptAt(r, K) = IF e.session = s THEN Append(SaidBy(q, s), e) ELSE SaidBy(q, s)
  BY <1>3, <1>4, <1>5
<1> QED
  BY <1>6 DEF r, K, SaidBy

LEMMA NothingSaid == \A s : SaidBy(<<>>, s) = <<>>
<1> SUFFICES ASSUME NEW s PROVE SaidBy(<<>>, s) = <<>>
  OBVIOUS
<1>1. Len(<<>>) = 0 /\ \A i \in 1..Len(<<>>) : i \notin SaidAt(<<>>, s)
  OBVIOUS
<1> QED
  BY <1>1, KeptNothing DEF SaidBy

\* What a session has said of a part of the list is a part of what it has said.
LEMMA SaidOfPart ==
  ASSUME NEW q \in Seq(Entry), NEW K, NEW s
  PROVE  SaidBy(KeptAt(q, K), s) = KeptAt(q, K \cap SaidAt(q, s))
<1> DEFINE L == K \cap SaidAt(q, s)
           t == PartOf(q, K)
           u == PartOf(q, L)
           A == {n \in Nat : n <= Len(q) => t[n] \in Seq(Entry) /\ SaidBy(t[n], s) = u[n]}
<1>1. \A n \in 0..Len(q) : t[n] = IF n = 0 THEN <<>>
                           ELSE IF n \in K THEN Append(t[n - 1], q[n]) ELSE t[n - 1]
  BY PartStep
<1>2. \A n \in 0..Len(q) : u[n] = IF n = 0 THEN <<>>
                           ELSE IF n \in L THEN Append(u[n - 1], q[n]) ELSE u[n - 1]
  BY PartStep
<1>3. KeptAt(q, K) = t[Len(q)] /\ KeptAt(q, L) = u[Len(q)]
  BY KeptAtIsPart
<1>4. \A n \in 1..Len(q) : n \in L <=> n \in K /\ q[n].session = s
  BY DEF SaidAt
<1> HIDE DEF t, u, L
<1>5. 0 \in A
  <2>1. t[0] = <<>> /\ u[0] = <<>> /\ <<>> \in Seq(Entry)
    BY <1>1, <1>2
  <2>2. SaidBy(<<>>, s) = <<>>
    BY NothingSaid
  <2> QED
    BY <2>1, <2>2
<1>6. ASSUME NEW n \in Nat, n \in A PROVE n + 1 \in A
  <2> SUFFICES ASSUME n + 1 <= Len(q)
               PROVE  t[n + 1] \in Seq(Entry) /\ SaidBy(t[n + 1], s) = u[n + 1]
    OBVIOUS
  <2> DEFINE x == q[n + 1]
             a == t[n]
  <2>1. a \in Seq(Entry) /\ SaidBy(a, s) = u[n] /\ x \in Entry
    BY <1>6
  <2>2. n + 1 \in 0..Len(q) /\ n + 1 \in 1..Len(q) /\ n + 1 # 0 /\ (n + 1) - 1 = n
    OBVIOUS
  <2> HIDE DEF A
  <2>3. t[n + 1] = IF n + 1 \in K THEN Append(a, x) ELSE a
    BY <1>1, <2>2
  <2>4. u[n + 1] = IF n + 1 \in K /\ x.session = s THEN Append(u[n], x) ELSE u[n]
    BY <1>2, <1>4, <2>2
  <2> HIDE DEF a, x
  <2>5. /\ Append(a, x) \in Seq(Entry)
        /\ SaidBy(Append(a, x), s) = IF x.session = s THEN Append(SaidBy(a, s), x) ELSE SaidBy(a, s)
    BY <2>1, SaidNext, TailOfAppend
  <2> QED
    BY <2>1, <2>3, <2>4, <2>5, Zenon
<1>7. Nat \subseteq A
  <2> HIDE DEF A
  <2> QED
    BY <1>5, <1>6, EveryNat
<1>8. SaidBy(t[Len(q)], s) = u[Len(q)]
  <2>1. Len(q) \in Nat /\ Len(q) <= Len(q)
    OBVIOUS
  <2> QED
    BY <1>7, <2>1
<1> QED
  BY <1>3, <1>8 DEF L

\* At most as many are kept as the limit says, and one where it says none.
Bound == IF Limit = 0 THEN 1 ELSE Limit

MemInv == entries \in Seq(Entry) /\ \A s \in Ids : Len(SaidBy(entries, s)) <= Bound

Said == [s \in Ids |-> SaidBy(entries, s)]

LEMMA HistoryIsSaid == \A s : Mem!SessionHistory(s) = SaidBy(entries, s) /\ Mem!Of(s) = SaidAt(entries, s)
  BY DEF Mem!SessionHistory, Mem!KeepAt, Mem!Of, SaidBy, SaidAt, KeptAt

LEMMA SaidIsSaid ==
  /\ [s \in Ids |-> Mem!SessionHistory(s)] = Said
  /\ [s \in Ids |-> Mem!SessionHistory(s)]' = Said'
<1>1. \A s : (Mem!SessionHistory(s))' = SaidBy(entries', s)
  BY DEF Mem!SessionHistory, Mem!KeepAt, Mem!Of, SaidBy, SaidAt, KeptAt
<1> QED
  BY <1>1, HistoryIsSaid DEF Said

LEMMA SaidTyped ==
  ASSUME NEW q \in Seq(Entry), NEW s
  PROVE  /\ SaidBy(q, s) \in Seq(Entry) /\ IsFiniteSet(SaidAt(q, s))
         /\ Len(SaidBy(q, s)) = Cardinality(SaidAt(q, s)) /\ Len(SaidBy(q, s)) \in Nat
<1>1. SaidAt(q, s) \cap DOMAIN q = SaidAt(q, s)
  BY DEF SaidAt
<1>2. SaidBy(q, s) \in Seq(Entry)
  BY KeptAtSeq DEF SaidBy
<1>3. IsFiniteSet(SaidAt(q, s)) /\ Len(SaidBy(q, s)) = Cardinality(SaidAt(q, s))
  BY <1>1, KeptCount DEF SaidBy
<1> QED
  BY <1>2, <1>3

\* After an eviction for a session at its limit its oldest entry is gone, and the
\* others have said what they said.
LEMMA EvictedSaid ==
  ASSUME entries \in Seq(Entry), NEW s \in Ids
  PROVE  LET full == Len(SaidBy(entries, s)) >= Limit /\ SaidBy(entries, s) # <<>> IN
         /\ Mem!Evicted(s) \in Seq(Entry)
         /\ \A r \in Ids : SaidBy(Mem!Evicted(s), r) =
              IF r = s /\ full THEN Tail(SaidBy(entries, s)) ELSE SaidBy(entries, r)
<1> DEFINE w == SaidBy(entries, s)
           full == Len(w) >= Limit /\ w # <<>>
           v == Mem!Evicted(s)
           S == SaidAt(entries, s)
           n == Len(entries)
           p == Mem!FirstIn(S)
           K == DOMAIN entries \ {p}
<1>1. n \in Nat /\ DOMAIN entries = 1..n
  OBVIOUS
<1>2. w \in Seq(Entry) /\ IsFiniteSet(S) /\ Len(w) = Cardinality(S) /\ Len(w) \in Nat
  BY SaidTyped
<1>3. S # {} <=> w # <<>>
  <2>1. S = {} <=> Cardinality(S) = 0
    BY <1>2, FS_EmptySet
  <2>2. w = <<>> <=> Len(w) = 0
    BY <1>2, EmptySeq
  <2> QED
    BY <1>2, <2>1, <2>2
<1>4. v = IF full THEN KeptAt(entries, K) ELSE entries
  <2>1. Mem!Cardinality(S) = Cardinality(S)
    BY Zenon DEF Mem!Cardinality, Cardinality
  <2>2. Mem!KeepAt(K) = KeptAt(entries, K)
    BY DEF Mem!KeepAt, KeptAt
  <2>3. Mem!Of(s) = S
    BY HistoryIsSaid
  <2>4. v = IF Mem!Cardinality(Mem!Of(s)) >= Limit /\ Mem!Of(s) # {}
            THEN Mem!KeepAt(DOMAIN entries \ {Mem!FirstIn(Mem!Of(s))}) ELSE entries
    BY Zenon DEF Mem!Evicted
  <2>5. v = IF Cardinality(S) >= Limit /\ S # {} THEN KeptAt(entries, K) ELSE entries
    BY <2>1, <2>2, <2>3, <2>4, Zenon
  <2> HIDE DEF w, v, S, K
  <2> QED
    BY <1>2, <1>3, <2>5
<1> HIDE DEF full, v
<1>5. CASE ~full
  BY <1>4, <1>5 DEF full, v
<1>6. CASE full
  <2>1. v = KeptAt(entries, K) /\ v \in Seq(Entry)
    BY <1>4, <1>6, KeptAtSeq
  <2>2. p \in S /\ \A i \in S : p <= i
    <3>1. S # {} /\ S \subseteq 1..n
      BY <1>1, <1>3, <1>6 DEF full, SaidAt
    <3> HIDE DEF S
    <3>2. \E i \in S : \A j \in S : i <= j
      BY <1>1, <3>1, FirstOfSet
    <3> QED
      BY <3>2 DEF Mem!FirstIn
  <2> HIDE DEF p
  <2>3. \A r \in Ids : SaidBy(v, r) = KeptAt(entries, K \cap SaidAt(entries, r))
    BY <2>1, SaidOfPart
  <2>4. ASSUME NEW r \in Ids, r # s PROVE SaidBy(v, r) = SaidBy(entries, r)
    <3>1. \A i \in 1..Len(entries) : i \in K \cap SaidAt(entries, r) <=> i \in SaidAt(entries, r)
      BY <1>1, <2>2, <2>4 DEF SaidAt
    <3>2. Len(entries) \in Nat
      OBVIOUS
    <3> HIDE DEF K
    <3>3. KeptAt(entries, K \cap SaidAt(entries, r)) = KeptAt(entries, SaidAt(entries, r))
      BY <3>1, <3>2, KeptSame
    <3> QED
      BY <2>3, <3>3 DEF SaidBy
  <2>5. SaidBy(v, s) = Tail(w)
    <3>1. K \cap S = S \ {p} /\ p \in S \cap 1..Len(entries)
      BY <1>1, <2>2 DEF SaidAt
    <3> HIDE DEF K, S
    <3>2. KeptAt(entries, S \ {p}) = Tail(KeptAt(entries, S))
      BY <2>2, <3>1, KeptWithoutFirst
    <3>3. SaidBy(v, s) = KeptAt(entries, K \cap S)
      BY <2>3 DEF S
    <3>4. w = KeptAt(entries, S)
      BY DEF S, SaidBy
    <3> HIDE DEF w
    <3> QED
      BY <3>1, <3>2, <3>3, <3>4
  <2> QED
    BY <1>6, <2>1, <2>4, <2>5 DEF full, v
<1> QED
  BY <1>5, <1>6

LEMMA LastSaid ==
  ASSUME NEW T, NEW w \in Seq(T), NEW m \in T, NEW b \in Nat
  PROVE  /\ Len(w) < b => Mem!Window!LastOf(Append(w, m), b) = Append(w, m)
         /\ Len(w) = b /\ w # <<>> => Mem!Window!LastOf(Append(w, m), b) = Append(Tail(w), m)
<1> DEFINE c == Append(w, m)
           n == Len(w)
<1>1. c \in Seq(T) /\ Len(c) = n + 1 /\ n \in Nat
  OBVIOUS
<1>2. Tail(c) = SubSeq(c, 2, n + 1)
  <2> HIDE DEF c
  <2> DEFINE d == Tail(c)
             e == SubSeq(c, 2, n + 1)
  <2>1. d \in Seq(T) /\ Len(d) = n /\ \A i \in 1..n : d[i] = c[i + 1]
    BY <1>1
  <2>2. e \in Seq(T) /\ Len(e) = n /\ \A i \in 1..n : e[i] = c[i + 1]
    BY <1>1
  <2> HIDE DEF d, e, n
  <2>3. d = e
    BY <1>1, <2>1, <2>2, SeqEqual
  <2> QED
    BY <2>3 DEF d, e
<1>3. w # <<>> => Tail(c) = Append(Tail(w), m)
  BY TailOfAppend
<1> HIDE DEF c, n
<1>4. n < b => Mem!Window!LastOf(c, b) = c
  BY <1>1 DEF Mem!Window!LastOf
<1>5. n = b => Mem!Window!LastOf(c, b) = SubSeq(c, 2, n + 1)
  <2> SUFFICES ASSUME n = b PROVE Mem!Window!LastOf(c, b) = SubSeq(c, 2, n + 1)
    OBVIOUS
  <2>1. ~(Len(c) <= b) /\ Len(c) - b + 1 = 2
    BY <1>1
  <2> QED
    BY <1>1, <2>1 DEF Mem!Window!LastOf
<1> QED
  BY <1>2, <1>3, <1>4, <1>5 DEF c, n

LEMMA EntryAddedIsSaid ==
  ASSUME Mem!MemoryAssumption, MemInv, NEW s \in Ids, NEW c \in Contents, Mem!AddEntry(s, c)
  PROVE  MemInv' /\ Mem!Window!Say(s, [session |-> s, content |-> c])
<1> DEFINE w == SaidBy(entries, s)
           e == [session |-> s, content |-> c]
           v == Mem!Evicted(s)
           full == Len(w) >= Limit /\ w # <<>>
           kept == IF full THEN Tail(w) ELSE w
           all == Append(kept, e)
<1>1. entries \in Seq(Entry) /\ e \in Entry /\ Limit \in Nat /\ entries' = Append(v, e) /\ Bound \in Nat
  BY DEF MemInv, Entry, Mem!AddEntry, Mem!MemoryAssumption, Bound
<1>2. v \in Seq(Entry) /\ \A r \in Ids : SaidBy(v, r) = IF r = s /\ full THEN Tail(w) ELSE SaidBy(entries, r)
  BY <1>1, EvictedSaid, Zenon
<1>3. e.session = s
  OBVIOUS
<1>4. w \in Seq(Entry) /\ Len(w) \in Nat /\ Len(w) <= Bound
  BY <1>1, SaidTyped DEF MemInv
<1> HIDE DEF w, e, v
<1>5. /\ entries' \in Seq(Entry)
      /\ \A r \in Ids : SaidBy(entries', r) = IF r = s THEN all ELSE SaidBy(entries, r)
  <2>1. Append(v, e) \in Seq(Entry)
    BY <1>1, <1>2, TailOfAppend
  <2>2. \A r \in Ids : SaidBy(Append(v, e), r) = IF e.session = r THEN Append(SaidBy(v, r), e) ELSE SaidBy(v, r)
    BY <1>1, <1>2, SaidNext
  <2>3. \A r \in Ids : r # s => SaidBy(entries', r) = SaidBy(entries, r)
    BY <1>1, <1>2, <1>3, <2>2, Zenon
  <2>4. SaidBy(v, s) = kept
    BY <1>2, Zenon DEF w
  <2>5. SaidBy(entries', s) = all
    BY <1>1, <1>3, <2>2, <2>4, Zenon
  <2> HIDE DEF all
  <2> QED
    BY <1>1, <2>1, <2>3, <2>5, Zenon
<1>6. all = Mem!Window!LastOf(Append(w, e), Bound) /\ Len(all) <= Bound
  <2>1. CASE full
    <3>1. Len(w) = Bound /\ w # <<>> /\ all = Append(Tail(w), e)
      <4>1. Len(w) # 0
        BY <1>4, <2>1, EmptySeq
      <4>2. Len(w) = Bound
        <5> DEFINE n == Len(w)
        <5>1. n \in Nat /\ n # 0 /\ n >= Limit /\ Limit \in Nat /\ n <= Bound
          BY <1>1, <1>4, <2>1, <4>1, Zenon
        <5> HIDE DEF n
        <5>2. n = Bound
          BY <5>1 DEF Bound
        <5> QED
          BY <5>2 DEF n
      <4>3. all = Append(Tail(w), e)
        BY <2>1, Zenon
      <4> QED
        BY <2>1, <4>2, <4>3
    <3>2. Len(all) = Len(w)
      BY <1>1, <1>4, <3>1
    <3> HIDE DEF all
    <3> QED
      BY <1>1, <1>4, <3>1, <3>2, LastSaid
  <2>2. CASE ~full
    <3>1. Len(w) < Bound /\ all = Append(w, e)
      <4>1. w = <<>> <=> Len(w) = 0
        BY <1>4, EmptySeq
      <4> QED
        BY <1>1, <1>4, <2>2, <4>1 DEF Bound
    <3>2. Len(all) = Len(w) + 1
      BY <1>1, <1>4, <3>1
    <3> HIDE DEF all
    <3> QED
      BY <1>1, <1>4, <3>1, <3>2, LastSaid
  <2> QED
    BY <2>1, <2>2
<1> HIDE DEF all
<1>7. MemInv'
  <2>1. \A r \in Ids : Len(SaidBy(entries', r)) <= Bound
    BY <1>5, <1>6 DEF MemInv
  <2> QED
    BY <1>5, <2>1 DEF MemInv, Bound
<1>8. Said' = [Said EXCEPT ![s] = Mem!Window!LastOf(Append(@, e), Bound)]
  <2>1. Said' = [r \in Ids |-> SaidBy(entries', r)] /\ Said = [r \in Ids |-> SaidBy(entries, r)]
    BY DEF Said
  <2>2. Said[s] = w
    BY <2>1 DEF w
  <2> QED
    BY <1>5, <1>6, <2>1, <2>2
<1>9. Mem!Window!Say(s, e)
  BY <1>8, SaidIsSaid, Zenon DEF Mem!Window!Say, Bound
<1> QED
  BY <1>7, <1>9 DEF e

LEMMA MemInvNext ==
  ASSUME Mem!MemoryAssumption, MemInv, [Mem!MemoryNext]_entries
  PROVE  MemInv' /\ [Mem!Window!Next]_[s \in Ids |-> Mem!SessionHistory(s)]
<1>1. ASSUME NEW s \in Ids, NEW c \in Contents, Mem!AddEntry(s, c)
      PROVE  MemInv' /\ Mem!Window!Next
  <2>1. [session |-> s, content |-> c] \in [session : Ids, content : Contents]
    OBVIOUS
  <2> QED
    BY <1>1, <2>1, EntryAddedIsSaid, Zenon DEF Mem!Window!Next
<1>2. ASSUME NEW F \in SUBSET Ids, entries' \in Seq(Entry),
             \A r \in Ids : SaidBy(entries', r) = IF r \in F THEN <<>> ELSE SaidBy(entries, r)
      PROVE  MemInv' /\ Mem!Window!Next
  <2>1. Said' = [r \in Ids |-> IF r \in F THEN <<>> ELSE Said[r]]
    BY <1>2 DEF Said
  <2>2. Mem!Window!Forget(F)
    BY <2>1, SaidIsSaid, Zenon DEF Mem!Window!Forget
  <2>3. Len(<<>>) = 0 /\ Bound \in Nat
    BY DEF Bound, Mem!MemoryAssumption
  <2>4. \A r \in Ids : Len(SaidBy(entries', r)) <= Bound
    BY <1>2, <2>3 DEF MemInv
  <2>5. MemInv'
    BY <1>2, <2>4 DEF MemInv, Bound
  <2> QED
    BY <2>2, <2>5 DEF Mem!Window!Next
<1>3. ASSUME NEW s \in Ids, Mem!ClearSession(s) PROVE MemInv' /\ Mem!Window!Next
  <2> DEFINE S == SaidAt(entries, s)
             K == DOMAIN entries \ S
  <2>1. entries \in Seq(Entry) /\ entries' = KeptAt(entries, K)
    BY <1>3, HistoryIsSaid DEF MemInv, Mem!ClearSession, Mem!KeepAt, KeptAt
  <2>2. entries' \in Seq(Entry)
    BY <2>1, KeptAtSeq
  <2>3. Len(entries) \in Nat /\ DOMAIN entries = 1..Len(entries)
    BY <2>1
  <2>4. \A r : SaidBy(entries', r) = KeptAt(entries, K \cap SaidAt(entries, r))
    <3> HIDE DEF K
    <3> QED
      BY <2>1, SaidOfPart, Zenon
  <2>5. SaidBy(entries', s) = <<>>
    <3>1. \A i \in 1..Len(entries) : i \notin K \cap S
      OBVIOUS
    <3> QED
      BY <2>3, <2>4, <3>1, KeptNothing
  <2>6. ASSUME NEW r \in Ids, r # s PROVE SaidBy(entries', r) = SaidBy(entries, r)
    <3>1. \A i \in 1..Len(entries) : i \in K \cap SaidAt(entries, r) <=> i \in SaidAt(entries, r)
      BY <2>3, <2>6 DEF SaidAt
    <3> HIDE DEF K
    <3>2. KeptAt(entries, K \cap SaidAt(entries, r)) = KeptAt(entries, SaidAt(entries, r))
      BY <2>3, <3>1, KeptSame
    <3> QED
      BY <2>4, <3>2 DEF SaidBy
  <2> QED
    BY <1>2, <2>2, <2>5, <2>6, {s} \in SUBSET Ids
<1>4. ASSUME Mem!ClearAll PROVE MemInv' /\ Mem!Window!Next
  <2>1. entries' = <<>> /\ <<>> \in Seq(Entry)
    BY <1>4 DEF Mem!ClearAll
  <2>2. \A r : SaidBy(<<>>, r) = <<>>
    BY NothingSaid
  <2> QED
    BY <1>2, <2>1, <2>2, Ids \in SUBSET Ids
<1>5. ASSUME UNCHANGED entries PROVE MemInv' /\ UNCHANGED [s \in Ids |-> Mem!SessionHistory(s)]
  <2>1. MemInv' /\ Said' = Said
    BY <1>5 DEF MemInv, Bound, Said
  <2> QED
    BY <2>1, SaidIsSaid, Zenon
<1> QED
  BY <1>1, <1>3, <1>4, <1>5, Zenon DEF Mem!MemoryNext

LEMMA ChatStepIsSaid ==
  ASSUME Chats!ChatAssumption, Chats!ChatTypeOK, [Chats!ChatNext]_(Chats!chatVars)
  PROVE  Chats!ChatTypeOK' /\ [Chats!Window!Next]_messages
<1>1. ASSUME NEW i \in Ids, Chats!CreateSession(i) PROVE Chats!ChatTypeOK' /\ UNCHANGED messages
  BY <1>1 DEF Chats!CreateSession, Chats!ChatTypeOK
<1>2. ASSUME NEW i \in Ids, NEW m \in Contents, Chats!AddMessage(i, m)
      PROVE  Chats!ChatTypeOK' /\ Chats!Window!Say(i, m)
  <2> DEFINE w == messages[i]
             all == Append(w, m)
             n == Len(all)
             excess == IF n > Limit THEN n - Limit ELSE 0
             kept == SubSeq(all, excess + 1, n)
  <2>1. /\ w \in Seq(Contents) /\ Limit \in Nat
        /\ messages \in [Ids -> Seq(Contents)] /\ chatState \in [Ids -> {"unborn", "open", "gone"}]
        /\ chatState' = chatState /\ chatState[i] = "open"
    BY <1>2 DEF Chats!ChatTypeOK, Chats!ChatAssumption, Chats!AddMessage
  <2>2. messages' = [messages EXCEPT ![i] = kept]
    BY <1>2 DEF Chats!AddMessage
  <2>3. all \in Seq(Contents) /\ n \in Nat
    BY <2>1
  <2>4. kept \in Seq(Contents) /\ kept = Chats!Window!LastOf(all, Limit)
    <3> HIDE DEF all
    <3>1. excess \in 0..n
      BY <2>1, <2>3
    <3>2. kept \in Seq(Contents)
      BY <2>3, <3>1
    <3>3. CASE n > Limit
      <4>1. excess = n - Limit /\ ~(n <= Limit)
        BY <2>1, <2>3, <3>3
      <4> QED
        BY <3>2, <4>1 DEF Chats!Window!LastOf
    <3>4. CASE ~(n > Limit)
      <4>1. excess = 0 /\ n <= Limit
        BY <2>1, <2>3, <3>4
      <4>2. SubSeq(all, 1, n) = all
        BY <2>3
      <4> QED
        BY <3>2, <4>1, <4>2 DEF Chats!Window!LastOf
    <3> QED
      BY <3>3, <3>4
  <2> HIDE DEF kept
  <2>5. Chats!ChatTypeOK'
    BY <2>1, <2>2, <2>4 DEF Chats!ChatTypeOK
  <2>6. Chats!Window!Say(i, m)
    BY <2>1, <2>2, <2>4 DEF Chats!Window!Say
  <2> QED
    BY <2>5, <2>6
<1>3. ASSUME Chats!CleanupExpired PROVE Chats!ChatTypeOK' /\ \E F \in SUBSET Ids : Chats!Window!Forget(F)
  <2>1. PICK F \in SUBSET {i \in Ids : chatState[i] = "open"} :
          /\ chatState' = [i \in Ids |-> IF i \in F THEN "gone" ELSE chatState[i]]
          /\ messages' = [i \in Ids |-> IF i \in F THEN <<>> ELSE messages[i]]
    BY <1>3 DEF Chats!CleanupExpired
  <2>2. F \in SUBSET Ids /\ <<>> \in Seq(Contents)
    OBVIOUS
  <2>3. Chats!ChatTypeOK'
    BY <2>1, <2>2 DEF Chats!ChatTypeOK
  <2>4. Chats!Window!Forget(F)
    BY <2>1, Zenon DEF Chats!Window!Forget
  <2> QED
    BY <2>2, <2>3, <2>4
<1>4. ASSUME UNCHANGED Chats!chatVars PROVE Chats!ChatTypeOK' /\ UNCHANGED messages
  BY <1>4 DEF Chats!chatVars, Chats!ChatTypeOK
<1> QED
  BY <1>1, <1>2, <1>3, <1>4, Zenon DEF Chats!ChatNext, Chats!Window!Next

\* Both stores of conversations implement the window, for any sessions, messages and
\* limit: of each session the last messages in their order, whatever the others do,
\* and a session is forgotten only as a whole (rag/memory.rs, channels/session.rs).
THEOREM StoresKeepWindow ==
  ASSUME Mem!MemoryAssumption, Chats!ChatAssumption
  PROVE  Mem!MemorySpec /\ Chats!ChatSpec => ImplementsWindow
<1>1. Mem!MemoryInit => MemInv /\ Mem!Window!Init
  <2> SUFFICES ASSUME entries = <<>> PROVE MemInv /\ Mem!Window!Init
    BY DEF Mem!MemoryInit
  <2>1. <<>> \in Seq(Entry) /\ Len(<<>>) = 0 /\ Bound \in Nat
    BY DEF Bound, Mem!MemoryAssumption
  <2>2. \A r : SaidBy(entries, r) = <<>>
    BY NothingSaid
  <2>3. MemInv
    BY <2>1, <2>2 DEF MemInv
  <2>4. Mem!Window!Init
    BY <2>2, HistoryIsSaid DEF Mem!Window!Init
  <2> QED
    BY <2>3, <2>4
<1>2. Chats!ChatInit => Chats!ChatTypeOK /\ Chats!Window!Init
  BY DEF Chats!ChatInit, Chats!ChatTypeOK, Chats!Window!Init
<1>3. MemInv /\ [Mem!MemoryNext]_entries => MemInv' /\ [Mem!Window!Next]_[s \in Ids |-> Mem!SessionHistory(s)]
  BY MemInvNext
<1>4. Chats!ChatTypeOK /\ [Chats!ChatNext]_(Chats!chatVars) => Chats!ChatTypeOK' /\ [Chats!Window!Next]_messages
  BY ChatStepIsSaid
<1> QED
  BY <1>1, <1>2, <1>3, <1>4, PTL
     DEF Mem!MemorySpec, Chats!ChatSpec, ImplementsWindow, Mem!Window!Spec, Chats!Window!Spec
=============================================================================
