# Verification of fyuse

TLA+ models of the core of fyuse, the runs of TLC that check them on small
instances, and the theorems about them that TLAPS proves for every instance.
Every definition is translated from the code under `src/src`; `PROJECT.json`
maps each one to the lines it stands for. Paths below are relative to
`src/src`.

## 1. The system

fyuse is a server for language models on small machines: it pulls models into a
local store, loads them on demand, answers inference requests over HTTP, and adds
workflows, agents, a fleet of devices and many peripheral tools around that.

| Part | Source | State | Operations | What makes it correct |
|---|---|---|---|---|
| Inference engine | `model/local_engine.rs`, `model/inference.rs`, `server/handlers.rs` | map of loaded models; a busy flag per handle; streaming tasks | `load_model`, `infer`, `infer_stream`, `unload_model` | the cache stays near its limit; a handle is busy only for a request that runs; every request is answered |
| Resource manager | `model/resource_manager.rs` | registry of loaded models with state, request count, memory, last access; monitor task | register, unregister, mark active / complete, optimise, enforce limits, commands | resting models are unused; enforcement and shutdown end |
| Request queue | `queue.rs` | four priority queues, semaphore and counter per model, statistics | `queue_request`, `next_request`, `mark_started`, `mark_completed` | nothing lost, duplicated or starved; first-in first-out per priority; counters agree |
| Batching coordinator | `inference/coordinator.rs` | semaphore, bounded channel, one batch loop, counters | `submit`, the loop | every call returns; order kept; bounded work in flight |
| Sampler, grammar | `inference/sampler.rs`, `inference/grammar.rs` | probabilities; nesting and string of the output so far | `sample`, `is_token_allowed`, `advance` | a token is drawn from what the filters left; a valid document can be written |
| A/B router | `inference/ab_testing.rs` | number of requests, measurements | route, record, roll back | the split follows the configured percentage |
| Response cache | `inference/cache.rs` | concurrent map; order of use under another lock | get, set, clear, eviction | the limit is near; entries can be evicted; `set` ends |
| Paged KV cache | `inference/cpu/kv_cache.rs` | pool of pages; page table and pages per layer | append, clear, read | pages are neither lost nor shared; the contents read back in order |
| Connection and model pools | `pool.rs` | connections, handles, counts | `acquire`, `Drop`, `close`; `get_model`, `return_model` | bounds kept; connections come back |
| Rate limiter | `server/middleware.rs` | a bucket per client | `check_rate_limit`, `cleanup_old_buckets` | a client gets what its bucket allows |
| Remote proxy | `model/proxy.rs`, `model/remote.rs` | endpoints; attempts of a call | `forward_request` with retries, the endpoints | a call is executed at most as often as it may be tried |
| Downloads | `storage/download.rs`, `model/registry/huggingface.rs`, `model/lifecycle.rs` | state of a download, partial file, final file | download, resume, pause, pull, remove | what counts as complete is the whole file |
| Model manager and store | `model/manager.rs`, `model/huggingface.rs`, `storage/` | rows of the database, files | pull, update, remove | rows and files agree, also after a crash |
| Model files | `model/formats/gguf.rs` | none | parse, write | a file cut short is refused; what is written parses to what was read |
| Quantizer | `quantization/quantizer.rs`, `quantization/mod.rs` | scripts, outputs, processes | `quantize` by four methods, the report | a success is a job's own; a script does not outlive its jobs |
| Workflow orchestrator | `workflow/executor.rs` | pending, running and completed steps, spawned tasks | `execute_workflow`, step tasks | dependencies first, nothing twice, the execution ends |
| Workflow state manager | `workflow/state.rs` | executions in memory, one file for each | initialise, update, get, clean up, recover | a change is persisted and the call returns |
| Workflow history | `workflow/history.rs` | daily logs, a summary | record, query, clean up | records are kept and add up |
| Metrics | `observability/metrics.rs` | atomics, a list and a map under locks | start, complete, snapshot | a snapshot agrees with itself |
| Conversations | `rag/memory.rs`, `channels/session.rs` | entries or messages of sessions | add, clear, expire | each session keeps its last messages |
| Web widget | `channels/web_widget.rs` | sessions, queue of messages | register, send, receive, clean up, disconnect | the limit on sessions |
| Agents | `agents/worker.rs`, `agents/session.rs`, `agents/swarm.rs` | state of a worker, messages of a session, their files; outputs of a swarm | transitions, persistence, forks, compaction, orchestration | a successor takes up what was held; totals agree; the consensus stands |
| Fleet | `fleet/mod.rs` | devices, deployments | register, heartbeat, check, deploy | a silent device is found |
| Terminal interface | `tui/app.rs`, `tui/chat.rs` | mode, scroll offset, inputs, chat | keys, mouse, commands | modes agree with what they show |
| The rest | `api/`, `cli/`, `ui/`, `k8s/`, `security/`, `scanner/`, `layer/`, `compatibility/`, `mcp/`, `plugins/`, `devices/`, `config/`, `platform/` | little or none | conversions, reports, clients | section 7 |

How they interact. A handler (one axum task per request) calls the engine, which
consults its resource manager at each load and counts requests there. The manager
also runs a background task. The three pieces of state the handlers share, the map
of models, the registry and the busy flag of a handle, have locks of their own and
no operation holds two of them. The coordinator and the request queue stand
between callers and a backend; they communicate by channels, semaphores and
counters. The orchestrator's tasks talk to the loop through join handles and to
the state manager through its lock; the history records an execution after it. The
model manager, the hub client and the quantizer meet only in files, and the
commands that call them run in processes of their own, so the file system is what
they share. The other parts keep their state to themselves.

What is hard. Nearly every limit of this code is checked under one lock and used
under another; counters and flags are set and cleared on different sides of an
await at which the future may be dropped; two data structures that describe one
set (the map and the order of the cache, the cache and the registry of the engine,
rows and files) are updated one after the other; files are written in place, so
that a crash or a second writer leaves half of one. `PROJECT.json` lists these
points under "hazards", each at its line with the properties that would catch it
going wrong.

## 2. The modules

| Module | Models | Notes |
|---|---|---|
| `ResourceManager` | `model/resource_manager.rs` | one action per critical section; `enforce_limits` is begin, snapshot, and a check and a drop per victim |
| `InferenceEngine` | `model/local_engine.rs` with the handlers | EXTENDS `ResourceManager` and composes its actions with the program counters of the requests |
| `RequestQueue` | `queue.rs` | implements `PriorityFifo` |
| `PriorityFifo` | abstract | what a queue with priorities promises |
| `BatchCoordinator` | `inference/coordinator.rs` | `submit` at each of its awaits |
| `Serving` | | the two queues and what they promise together |
| `Sampler` | `inference/sampler.rs` | penalties, softmax, three filters, draw; one action each |
| `JsonGrammar` | `inference/grammar.rs` | a document is written in any division into tokens |
| `AbRouter` | `inference/ab_testing.rs` | routing, measuring, rollback |
| `InferenceCache` | `inference/cache.rs` | an action per access to the map or the order |
| `PagedKvCache` | `inference/cpu/kv_cache.rs` | implements `TokenLog` |
| `TokenLog` | abstract | the tokens appended since the last clear, per layer |
| `Pools` | `pool.rs` | the pools of connections and of models, an action per acquisition of a lock |
| `RateLimiter` | `server/middleware.rs` | the bucket as tokens and the time of the last refill |
| `Proxy` | `model/proxy.rs`, `model/remote.rs` | a network that loses and delays |
| `WebWidget` | `channels/web_widget.rs` | touching and queueing under two locks |
| `Download` | `storage/download.rs` | crashes, failures, a server that ignores ranges |
| `HubDownload` | `model/registry/huggingface.rs`, `model/lifecycle.rs` | files apart from their names |
| `ModelStore` | `model/manager.rs`, `model/huggingface.rs`, `storage/database.rs` | a failure or crash between any two steps |
| `GgufFile` | `model/formats/gguf.rs` | a file is a sequence of fields; the reader takes one field a step |
| `Quantizer` | `quantization/quantizer.rs`, `quantization/mod.rs` | jobs that share the path of a script, and fail to write, start or remove it |
| `WorkflowOrchestrator` | `workflow/executor.rs` | the loop and its tasks; steps and their ids apart |
| `WorkflowState` | `workflow/state.rs` | the lock and the files |
| `HistoryLog` | `workflow/history.rs` | a write empties the file and then fills it |
| `Metrics` | `observability/metrics.rs` | each atomic and each lock an action, for writers and the reader |
| `ConversationMemory`, `ChatSessions` | `rag/memory.rs`, `channels/session.rs` | both implement `SessionWindow` |
| `SessionWindow` | abstract | the last messages of each session |
| `AgentWorker`, `AgentSession` | `agents/worker.rs`, `agents/session.rs` | memory and file, failing and interrupted writes |
| `Records` | | fleet, worker, session, history, metrics, conversations, swarm and terminal, and what they promise together |
| `AgentSwarm` | `agents/swarm.rs` | agents that answer, fail or are timed out |
| `Fleet` | `fleet/mod.rs` | a time is kept as the time passed since; registrations with records of any age |
| `TerminalUi` | `tui/app.rs`, `tui/chat.rs` | an action per mode, keys as its disjuncts |
| `Rationing` | | manager, pools, limiter, proxy, widget, router, sampler and grammar, and what they promise together |
| `Activity` | | execution, history, metrics, conversations, worker, session, fleet, swarm and terminal, and what they promise together |
| `Stores` | | response cache, pages, downloads, model store, hub client, quantizer and model files, and what they promise together |
| `MCInferenceEngine` | | instance for TLC |
| `DataTheorems` | | lemmas about sums, sequences and recursive functions |
| `InferenceEngine_proofs`, `Serving_proofs`, `Rationing_proofs`, `Stores_proofs`, `GgufFile_proofs`, `Records_proofs`, `Activity_proofs` | | theorems, section 5 |

Conventions. A process is a client, thread, task or worker with a program counter;
what happens under one acquisition of a lock is one action; what is computed
between two locks is part of the action before it. Time is abstracted: a timeout
may fire whenever its guard holds, and "least recently used" is a sequence. In each
module a definition whose comment begins with "Fault:" is not part of the
specification. It is a plausible mistake in the definition next to it, and
substituting it breaks the property `PROJECT.json` pairs it with under "mutants":
this shows that the property depends on the code. A module that is only
instantiated states its assumptions as a definition (`PoolAssumption`, say), which
the module that composes it assumes of the instance, so that TLC evaluates it.

`InferenceEngine` in the code's terms. `loaded` is `loaded_models`, with handles
numbered in the order of creation, so that the number also stands for `loaded_at`;
`busy` is `is_busy` of the state behind a handle, `streams` the tasks spawned by
`infer_stream`. `pc` walks through `load_model` (lookup, hit or miss, optimize,
enforce, evict, config, insert, register), then through `infer` or `infer_stream`
(loaded, test, set, running, complete) or `unload_model`. `Cancel` drops a handler
at an await that can be pending: the file read, the asynchronous lock of a handle,
the inference. The parking_lot locks are not awaits. `abandoned` is a history
variable: handles on which a running inference was dropped.

`RequestQueue`: `queues` and `total` are `PriorityQueue`, `active` the map of active
requests, `statActive` the field of the statistics. The repository has no consumer
of the queue but its tests; the workers follow the protocol its public operations
suggest. `Popable` is `pop_fair`: with a weight above zero any queue that is not
empty may be served, otherwise only the highest. `BatchCoordinator`: `pc` names the
await at which a call of `submit` stands, `loop` the position of the batch loop.
`Cancel` drops a call and is remembered in the history variable `cancelled`,
`BackendPanics` ends the loop.

`InferenceCache`: `entries` is the DashMap, `lru` the VecDeque. `PagedKvCache`:
`freePages` and `allocated` are the pool, and an append takes its tokens one step at a
time, because the other layers share the pool. The pool of connections in `Pools` has no
list of those available: the code puts nothing into it (section 4), so the branch that
takes from it is dead. The pool of models has handles and copies of them: users call
`get_model` as often as they like, and a handle may be returned by anybody any number of
times, since the pool does not know who has one. In `Download` a file is the sequence of
the positions it holds of the remote file, so that "whole" is an equality; in
`HubDownload` what was never written is 0, and a pull goes on writing to the file it
opened when another has renamed it. `ModelStore` follows one local name that two
repositories share, because `handle_pull` derives the name from the last part of the
repository's. `GgufFile` has the nested loops of `parse` as the record `at` which the
reader stands and the values `got` of its fields so far; each step takes one field, and
refuses it, goes on in the record, or is through with it. Files hold values of every
type and are whole or cut short anywhere before their data. What the reader makes of a
field of another kind than it expects is not modelled (`GoAstray`), and `CutIsRefused`
includes that no file of this format leads it there.

`WorkflowOrchestrator`: `pending`, `running` and `completed` are the locals of
`execute_with_orchestration`; `awaited` is the id whose handle the loop awaits. The code
goes by the ids of steps, and neither the parser nor the executor looks for one that
comes twice. A step is therefore its position, `idOf` gives it an id, which other steps
may have as well, and everything the code keys by ids is keyed by ids here: `running`
maps an id to the task that is held under it, so that a second one detaches the first,
and the step that is run is the first of its id. `dependsOn` may name ids that no step
has. Spawning takes the queue one step at a time; each call of the state manager is an
action of its own that ends well, with an error, or never. `task` is the progress of the
task to which the queueing of a step led.
`Quantizer` names a script by the job it was written for. `crowded` are jobs whose
script another one opened or removed before their process had read it, `littered` the
methods whose last job to end failed to write, start or remove its script. `Fleet`
remembers in `unchecked` the devices that were registered since the last check.
`HistoryLog` keeps in the history variables `disturbed` and `order` whether two
recordings overlapped or one was stopped, and in which order they came.
`AgentWorker` keeps in `reached` the states any worker was in. `Sampler` computes
with integers: a weight is a power of two that, like an f32, vanishes when a logit
is far below the greatest.

## 3. The runs

| Run | Instance | Shows |
|---|---|---|
| `resources` | nine parts, see below; 167 thousand states | the idle paths select only unused models (`RestingMeansUnused`); `enforce_limits` ends although others register meanwhile (`EnforcementEnds`); an accepted Shutdown ends the monitor (`ShutdownStopsMonitor`); connections exceed their maximum by less than the number of users, and a model is not loaded more often than calls of `get_model` overlap (`PoolOvershootBounded`); `AdmissionBounded`, `ExecutionsBounded` and `SessionsBounded` of limiter, proxy and widget; router, sampler and grammar choose as they should (`ChoicesSound`) |
| `engine` | 3 models, 2 clients, 3 requests of any kind, a limit of 1, disconnects; 240 thousand states | the cache exceeds its limit by less than the number of clients (`OvershootBounded`); a busy handle has an owner or lost one (`BusyHasOwner`); `TypeOK`, which the count of requests rests on |
| `engine_live` | 1 model, 2 clients, 3 requests, disconnects; 71 thousand states | a busy flag is cleared unless its request was cancelled (`BusyClears`); every request ends (`RequestsEnd`) |
| `serving` | 3 clients, 2 workers, 2 priorities, 2 calling threads, a strict queue of 1 and a fair queue of 3; 2 callers with 3 calls for the coordinator; 36 thousand states | `QueueOvershootBounded`, `ActiveCountsWorkers`; until a call is cancelled the permits bound what is in flight, and the count does not leak before a panic either (`CallsAccounted`); both queues keep their order (`QueuesKeepOrder`: the request queue implements `PriorityFifo`, the coordinator takes calls as they came); a queued request is answered (`QueuedIsAnswered`), a call returns (`CallsReturn`) |
| `stores` | seven parts, see below; 245 thousand states | `OvershootBounded`, `OrderAgrees`, `SetsReturn` of the response cache; `PagesAccounted`, `ImplementsLog` of the key-value cache; complete downloads and parsed files are whole (`CompletedIsWhole`); a model that is listed has all its files (`RowsHaveFiles`); a quantization reported as a success is the job's own, and a script outlives its jobs only where the last of them failed over it (`QuantizationSound`) |
| `workflow` | ten parts; 617 thousand states | `DependenciesReportedFirst`, `CompletedRanAll`, `SpawnedOnce`, `WorkflowEnds` of an execution; history and metrics add up (`RecordsAddUp`); a silent device is found (`OnlineWasHeard`); what agents store can be trusted (`StoredIsSound`); conversations implement `SessionWindow` (`ImplementsWindow`); the consensus of a swarm and the modes of the terminal are sound (`ShownIsSound`) |

`TypesOK` of a run is the conjunction of the type invariants of its parts.

`Rationing`, `Serving`, `Stores` and `Activity` hold components that share no state. A
variable `part` selects the one a behaviour exercises, so that the state spaces add up
instead of multiplying; the others rest in one initial state. The parts of `Rationing`
are the manager, the connections, the model instances, the limiter, the proxy, the
widget, the router, the sampler and the grammar; those of `Serving` the queue and the
coordinator, whose calls may be cancelled and whose backend may panic; those of `Stores`
the response cache under two threads with room for two entries, the key-value cache, the
two downloads, the model store, the quantizer and the model files; those of `Activity`
an execution of any workflow of three steps, with any ids and dependencies, the history,
the metrics, the two conversation stores, the worker, the session, the fleet, the swarm
and the terminal. A property that needs one of them says so; the next section shows what
happens to one of them elsewhere.

Some properties carry a condition, each for a reason in the code. `CompletedIsWhole` of
`Download` needs a server that honours ranges, and of `HubDownload` pulls that do not
overlap and, after a resumption, such a server; the writer of `GgufFile` needs keys that
differ. `CallsAccounted` needs that no call was cancelled, and the count also that no
backend panicked, because both leak. `RowsHaveFiles` excepts a remove that was
interrupted, because `remove` deletes the files before the row. `OrderAgrees` asks of
the response cache that its map and its order agree wholly as long as no two calls
overlapped, and, as long as nothing expired and nothing was cleared, that no entry is
missing from the order; `SetsReturn` excepts calls that overlapped while an entry
expired or the cache was cleared (`cache_orphan` shows why). `SuccessIsOwn` of
`Quantizer` excepts jobs whose script another one opened or removed before it was read,
because all jobs of a method write to one path, and `ScriptsRemoved` methods whose last
job failed to write, start or remove its script: the first two return early, and a
failing removal is ignored. `SpawnedOnce` excepts steps of one id that have no
dependencies, which the code queues each (`executor.rs:104`), and `CompletedRanAll`
cyclic workflows. `OnlineWasHeard` excepts devices registered since the last check,
because `register_device` keeps the status and the time of the record it is given
(`fleet/mod.rs:97`; the test at `fleet/mod.rs:293` registers one that is Online and two
minutes stale). `WorkflowEnds` excepts executions that wait in a call of the state
manager. `RecordsKept` of `HistoryLog` excepts recordings that overlapped or were
stopped. `SessionsBounded` does not count sessions that a message revived. What is left
is what the code ensures in all other interleavings, failures and crashes, which the
fault paired with each property shows to be no matter of course.

Each bound is chosen to reach the case a property is about. Two requests suffice to pass
a check together, and three make one of them meet what the others left behind; the limit
of one model with three models makes the engine evict and overshoot; a queue of one
overflows with two calling threads, and three clients put two requests under one
priority and one under the other; two pages for two layers of which one can fill both
exhaust the pool in the middle of an append; three steps contain every chain, fork,
join, self-loop and cycle up to three, and every way to share ids among three. A bucket
of two with four units of time empties, refills and is discarded; three users meet one
connection; two retries of one call leave two requests on their way at once. Three
chunks and two retries break a download off in the middle, resume it and break it off
again; three inodes are what a final file, a partial file and a pull that lost its name
need; three jobs are two of one scripted method and one of another. Three executions
give a second recording that overlaps the first and a third that finds what they left,
with a list of recent executions of two. Windows of two messages overflow with two
speakers in between. Three tokens with three logits contain every order and every tie,
also against a crossing of top_p; a period of three and four requests begin a second
period; documents of nesting two have brackets in strings, escaped quotes, and strings
in arrays and objects. A terminal with an offset of at most 6 scrolls up twice and
saturates, and a chat of three messages trims in the middle of a prompt and its answer.
A fleet counts two units of time with a timeout of one, so that a record may be fresh,
stale or from the future. Two commands in the manager's channel put a Shutdown before
and behind another one. `MaxRequests`, `MaxCalls`, `MaxAppend`, `MaxActive`, `MaxTime`,
`MaxStarts`, `MaxPulls`, `MaxRestarts`, `MaxSilence`, `MaxDeployments`, `MaxLoads`,
`MaxReturns`, `MaxPending`, `MaxTyped`, `MaxPairs` and `MaxTensors` bound what the code
leaves open; they are conjuncts of guards or sizes of inputs and named as bounds where
they are declared. `CHECK_DEADLOCK FALSE` is set because these systems may come to rest:
the budgets are used up, a workflow ends, or nobody calls.

Fairness. Tokio polls every task that is ready, which gives weak fairness to the
steps of a handler, of a task and of the loops. A step that competes for a
semaphore, an asynchronous lock or a channel gets strong fairness, because Tokio
serves these in the order of arrival. Strong fairness of each priority in the fair
mode of the queue stands for the random draw of `pop_fair`, and holds with
probability one as long as the workers keep polling. An inference, a command and a
backend are assumed to end (or panic). The receiving branches of the monitor are
weakly fair, because `select!` picks among ready branches at random. Nothing
obliges a client to call, to cancel or to disconnect, a server to answer, time to
pass or a timeout to fire, so nothing is claimed to complete that depends on them. Nor
does anything oblige the state manager to return: `WorkflowEnds` is checked with fairness
of the loop and of the commands alone, and says that an execution ends or that it, or
the task it awaits, stays in a call of the state manager.

## 4. Where code and documentation part

Each of these runs checks one statement of a comment and TLC refutes it.

| Run | Statement | What the code does |
|---|---|---|
| `engine_active` | `active_requests` is the "Number of active requests" (`model/resource_manager.rs:21`) | a load that finds its model cached counts a request that nobody completes (`local_engine.rs:220`), and an inference on a cached model is counted twice |
| `engine_busy` | `is_busy` says "Whether the model is currently processing a request" (`model/inference.rs:49`) | the flag is tested and set under separate locks; two requests run, and the first to end clears it |
| `queue_concurrency` | "Maximum concurrent requests per model" (`queue.rs:120`) | the permit is a local of `mark_started` and is given back before the request runs |
| `cache_orphan` | "Phase 2: Atomic cleanup if expired" (`inference/cache.rs:123`) | the entry goes first and its key later; an entry set in between is not in the order any more and cannot be evicted |
| `pool_return` | "Return connection to pool when dropped" (`pool.rs:87`) | `Drop` unwraps a second reference to what it still holds itself, which always fails: the connection is lost and stays counted |
| `workflow_state` | "Persist to disk" (`workflow/state.rs:105`) | `persist_execution_state` awaits the read lock its caller holds for writing, for ever |

The last one also says that a workflow cannot be executed at all as the code
stands: its first call, `initialize_execution`, never returns. `WorkflowOrchestrator`
allows that, as it allows each call of the state manager to return an error, or Ok as it
will once the lock is repaired; what it shows of the later steps is about that case.

Met while modelling, modelled as the code does it, and without a run of their own:

- `model/proxy.rs:10` calls `max_retries` the "Maximum number of retry attempts"; the
  loop counts all attempts, the first included.
- `workflow/history.rs:225` says "Append to file"; the file is read and written back
  whole, and two recordings that overlap may lose the lines of the day.
- `server/middleware.rs:86` makes a limiter for each request, so every client meets a
  full bucket. `AdmissionBounded` is about the limiter itself.
- `storage/download.rs:281`: the next chunk overwrites Paused, so a pause stops nothing.
- `model/registry/huggingface.rs:138`: a partial file that is complete but was not
  renamed leads to a range the server refuses, in this pull and in every later one.
- `model/manager.rs:405`: `update` deletes the model before it downloads it again.
- `inference/sampler.rs:180` takes the weight after the first k as its threshold and so
  keeps k + 1 tokens, where the test says "only the top 2 tokens should be sampled"
  (`sampler.rs:268`) and passes because the third is improbable. A draw of exactly 0
  (`sampler.rs:114`) returns the first token even if it was filtered out.
- `inference/grammar.rs:12` promises "valid JSON"; brackets are counted without their
  kind, so `[}` counts as complete. A token that opens a string and goes on with a
  character such as `#` is refused (`grammar.rs:140`), although the same text in two
  tokens is allowed; `NeverStuck` states that the document can still be written.
- `inference/ab_testing.rs:208` says "Returns None if insufficient data"; `rollback`
  does not ask `min_samples`.
- `agents/swarm.rs:38` says "Timeout for the entire orchestration"; each agent gets all
  of it (`swarm.rs:146`). A tie of votes is decided by the order of a hash map.
- `model/formats/gguf.rs:239`: a key that comes twice is kept once while the count of the
  header stays, so the file that is written cannot be parsed (`RoundTrip` asks for
  keys that differ).
- `tui/app.rs:269`: the branch for commands typed in place of a prompt is dead, since a
  slash at the beginning opens the palette (`PromptsArePlain`). The palette offers
  `/model`, `/export` and `/system` (`app.rs:157`), which `execute_command` does not know.
- `workflow/executor.rs:104`: nobody checks that the ids of steps differ. Of several steps
  of one id the first runs, once for each of them without dependencies, also where the
  queued step is a later one whose dependencies are done while those of the first are
  not; a second task under an id replaces the handle of the first, which goes on
  unobserved (`SpawnedOnce`, `DependenciesReportedFirst`). A dependency that no step
  has the id of is found only after the execution was set to Running, and it stays
  Running (`executor.rs:43`).
- `pool.rs:355`: any handle of a model counts as free, so `get_model` loads a model again
  only when calls overlap; the test at `pool.rs:562` expects that a second call in a
  row makes a second instance, which this code does not.
- `fleet/mod.rs:148`: a device that dies while Deploying is never found Offline, and no
  operation ends a deployment.

## 5. The proofs

| Theorem | Module | Holds for |
|---|---|---|
| `RestingAlwaysUnused` | `InferenceEngine_proofs` | every policy, any number of models, callers and commands |
| `TypeCorrect` | | every policy, any number of models, clients and requests |
| `BusyAlwaysHasOwner` | | the same |
| `OvershootAlwaysBounded` | | the same, with at least one client |
| `QueueOvershootAlwaysBounded` | `Serving_proofs` | every configuration and number of threads |
| `ActiveAlwaysCountsWorkers` | | the same |
| `CallsAlwaysAccounted` | | any number of callers and calls, any permits and size of a batch |
| `QueuesAlwaysKeepOrder` | | the same; a refinement |
| `ServingAlwaysTyped` | | the same |
| `ServingBehavesAsAlone` | | the constants of both parts; two refinements |
| `ServingAlwaysSafe` | | the same |
| `AdmissionAlwaysBounded` | `Rationing_proofs` | any clients, capacity and stretch of time |
| `SessionsAlwaysBounded` | | any sessions and threads, any limit |
| `ExecutionsAlwaysBounded` | | any calls, retries and backoff |
| `PoolsOvershootAlwaysBounded` | | any users, connections and models, any limit |
| `SplitAlwaysKept` | | any period, percentage and number of requests |
| `DrawsAlwaysInProportion` | | any vocabulary, logits, parameters and previous tokens |
| `CandidatesAlwaysSound` | | the same |
| `DocumentsAlwaysWritten` | | documents of any nesting, tokens of any length |
| `PartsBehaveAsAlone` | | the constants of all nine parts; nine refinements |
| `ChoicesAlwaysSound` | | the same |
| `TypesAlwaysOK` | | the same |
| `CacheOvershootAlwaysBounded` | `Stores_proofs` | every limit, keys and threads, expiry and clear allowed |
| `OrderAlwaysAgrees` | | the same |
| `CacheKeepsLog` | | any layers, pages, tokens and size of a page; a refinement |
| `PagesAlwaysAccounted` | | any layers, pages, tokens and size of a page |
| `DownloadsAlwaysWhole` | | a file of any size, any number of failures and retries |
| `FinalAlwaysWhole` | | any number of pulls, cut off and resumed anywhere |
| `RowsAlwaysHaveFiles` | | any files, formats and sources of models |
| `QuantizationAlwaysSound` | | any jobs and methods |
| `StoresBehaveAsAlone` | | the constants of all seven parts; seven refinements |
| `StoresTypesAlwaysOK` | | the same |
| `CompletedAlwaysWhole` | | the same |
| `StoresAlwaysSafe` | | the same |
| `ModelFilesAlwaysWhole` | `GgufFile_proofs` | any header, any number of pairs, tensors and elements, every type of value |
| `OnlineAlwaysHeard` | `Records_proofs` | any devices and timeout |
| `RecoveredAlwaysHeld` | | any sequence of transitions, failures and crashes |
| `StoredAlwaysSound` | | the same, and sessions of any messages |
| `RecordsAlwaysAddUp` | | any executions, names and requests |
| `ShownAlwaysSound` | | any agents, answers and scores; any words, messages and scroll range |
| `StoresKeepWindow` | | any sessions, messages and limit; two refinements |
| `RunningAlwaysBounded` | `Activity_proofs` | workflows of any size, graph and ids, any limit of concurrent steps |
| `DependenciesAlwaysReported` | | the same |
| `CompletedAlwaysRanAll` | | the same; cyclic workflows are excepted in the statement |
| `AlwaysSpawnedOnce` | | the same; an action property |
| `ActivitiesBehaveAsAlone` | | the constants of all ten parts; ten refinements |
| `ActivityTypesAlwaysOK` | | the same |
| `ActivityAlwaysSafe` | | the same |

Assumptions are the named ones of the modules: types of the constants, finite sets
of processes, models or keys, and that there is at least one thread or caller. One
says more: `LimiterAssumption` has that an idle bucket is discarded only when it is
full by then, which holds in the code: a bucket refills in one minute, and one is
discarded after five. TLC evaluates them all in the runs.

### The engine, the queue and the coordinator

Resting models. `RestingMeansUnused` is inductive with the type of the registry: the
only step that raises a count also makes the model Active, the only one that leaves
Active does so at a count of zero, and the idle phases start from a resting entry
and keep its count. A completion is assumed to concern a model that is Active, as
`RMNext` says; in the engine it may meet a model registered anew, at zero.

Types. `TypeOK` of the engine is inductive only for the engine's own variables
together with the registry. It says that a request count is a natural number,
which rests on the saturating subtraction, and that every handle is in range. The
types of the queue and the coordinator say that the total is the sum of the lanes
and that the channel and the batch keep to their sizes.

Busy flags. `BusyHasOwner` is inductive given the types: `SetBusy` makes an owner
as it sets the flag, the two steps that take an owner away (`FinishInference`,
`FinishStream`) clear the flag, and `Cancel` of a running inference records the
handle in `abandoned`.

The overshoot bounds of the engine, the queue, the response cache and the pools have
one form: what is stored, plus the calls that have passed the check and not stored
yet, is at most the limit plus the other processes. The second summand is the
strengthening that makes the bound inductive: the check passes only below the limit
and adds one call, of at most as many as there are processes; storing turns a call
into a stored element; removals only help. For the engine the argument needs that a
handle enters the cache only between "evict" and "insert" and that an eviction of a
full cache takes an element away; for the response cache that an insertion may also
overwrite; for the pools that a connection which failed to open is never counted.

Counters of the queue. `ActiveCountsWorkers` splits into the entry of each model
and the total. Each decrement saturates at zero, which could lose a count, but the
worker that decrements is itself counted, so that the count is positive. The proof
needs no knowledge of which model a job names: a job of an unknown model would
change neither side.

Calls of the coordinator. The bound on what is in flight rests on who waits: as long
as no call was cancelled, every request in the channel or the batch is the present
call of a caller that awaits its answer, and no two are of the same caller
(`Awaited`). Such a caller holds a permit, so that the requests inject into the
holders of permits, of which `PermitsKept` has at most `MaxConcurrent`. The count of
active requests is that of the callers between their permit and their return
(`ActiveCounted`); a cancelled call leaves the request behind and the count up,
hence the hypothesis `~cancelled`. A panic of the backend ends the loop, and the
count with it.

First in, first out. `FifoInv` places every waiting request: it stands in exactly one
lane once (`QueuesOnce`), or one worker has it (`ServedWait`), and its client waits
(`QueuedWait`). The refinement maps the lanes to the places of the abstract queue;
`FifoStep` takes the steps one by one. A push appends, which puts the newcomer behind
all others of its lane; a pop removes the head of a lane, under strict scheduling of
the highest that is not empty; every other step leaves the lanes alone and is a
stutter. For the coordinator the pipeline, which is the batch followed by the
channel, only changes at its ends, so that calls are taken in the order in which they
were sent.

### Limits

Admissions. A bound on every stretch of time is not inductive, because it says
nothing of what may follow. `Paid` adds it: what a client got through since an
earlier admission, plus what it could get through at once, is at most a full
bucket and the time since. An admission moves one from the second summand to the
first; time raises the second by no more than it raises the bound; discarding a
bucket that is full changes nothing.

Sessions of visitors. A registration looks at the limit and adds one session; every
other step that makes a session active puts it into `revived`. That `revived` holds
active sessions only is what keeps a registration from making room by itself.

Executions. Every request and answer carries the number of its attempt. No attempt
beyond the limit is begun (`AttemptsLeft`), a request has the number of one that
was begun (`RequestsNumbered`), an answer that of an execution (`AnswersExecuted`),
and a call ends well only by an answer (`OkExecuted`); the executions of a call are
then among as many numbers as there are attempts.

The router. `SplitIsKept` is inductive as it stands, given what one more request does
to a quotient and a remainder (`NextInPeriod`).

The sampler. That the weights are numbers goes through the penalties, a fold over the
previous tokens (`FoldTyped`), and the softmax. A draw reaches a token first exactly
when it lies above the weight of all tokens before it and not above that with the token
(`ReachesStretch`); such draws are an interval as long as the token's weight. The
filters work on the tokens sorted by weight. A token's place is the number of tokens
before it, which no two tokens share, so that every token has one (`IndexedSorts`).
What each filter keeps is then a first part of that order, and `Left` (closed upwards,
with a greatest one, weights unchanged) passes from one filter to the next together
with the reason for which each lost token was dropped (`FilterHolds`).

The grammar. The tracker's state along a text is a table (`Run`), and running through
two texts in a row is running through their join, so that the division into tokens
does not matter. By induction over the nesting, a value leaves the tracker as it found
it, and inside of it every place has a bracket or a quote still open (`Tight`), whence
the output is taken for complete only at its end. Where a token begins outside of the
strings, the next character of a document is one of those JSON has there, which the
code allows; only a token that opens a string itself can be refused.

The manager. `RMTypeOK` says that the order of accesses has each registered model once
and no other. For the proof "once" is that no two places have the same model (`Once`);
`Without` takes the place of a model out and keeps the others (`OrderWithout`), so that
registering, marking and dropping each keep the order in step with the registry.

The composition. A step of `Rationing` is one of a single part and leaves the variables
of the eight others alone (`StepOfParts`): it maps to a step of that part and to a
stutter of the others, which is why `PartsBehaveAsAlone` holds, and with it every
invariant of a part, whichever part a behaviour exercises.

### What is stored

Pages. `PagesKept` says that the free pages and those of the tables are all pages,
and that there are no more entries in these lists than pages. Together they leave no
room for an entry that stands twice. An append that fails has already moved pages
from one list to another and nothing else; `clear` gathers the tables in a loop over
the layers, which is why the sum over the layers is needed.

Reading back. `CacheKeepsLog` shows that the key-value cache implements `TokenLog`. The
interesting step is an append to a page that has room: it changes the contents of one
page, and what a layer reads is a join over its table. That page is the last of its own
table and, because every page stands in one list once (`PagesKept` again), in no other,
so one log grows by the token and the others do not change. A page taken from the
pool is in no table, and a page that comes back with old contents is emptied first.

Order of the cache. An entry that is missing from the order is the business of one
thread, which has inserted it and is about to list it, or is about to remove it; as
long as nothing expires or is cleared, no other thread takes it off in between. When
calls come one at a time the two agree except for what the one call under way
has left to do. Both are stated for each position of a thread, and the conjuncts of
`OrderAgrees` follow when every thread is idle.

Downloads. With a server that honours ranges, the file is a prefix of the whole
(`FileGrows`) and what is still to come is the rest of it (`BodyFollows`); a retry
asks for the rest and a restart for everything. `Completed` is reported at the end
of a body. A server that ignores ranges would break `BodyFollows`, and
`CompletedIsWhole` excepts it.

Pulls from the hub. `HubBase` says whose files are open and that what has the final
name is not the partial file. While no two pulls have overlapped and no pull was
resumed from a server that ignores ranges, the partial file is a prefix of the model
and one pull alone continues it (`HubGood`); a rename then gives the name to a whole
file. Of other pulls only the first part is promised.

Rows. What lies on the disk of a source is a piece of it from its beginning
(`ChunksInPlace`), what a pull receives continues the file (`Receiving`), and what it is
through with is complete (`Downloaded`). A pull writes its row last and a removal
deletes it before the files; `Rowless` says at which of their steps there is no row,
and `RowsLong` that there are its files otherwise. A removal that fails between its
files leaves `broken` behind, which the property excepts.

Quantizations. Jobs of one method share a script. A job that nobody disturbed between its
write and its read finds the text it wrote, and what it reports is of its own model
(`Own`, `Reported`): every step of another job either leaves the script alone or makes
the job `crowded` (`CrowdKnown`, `TextKnown`), also one that writes part of a script or
fails to remove it. What is left where nobody uses the script is the work of the last
job to end, which has removed it or is why the method is `littered` (`Cleaned`).

Model files. The invariant places the reader in the file (`InPlace`, `Placed`): so many
records are `Through`, of the next one it has the values of the first fields, and the
bytes it counted are those of both (`BytesAt`). What it has made of the records that are
through agrees with what the file holds (`Agrees`, with `MetadataOf` for keys that come
again). In its place the reader always meets the kind of field it wants, so that it never
goes astray; the header counts the records, so that it is through with all of them
exactly where a whole file ends, and a file that ends before is refused. `Made` says
what a finished parse returns. `FirstParse` and `Reading` carry this through both
parses, of the file that was fetched and of the one that was written. In between,
sorting the keys gives the pairs another order (`InOrder`). The metadata do not depend on
it, and neither does the sum of the bytes (`SumPermuted`), whence the data begin at the
same place. An array is written with the tag of its first element, which is that of all
of them in a file of this format (`GgufAssumption`).

The composition. `Stores` composes its seven parts, and `Serving` its two, as
`Rationing` does (`StepOfStores`, `StepOfServing`), so that each part behaves as alone
and keeps its invariants. `StoresTypesAlwaysOK` needs two of its own: a path of the
quantizer has seen no more files than there are jobs, because a job opens it once
(`QzCounted`); and the order of the response cache, in which a key may stand only once,
is no longer than there are keys (`OnceCounts`).

### What is recorded

Fleet. A device that was not registered since the last check is Online because it was
heard of, and a check takes it off after the timeout, whatever time its record came with;
the invariant adds the types and that only registered devices are `unchecked` (`FInv`).

Workers. What a successor loads is a state that was reached, wherever the writing
was cut: the file is either that of before, torn, or complete, and a torn one counts
as missing. The invariant relates the file, the state in memory, and the states
that were reported.

Sessions of agents. The totals of the live session and of every readable file are
those of its messages (`Whole`, `Sound`). Compaction is the interesting step: it
keeps some messages and recomputes both totals.

History. A summary that can be read adds up, and lists only executions whose call
has read one (`SummariesAddUp`). Two calls at once may lose a line; until that
happens, which `disturbed` remembers, at most one is under way, and the log and the
summary have exactly the executions that were written (`Undisturbed`).

Metrics. Each counter is the number of requests past the step that counts it
(`CountersRight`, `ModelsRight`). A snapshot reads them one after the other. What it
has read under a lock is frozen while it holds that lock, and what it reads without
one only grows, which is how each of its fields is compared with the others
(`LoadsRight`, `SnapshotRight`).

Conversations. What a session has said of the common list is what a loop over the list
collects (`SaidBy`). Appending, removing the oldest entry of a session, and dropping a
session are each shown to do to every session's part what the abstract window does
(`SaidNext`, `EvictedSaid`, `SaidOfPart`): the eviction counts and searches the common
list, yet takes only from the speaker, and at most as many entries are kept as the
limit says, or one where it says none (`MemInv`).

Swarms. Outputs have the agents that were asked in their order, and there is a
consensus only when no more are asked (`SwInv`). What each strategy chooses has at
least the votes or the score of every other output, and what more than half have
said is chosen because two majorities share an output.

Terminal. `TInv` says that the view is scrolled in the mode for it, that a command is
typed in the palette alone, and that every prompt in the chat is followed by its
answer, also where the chat was trimmed at its front; the keys preserve it one mode at
a time.

### Workflows, and the activity as a whole

One invariant carries the four theorems on executions: its parts say that before the
loop there is nothing (`Fresh`), that whatever was queued has its dependencies
completed (`Enabled`), that what is completed or ended well has reported (`Reported`),
that nothing queued has a task (`QueuedUnspawned`), that the id of what has a task runs
or is completed (`Accounted`), that two steps of one id were queued only without
dependencies (`Repeats`), that no id falls between the sets (`Covered`), and what the
end means (`Ended`, `CompletedByPhase`). Ids are not assumed to differ. A join queues of
each id the first step that became ready, which exists because steps are numbers
(`LeastStep`); that its id is neither completed, nor running, nor queued makes it the
only one of its id. The loop appends to `pending` and takes its head; what this
does to its elements is proved first, from the library's facts on sequences
(`OrderedProperties`, `AppendedSteps`, `TailSteps`). `CompletedAlwaysRanAll` then takes
the set of steps whose ids are not completed: each depends on the id of one of them, so
that it contains a cycle, or is empty.

`Activity` composes its ten parts as `Rationing` does its nine, with the same lemma
(`StepOfParts`) and refinements; `ActivityAlwaysSafe` carries the theorems on executions
and records over. `ActivityTypesAlwaysOK` needs invariants of its own where the others
do not follow the data: that every line of a history file stands for an execution, also
where a write was overlaid by another (`HistoryLines`); that what a snapshot reads are
numbers, because the counters are cardinalities (`SnapshotTyped`); that a session's
totals are sums of naturals (`WholeIsRecord`); and that silence, deployments, restarts
and scores keep to their ranges (`FleetBounds`, `RestartsTyped`, `SwarmBounds`).

### Data, and what is out of reach

`DataTheorems` has what several of these need of sums over finite sets, of loops that
keep a part of a sequence or join several, and of the greatest of finitely many. The
library's induction theorems have an operator as a parameter and cannot be cited;
induction is therefore stated once for sets of numbers (`EveryNat`: a set that has 0 and
with n also n + 1 has them all) and used with the set of the numbers for which the claim
holds. A sum defined by a fold is first shown to be given by a table, a function on the
subsets of a finite set, about which one can then reason by induction on size.

Out of the prover's reach, and left to TLC: liveness and ENABLED (section 3 has the
fairness). These are `EnforcementEnds`, `ShutdownStopsMonitor`, `BusyClears`,
`RequestsEnd`, `QueuedIsAnswered`, `CallsReturn`, `SetsReturn` and `WorkflowEnds`. All
other properties of the passing runs are proved.

`SelectSeq`, `SortSeq` and `FlattenSeq` cannot be expanded by the prover either; where a
proof needs them, the model has the loop as a function (`KeepAt`, `Joined`) or says what
its result is (`Indexed`).

## 6. Abstractions

Left out everywhere: texts, formatting, logging, identifiers, clocks. Of the engine: the
prompt and metadata checks that fail before the engine is touched, the memory estimate
of the handle and token counts. The commands `UpdateStats` and `CheckIdle` of the
monitor are never sent. Of the queue: averages, percentiles and `total_queued`, which is
recomputed from the queues. Of the response cache: hit counters and hashing of keys; the
DashMap's own operations are taken as atomic. Of the key-value cache: tensors become
tokens, errors of the tensor library and a cache dropped without clear are not modelled.
Of the orchestrator: the map of results, tasks that panic, and the step timeout, which
cannot fire because a step runs its command without an await; retries are configured but
not implemented by the code. Of the state manager: the results of steps, which change
along the same path as the status.

Of the limiter: fractions of a token, which admit nobody. Of the proxy: addresses,
headers and bodies; the backoff is kept. Of the downloads and the store: bytes
become chunks, and of a database only the row of one name is kept. Of GGUF: a
name or a text of n bytes is the number n, and is valid UTF-8; the data behind the
tensors' entries are neither read nor written by this code. Of the metrics:
percentiles and averages; a latency is counted, not kept. Of the memory: embeddings
and the search by similarity. Of the worker: prompts and results; of a session all
but tokens and whether a message must be kept. Of the sampler: temperatures other
than 0 and 1, which change the distances between logits that vary anyway, and
rounding. Of the grammar: regular expressions, for which the code allows every
token. Of the swarm: the score NaN, which the code takes for
equal to every other (`swarm.rs:187`). Of the fleet: names, addresses and models of devices.
Of the terminal: drawing, frames per second, the theme and the welcome
message; the name of a command is typed as one word.

External, and modelled from the way the code uses them: the backend, the agents, the
tools of quantization, the language model, the remote servers and the network, the
file system, the clock, `serde_json`, and the end of a process. They are marked
"external" in the map.

## 7. Not modelled

- Command line (`cli/`), OpenAI, Ollama and Anthropic routes (`api/`), formats of the
  providers in `model/remote.rs`: they convert arguments and bodies and print.
- `workflow/parser.rs`, `workflow/discovery.rs`, `config/`, `error.rs`, `logging.rs`,
  `model/source.rs`: field by field conversion and parsing of text.
- `model/merging.rs`, `model/delta.rs`, `quantization/gguf_codec.rs`,
  `quantization/optimizer.rs`, `rag/embeddings.rs`, `rag/retriever.rs`,
  `devices/correlator.rs`: floating point arithmetic without shared state, where an
  abstraction to small integers would say nothing about the code.
- `inference/cpu/engine.rs`, `inference/gpu/`, `inference/wasm_runtime.rs`: tensor
  computations, and stubs that return errors.
- `compatibility/`, `layer/`, `scanner/`, `security/`, `system.rs`, `platform/`,
  `model/recommender.rs`: reports, pattern matching and detection of hardware.
- `agents/lane.rs`, `failure.rs`, `task_packet.rs`, `permissions.rs`,
  `bash_validator.rs`, `branch_awareness.rs`, `diagnostics.rs`: records, tables and
  classifications that only their tests call. The methods of a lane set its state
  without looking at the present one, so there is no protocol to check.
- `mcp/`, `plugins/`, `k8s/`: handlers that are `todo!()`, in-memory collections used by
  one task, generated manifests.
- Discord, Matrix, Slack and Telegram in `channels/`, and `devices/`: clients of
  external services.
- `ui/`, `ui_dioxus/`, `tui/render.rs`, `tui/widgets.rs`: presentation.

What remains worth doing: once `Drop` of a pooled connection and the lock of the state
manager are repaired, the branches of `Pools` and `WorkflowState` that are dead today.
