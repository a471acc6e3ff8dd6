----------------------------- MODULE AgentWorker -----------------------------
(***************************************************************************)
(* The worker of agents/worker.rs: its states and the file it keeps them   *)
(* in.  A transition changes the state in memory first and then writes the *)
(* file, which may fail before the file is touched, or after it was        *)
(* emptied; the worker keeps its new state either way.  The process may    *)
(* end between any two steps; its successor begins a new worker, or takes  *)
(* up the state it can load.  Prompts, results and failures are left out.  *)
(***************************************************************************)
EXTENDS Integers

CONSTANTS
  Tasks,          \* task ids
  MaxRestarts     \* bound: how often the process ends

WorkerAssumption == MaxRestarts \in Nat

VARIABLES
  state,      \* the state of the worker
  file,       \* the state file: a state, or Missing, or Torn
  writing,    \* how far persist_state is
  answer,     \* what the last transition returned: "ok" or "error"
  reached,    \* history: the states the worker was in, over all its processes
  restarts

workerVars == <<state, file, writing, answer, reached, restarts>>

At(name, task) == [name |-> name, task |-> task]
None    == {}            \* no task
Missing == At("missing", None)
Torn    == At("torn", None)

Spawning == At("spawning", None)

WorkerInit ==
  /\ state = Spawning
  /\ file = Missing
  /\ writing = "no" /\ answer = "ok"
  /\ reached = {Spawning}
  /\ restarts = 0

Terminal == state.name \in {"finished", "failed"}

-----------------------------------------------------------------------------
\* A transition that the state allows; any other call returns an error.
Becomes(from, next) ==
  /\ writing = "no" /\ state.name \in from
  /\ state' = next
  /\ reached' = reached \cup {next}
  /\ writing' = "open"
  /\ UNCHANGED <<file, answer, restarts>>

RequireTrust    == Becomes({"spawning"}, At("trust_required", None))
MarkReady       == Becomes({"spawning", "trust_required"}, At("ready_for_prompt", None))
AcceptPrompt(t) == Becomes({"ready_for_prompt"}, At("prompt_accepted", {t}))
StartRunning    == Becomes({"prompt_accepted"}, At("running", state.task))
FinishTask      == Becomes({"running"}, At("finished", state.task))
Fail            == ~Terminal /\ Becomes({state.name}, At("failed", None))

-----------------------------------------------------------------------------
\* Fault: the error of a failed write is dropped.
OpenFileSwallows ==
  /\ writing = "open"
  /\ \/ file' = Torn /\ writing' = "fill" /\ UNCHANGED answer
     \/ writing' = "no" /\ answer' = "ok" /\ UNCHANGED file
  /\ UNCHANGED <<state, reached, restarts>>

\* The file is emptied as it is opened, unless it or its directory cannot be.
OpenFile ==
  /\ writing = "open"
  /\ \/ file' = Torn /\ writing' = "fill" /\ UNCHANGED answer
     \/ writing' = "no" /\ answer' = "error" /\ UNCHANGED file
  /\ UNCHANGED <<state, reached, restarts>>

FillFile ==
  /\ writing = "fill"
  /\ writing' = "no"
  /\ \/ file' = state /\ answer' = "ok"
     \/ answer' = "error" /\ UNCHANGED file
  /\ UNCHANGED <<state, reached, restarts>>

\* load_state, or a new worker where the file cannot be read or parsed.
LoadState == IF file \in {Missing, Torn} THEN Spawning ELSE file

Restart ==
  /\ restarts < MaxRestarts
  /\ restarts' = restarts + 1
  /\ state' = LoadState
  /\ reached' = reached \cup {LoadState}
  /\ writing' = "no" /\ answer' = "ok"
  /\ UNCHANGED file

WorkerNext ==
  \/ RequireTrust \/ MarkReady \/ (\E t \in Tasks : AcceptPrompt(t))
  \/ StartRunning \/ FinishTask \/ Fail
  \/ OpenFile \/ FillFile
  \/ Restart

WorkerSpec == WorkerInit /\ [][WorkerNext]_workerVars

-----------------------------------------------------------------------------
States == [name : {"spawning", "trust_required", "ready_for_prompt", "prompt_accepted",
                   "running", "finished", "failed"},
           task : {None} \cup {{t} : t \in Tasks}]

WorkerTypeOK ==
  /\ state \in States
  /\ file \in States \cup {Missing, Torn}
  /\ writing \in {"no", "open", "fill"}
  /\ answer \in {"ok", "error"}
  /\ reached \subseteq States
  /\ restarts \in 0..MaxRestarts

\* What a successor takes up: never a state that no worker was in, wherever the
\* writing was cut; and after a transition that returned Ok just the state it led
\* to, however many before it failed to be written.
RecoveredIsHeld ==
  /\ LoadState \in reached
  /\ writing = "no" /\ answer = "ok" => LoadState = state
=============================================================================
