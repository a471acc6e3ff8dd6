------------------------ MODULE WorkflowOrchestrator ------------------------
(***************************************************************************)
(* One execution of a workflow by workflow/executor.rs: the loop that      *)
(* spawns the steps whose dependencies are done and joins them one by one, *)
(* and the spawned tasks, which report to the state manager themselves.    *)
(*                                                                         *)
(* A call of the state manager may return Ok, an error, when the state     *)
(* file cannot be written, or not at all (WorkflowState models its lock).  *)
(* The commands the steps execute are external: they succeed or fail.      *)
(* They run without an await, so the timeout of a step cannot interrupt    *)
(* one.                                                                    *)
(*                                                                         *)
(* A step is its position in the workflow.  The code goes by its id, which *)
(* nothing checks to be unique: an id is represented by the first position *)
(* that has it.  The workflow may be any graph, also one with cycles, with *)
(* repeated ids and with dependencies no step has the id of.               *)
(***************************************************************************)
EXTENDS Integers, Sequences, FiniteSets, SequencesExt

CONSTANTS
  NSteps,        \* number of steps
  MaxConcurrent  \* max_concurrent_steps

ASSUME OrchestratorAssumption == NSteps \in Nat /\ MaxConcurrent \in Nat \ {0}

Steps == 1..NSteps

Unknown == 0     \* an id that no step has

VARIABLES
  idOf,        \* idOf[s]: the id of step s
  dependsOn,   \* dependsOn[s]: the ids that s depends on
  phase,       \* of execute_workflow
  pending,     \* pending_steps: the steps whose ids are queued
  running,     \* running_tasks: the step whose task is held under an id, or 0
  awaited,     \* the id whose task wait_for_next_completion awaits, or 0
  completed,   \* completed_steps: ids
  task,        \* task[s]: progress of the task that the queueing of s led to
  status,      \* the status of the execution at the state manager
  stepStatus   \* stepStatus[i]: the status of the id i there

workflow == <<idOf, dependsOn>>
loopVars == <<phase, pending, running, awaited, completed>>
vars == <<workflow, loopVars, task, status, stepStatus>>

Keys(S) == {idOf[s] : s \in S}

Live == {i \in Steps : running[i] # 0}

IsWorkflow ==
  /\ idOf \in [Steps -> Steps]
  /\ \A s \in Steps : idOf[s] <= s /\ idOf[idOf[s]] = idOf[s]
  /\ dependsOn \in [Steps -> SUBSET (Keys(Steps) \cup {Unknown})]

Init ==
  /\ idOf \in [Steps -> Steps]
  /\ \A s \in Steps : idOf[s] <= s /\ idOf[idOf[s]] = idOf[s]
  /\ dependsOn \in [Steps -> SUBSET (Keys(Steps) \cup {Unknown})]
  /\ phase = "start"
  /\ pending = <<>>
  /\ running = [i \in Steps |-> 0]
  /\ awaited = 0
  /\ completed = {}
  /\ task = [s \in Steps |-> "none"]
  /\ status = "Pending"
  /\ stepStatus = [i \in Steps |-> "Pending"]

\* The steps of S in the order of the workflow: a set with this one sequence.
Ordered(S) ==
  {q \in [1..Cardinality(S) -> S] : \A i, j \in DOMAIN q : i < j => q[i] < q[j]}

-----------------------------------------------------------------------------
\* initialize_execution, whose error is returned.
Initialize ==
  /\ phase = "start"
  /\ phase' \in {"initialized", "aborted"}
  /\ UNCHANGED <<workflow, pending, running, awaited, completed, task, status, stepStatus>>

\* set_execution_status(Running), which changes the status before it persists it,
\* the dependency graph and the steps to begin with.  The error of the call, or of
\* an unknown dependency, is returned: the status stays.
SetRunning ==
  /\ phase = "initialized"
  /\ status' = "Running"
  /\ \/ phase' = "aborted" /\ UNCHANGED pending
     \/ /\ \A s \in Steps : Unknown \notin dependsOn[s]
        /\ phase' = "loop"
        /\ pending' \in Ordered({s \in Steps : dependsOn[s] = {}})
  /\ UNCHANGED <<workflow, running, awaited, completed, task, stepStatus>>

\* Fault: the loop ends when nothing is left to spawn.
DoneWhenNonePending == pending = <<>>

\* Fault: the loop ends when all is done, which on a cycle it never is.
DoneWhenAllCompleted == completed = Keys(Steps)

Done == pending = <<>> /\ Live = {}

\* Fault: one task more than the limit.
RoomForOneMore == Cardinality(Live) <= MaxConcurrent

HasRoom == Cardinality(Live) < MaxConcurrent

\* The first pending step is spawned while there is room.  Its task runs the first
\* step that has its id, and detaches a task that is held under the same id.
Spawn ==
  /\ phase = "loop" /\ awaited = 0 /\ pending # <<>> /\ HasRoom
  /\ running' = [running EXCEPT ![idOf[Head(pending)]] = Head(pending)]
  /\ task' = [task EXCEPT ![Head(pending)] = "spawned"]
  /\ pending' = Tail(pending)
  /\ UNCHANGED <<workflow, phase, awaited, completed, status, stepStatus>>

\* wait_for_next_completion takes any one of the tasks that are held.
Await ==
  /\ phase = "loop" /\ awaited = 0 /\ (pending = <<>> \/ ~HasRoom)
  /\ awaited' \in Live
  /\ UNCHANGED <<workflow, phase, pending, running, completed, task, status, stepStatus>>

\* Fault: one finished dependency is enough.
ReadyByAny(done, live) ==
  {s \in Steps :
     /\ idOf[s] \notin done \cup live \cup Keys(ToSet(pending))
     /\ dependsOn[s] = {} \/ dependsOn[s] \cap done # {}}

\* Fault: steps that are running are not excluded.
ReadyWhileRunning(done, live) ==
  {s \in Steps :
     /\ idOf[s] \notin done \cup Keys(ToSet(pending))
     /\ dependsOn[s] \subseteq done}

\* The steps that can be executed once `done` are completed and `live` run.
Ready(done, live) ==
  {s \in Steps :
     /\ idOf[s] \notin done \cup live \cup Keys(ToSet(pending))
     /\ dependsOn[s] \subseteq done}

\* Of the steps of an id only the first is queued: then the id is pending.
FirstOfId(S) == {s \in S : \A t \in S : idOf[t] = idOf[s] => s <= t}

\* The awaited task returned a result, of a step that completed or failed.
Join ==
  /\ phase = "loop" /\ awaited # 0
  /\ task[running[awaited]] = "ok"
  /\ completed' = completed \cup {awaited}
  /\ running' = [running EXCEPT ![awaited] = 0]
  /\ \E ready \in Ordered(FirstOfId(Ready(completed', Live'))) : pending' = pending \o ready
  /\ awaited' = 0
  /\ UNCHANGED <<workflow, phase, task, status, stepStatus>>

\* The awaited task returned an error: the loop is left, and the handles of the
\* other tasks are dropped, which detaches the tasks.
JoinFails ==
  /\ phase = "loop" /\ awaited # 0
  /\ task[running[awaited]] = "error"
  /\ phase' = "failing"
  /\ awaited' = 0
  /\ UNCHANGED <<workflow, pending, running, completed, task, status, stepStatus>>

LoopEnds ==
  /\ phase = "loop" /\ awaited = 0 /\ Done
  /\ phase' = "completing"
  /\ UNCHANGED <<workflow, pending, running, awaited, completed, task, status, stepStatus>>

\* execution_timeout: the future of the loop is dropped at its await.
TimeOut ==
  /\ phase = "loop" /\ awaited # 0
  /\ phase' = "failing"
  /\ awaited' = 0
  /\ UNCHANGED <<workflow, pending, running, completed, task, status, stepStatus>>

\* The final set_execution_status, which may fail after it changed the status.
Finish ==
  /\ \/ phase = "completing" /\ phase' \in {"completed", "aborted"} /\ status' = "Completed"
     \/ phase = "failing" /\ phase' \in {"failed", "aborted"} /\ status' = "Failed"
  /\ UNCHANGED <<workflow, pending, running, awaited, completed, task, stepStatus>>

-----------------------------------------------------------------------------
TaskGoes(s, here, next) == task[s] = here /\ task' = [task EXCEPT ![s] = next]

\* set_current_step; the current step is not kept here.
BeginStep(s) ==
  /\ TaskGoes(s, "spawned", "acting") \/ TaskGoes(s, "spawned", "error")
  /\ UNCHANGED <<workflow, loopVars, status, stepStatus>>

\* The action ends, well or not.
Act(s) ==
  /\ \E outcome \in {"Completed", "Failed"} : TaskGoes(s, "acting", outcome)
  /\ UNCHANGED <<workflow, loopVars, status, stepStatus>>

\* update_step_status changes the map before it persists it, so the step's
\* status is set also when the call fails.
Report(s) ==
  /\ task[s] \in {"Completed", "Failed"}
  /\ stepStatus' = [stepStatus EXCEPT ![idOf[s]] = task[s]]
  /\ \E result \in {"ok", "error"} : task' = [task EXCEPT ![s] = result]
  /\ UNCHANGED <<workflow, loopVars, status>>

\* What execute_workflow does by itself, and in calls of the state manager.
LoopStep    == Spawn \/ Await \/ Join \/ JoinFails \/ LoopEnds
ManagerStep == Initialize \/ SetRunning \/ Finish
TaskStep(s) == BeginStep(s) \/ Act(s) \/ Report(s)

Next == LoopStep \/ ManagerStep \/ TimeOut \/ \E s \in Steps : TaskStep(s)

Spec == Init /\ [][Next]_vars

\* The future of execute_workflow is polled, and the commands that steps run end.
\* Nothing is assumed of the calls of the state manager.
FairSpec == Spec /\ WF_vars(LoopStep) /\ \A s \in Steps : WF_vars(Act(s))

-----------------------------------------------------------------------------
TaskStates == {"none", "spawned", "acting", "Completed", "Failed", "ok", "error"}

\* Types; at most max_concurrent_steps tasks are held, each under its id.
TypeOK ==
  /\ IsWorkflow
  /\ phase \in {"start", "initialized", "loop", "completing", "completed",
                "failing", "failed", "aborted"}
  /\ pending \in Seq(Steps) /\ IsInjective(pending)
  /\ running \in [Steps -> Steps \cup {0}] /\ Cardinality(Live) <= MaxConcurrent
  /\ \A i \in Live : idOf[running[i]] = i /\ task[running[i]] # "none"
  /\ awaited \in Live \cup {0}
  /\ completed \subseteq Steps
  /\ task \in [Steps -> TaskStates]
  /\ status \in {"Pending", "Running", "Completed", "Failed"}
  /\ stepStatus \in [Steps -> {"Pending", "Completed", "Failed"}]

\* However its neighbours finish and are joined, a step is spawned once, and so is
\* an id, but for that of several steps without dependencies, each of which is.
SpawnedOnce ==
  [][\A s \in Steps : task'[s] = "spawned" /\ task[s] # "spawned" =>
       /\ task[s] = "none"
       /\ \A t \in Steps \ {s} : idOf[t] = idOf[s] /\ task[t] # "none" =>
            dependsOn[s] = {} /\ dependsOn[t] = {}]_vars

\* A step is spawned only after everything it depends on has reported its status.
\* (What runs is the first step of its id; where that is another, the dependencies
\* of that one have not been looked at.)
DependenciesReportedFirst ==
  \A s \in Steps : task[s] # "none" => \A d \in dependsOn[s] : stepStatus[d] # "Pending"

Acyclic ==
  \A S \in SUBSET Steps \ {{}} : \E s \in S : dependsOn[s] \cap Keys(S) = {}

\* An execution of an acyclic workflow that is reported as Completed ran every
\* id to its report.  (On a cycle it completes without the steps of the cycle.)
CompletedRanAll ==
  status = "Completed" /\ Acyclic => \A s \in Steps : stepStatus[idOf[s]] # "Pending"

\* The execution, or the task it awaits, is in a call of the state manager.
AwaitsManager ==
  \/ phase \in {"start", "initialized", "completing", "failing"}
  \/ /\ phase = "loop" /\ awaited # 0
     /\ task[running[awaited]] \in {"spawned", "Completed", "Failed"}

\* Whatever its graph and whatever its steps do, the execution ends, unless a call
\* of the state manager, its own or that of a task it awaits, does not return.
ExecutionEnds == <>[](phase \in {"completed", "failed", "aborted"} \/ AwaitsManager)
=============================================================================
