--------------------------- MODULE WorkflowState ---------------------------
(***************************************************************************)
(* The WorkflowStateManager of workflow/state.rs: the executions in memory *)
(* under one RwLock, and a file for each of them.  Tokio's RwLock is not   *)
(* reentrant: a task that holds the write lock and asks for the read lock  *)
(* waits for itself.  Of an execution only its status is kept; the results *)
(* of its steps change under the same lock and along the same path.        *)
(***************************************************************************)
EXTENDS FiniteSets

CONSTANTS
  Tasks,    \* tasks that call the manager
  Ids,      \* execution ids
  NoTask    \* the lock is not held for writing

Statuses == {"Pending", "Running", "Completed", "Failed", "Cancelled"}

VARIABLES
  executions,  \* executions[e]: status of the execution in memory, or "absent"
  files,       \* files[e]: status in the file of e, "torn", or "absent"
  writer,      \* the task that holds the write lock
  pc,          \* position of each task in its call
  call,        \* call[t]: operation, execution and status of t's last call; in
               \*   recover_executions the execution and status of the file loaded
  toRecover    \* toRecover[t]: files that recover_executions has still to load

vars == <<executions, files, writer, pc, call, toRecover>>

NoCall == [op |-> "none", id |-> "none", status |-> "none"]

\* An earlier process has left some files, one cut off perhaps.
Init ==
  /\ executions = [e \in Ids |-> "absent"]
  /\ files \in [Ids -> Statuses \cup {"absent", "torn"}]
  /\ writer = NoTask
  /\ pc = [t \in Tasks |-> "idle"]
  /\ call = [t \in Tasks |-> NoCall]
  /\ toRecover = [t \in Tasks |-> {}]

Goto(t, next) == pc' = [pc EXCEPT ![t] = next]

-----------------------------------------------------------------------------
Calls ==
  [op : {"initialize"}, id : Ids, status : {"Pending"}]
    \cup [op : {"update"}, id : Ids, status : Statuses]
    \cup [op : {"get", "cleanup", "recover"}, id : Ids, status : {"none"}]

\* A task calls an operation and waits for the lock it needs first.
Begin(t, c) ==
  /\ pc[t] = "idle"
  /\ call' = [call EXCEPT ![t] = c]
  /\ toRecover' = [toRecover EXCEPT ![t] =
       IF c.op = "recover" THEN {e \in Ids : files[e] # "absent"} ELSE {}]
  /\ Goto(t, c.op)
  /\ UNCHANGED <<executions, files, writer>>

\* get_execution_state and list_active_executions: the read lock is released
\* on return.
Get(t) ==
  /\ pc[t] = "get" /\ writer = NoTask
  /\ Goto(t, "idle")
  /\ UNCHANGED <<executions, files, writer, call, toRecover>>

\* initialize_execution up to the call of persist_execution_state.
Initialize(t) ==
  /\ pc[t] = "initialize" /\ writer = NoTask
  /\ writer' = t
  /\ executions' = [executions EXCEPT ![call[t].id] = "Pending"]
  /\ Goto(t, "persist")
  /\ UNCHANGED <<files, call, toRecover>>

\* update_step_status, set_current_step, set_execution_status and
\* cancel_execution: an unknown execution is an error and releases the lock.
Update(t) ==
  /\ pc[t] = "update" /\ writer = NoTask
  /\ IF executions[call[t].id] = "absent"
     THEN Goto(t, "idle") /\ UNCHANGED <<executions, writer>>
     ELSE /\ writer' = t
          /\ executions' = [executions EXCEPT ![call[t].id] = call[t].status]
          /\ Goto(t, "persist")
  /\ UNCHANGED <<files, call, toRecover>>

\* persist_execution_state takes the read lock of its own, while the caller
\* still holds its write guard; the guard is dropped when the caller returns.
\* The write may fail, before or after it has cut the file, which is an error.
Persist(t) ==
  /\ pc[t] = "persist" /\ writer = NoTask
  /\ files' \in {files} \cup
       {[files EXCEPT ![call[t].id] = f] : f \in {"torn", executions[call[t].id]}}
  /\ writer' = NoTask
  /\ Goto(t, "idle")
  /\ UNCHANGED <<executions, call, toRecover>>

\* cleanup_execution: the file is removed under the write lock, or cannot be,
\* which is an error.
Cleanup(t) ==
  /\ pc[t] = "cleanup" /\ writer = NoTask
  /\ executions' = [executions EXCEPT ![call[t].id] = "absent"]
  /\ \/ UNCHANGED files
     \/ /\ executions[call[t].id] # "absent"
        /\ files' = [files EXCEPT ![call[t].id] = "absent"]
  /\ Goto(t, "idle")
  /\ UNCHANGED <<writer, call, toRecover>>

\* recover_executions loads the files of the directory one by one, without a
\* lock; a file that is gone by then is skipped, and one that cannot be read or
\* parsed ends the call.
LoadFile(t) ==
  /\ pc[t] = "recover"
  /\ \/ /\ toRecover[t] = {}
        /\ Goto(t, "idle")
        /\ UNCHANGED <<call, toRecover>>
     \/ \E e \in toRecover[t] :
          /\ toRecover' = [toRecover EXCEPT ![t] = @ \ {e}]
          /\ \/ files[e] = "absent" /\ UNCHANGED <<pc, call>>
             \/ files[e] # "absent" /\ Goto(t, "idle") /\ UNCHANGED call
             \/ /\ files[e] \in Statuses
                /\ call' = [call EXCEPT ![t].id = e, ![t].status = files[e]]
                /\ Goto(t, "insert")
  /\ UNCHANGED <<executions, files, writer>>

\* What was loaded is inserted under the write lock, whatever has happened to the
\* execution and its file meanwhile.
InsertLoaded(t) ==
  /\ pc[t] = "insert" /\ writer = NoTask
  /\ executions' = [executions EXCEPT ![call[t].id] = call[t].status]
  /\ Goto(t, "recover")
  /\ UNCHANGED <<files, writer, call, toRecover>>

Proceed(t) ==
  \/ Get(t) \/ Initialize(t) \/ Update(t) \/ Persist(t) \/ Cleanup(t)
  \/ LoadFile(t) \/ InsertLoaded(t)

Next == \E t \in Tasks : Proceed(t) \/ \E c \in Calls : Begin(t, c)

\* The lock is fair and the tasks are scheduled.
FairSpec == Init /\ [][Next]_vars /\ \A t \in Tasks : SF_vars(Proceed(t))

-----------------------------------------------------------------------------
\* state.rs:105 and state.rs:144, "Persist to disk" and "Persist changes": the
\* call that changes an execution writes its file and returns.  It never does.
ChangesArePersisted == \A t \in Tasks : pc[t] = "persist" ~> pc[t] = "idle"
=============================================================================
