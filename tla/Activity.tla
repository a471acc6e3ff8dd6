------------------------------ MODULE Activity ------------------------------
(***************************************************************************)
(* What runs and records work: an execution of a workflow, the history its *)
(* executions leave, the metrics of requests, the conversations that are   *)
(* remembered, the worker, the session and the swarm of agents, the fleet  *)
(* of devices, and the terminal a user works at.  They share no state, so  *)
(* each behaviour exercises the one `part` selects.                        *)
(***************************************************************************)
EXTENDS WorkflowOrchestrator, Records

VARIABLE part

historyVars == <<log, summary, recording, success, held, disturbed, order>>
chatVars    == <<chatState, messages>>
sessionVars == <<current, live, stored, saving>>
swarmVars   == <<strategy, asked, outputs, consensus>>
uiVars      == <<mode, tab, options, offset, commandInput, input, chat, shouldQuit>>
mcVars == <<part, vars, historyVars, metricsVars, entries, chatVars, workerVars,
            sessionVars, fleetVars, swarmVars, uiVars>>

ASSUME ActivityAssumption ==
  /\ History!HistoryAssumption /\ MetricsAssumption /\ Mem!MemoryAssumption
  /\ Chats!ChatAssumption /\ WorkerAssumption /\ Session!SessionAssumption /\ FleetAssumption
  /\ Swarm!SwarmAssumption /\ Ui!TerminalAssumption

PartNames == {"workflow", "history", "metrics", "memory", "chats", "worker", "sessions",
          "fleet", "swarm", "terminal"}

\* Executions differ in nothing but their success, so that it does not matter which
\* of them succeed, only how many.
Number == CHOOSE n \in [Executions -> 1..Cardinality(Executions)] : IsInjective(n)
FirstSucceed == \A d, e \in Executions : Number[d] < Number[e] /\ success[e] => success[d]

\* Where a part does not move, one of its initial states is enough.
ActivityInit ==
  /\ part \in PartNames
  /\ part # "workflow" =>
       /\ idOf = [s \in Steps |-> s]
       /\ dependsOn = [s \in Steps |-> {}]
  /\ Init
  /\ History!HistoryInit /\ FirstSucceed /\ (part # "history" => \A e \in Executions : success[e])
  /\ MetricsInit
  /\ part # "metrics" => \A r \in Requests : job[r] = CHOOSE j \in Jobs : TRUE
  /\ Mem!MemoryInit /\ Chats!ChatInit /\ WorkerInit
  /\ Session!SessionInit /\ (part # "sessions" => current = CHOOSE i \in Ids : TRUE)
  /\ FleetInit
  /\ Swarm!SwarmInit /\ (part # "swarm" => strategy = "BestScore")
  /\ Ui!TerminalInit

Stays(p) ==
  CASE p = "workflow" -> UNCHANGED vars
    [] p = "history"  -> UNCHANGED historyVars
    [] p = "metrics"  -> UNCHANGED metricsVars
    [] p = "memory"   -> UNCHANGED entries
    [] p = "chats"    -> UNCHANGED chatVars
    [] p = "worker"   -> UNCHANGED workerVars
    [] p = "sessions" -> UNCHANGED sessionVars
    [] p = "fleet"    -> UNCHANGED fleetVars
    [] p = "swarm"    -> UNCHANGED swarmVars
    [] p = "terminal" -> UNCHANGED uiVars

Of(p, A) == part = p /\ A /\ UNCHANGED part /\ \A q \in PartNames \ {p} : Stays(q)

ActivityNext ==
  \/ Of("workflow", Next)
  \/ Of("history", History!HistoryNext)
  \/ Of("metrics", MetricsNext)
  \/ Of("memory", Mem!MemoryNext)
  \/ Of("chats", Chats!ChatNext)
  \/ Of("worker", WorkerNext)
  \/ Of("sessions", Session!SessionNext)
  \/ Of("fleet", FleetNext)
  \/ Of("swarm", Swarm!SwarmNext)
  \/ Of("terminal", Ui!TerminalNext)

\* The fairness of an execution (see FairSpec).
FairActivity ==
  /\ ActivityInit /\ [][ActivityNext]_mcVars
  /\ WF_mcVars(Of("workflow", LoopStep))
  /\ \A s \in Steps : WF_mcVars(Of("workflow", Act(s)))

-----------------------------------------------------------------------------
TypesOK ==
  /\ TypeOK /\ History!HistoryTypeOK /\ MetricsTypeOK
  /\ Mem!MemoryTypeOK /\ Chats!ChatTypeOK
  /\ WorkerTypeOK /\ Session!SessionTypeOK /\ FleetTypeOK
  /\ Swarm!SwarmTypeOK /\ Ui!TerminalTypeOK

WorkflowEnds == part = "workflow" => ExecutionEnds
=============================================================================
