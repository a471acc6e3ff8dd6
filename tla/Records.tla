------------------------------ MODULE Records ------------------------------
(***************************************************************************)
(* The parts that record what the others do and show it: the fleet of      *)
(* devices, the worker and the session of agents with their files, the     *)
(* history of workflow executions, the metrics of requests, the two stores *)
(* of conversations, the swarm of agents and the terminal interface.  They *)
(* share no state.                                                         *)
(***************************************************************************)
EXTENDS Fleet, AgentWorker, Metrics

CONSTANTS
  Ids, Tokens, MaxMessages,  \* of AgentSession
  Executions, MaxRecent,     \* of HistoryLog
  Contents, Limit,           \* of ConversationMemory and ChatSessions
  AgentCount, Answers, Scores,      \* of AgentSwarm
  Top, MaxHistory, Words, MaxTyped  \* of TerminalUi

VARIABLES
  current, live, stored, saving,
  log, summary, recording, success, held, disturbed, order,
  entries, chatState, messages,
  strategy, asked, outputs, consensus,
  mode, tab, options, offset, commandInput, input, chat, shouldQuit

Session == INSTANCE AgentSession
History == INSTANCE HistoryLog
Mem     == INSTANCE ConversationMemory WITH Sessions <- Ids, MaxEntries <- Limit
Chats   == INSTANCE ChatSessions WITH Messages <- Contents, MaxHistory <- Limit,
                                      state <- chatState
Swarm   == INSTANCE AgentSwarm
Ui      == INSTANCE TerminalUi

\* What an agent leaves in its files can be trusted by its successor.
StoredIsSound == RecoveredIsHeld /\ Session!TotalsAgree

\* What is recorded adds up: the history of executions that were not disturbed is
\* kept, and what a snapshot of the metrics exports agrees with itself.
RecordsAddUp == History!HistoryKept /\ SnapshotAddsUp

\* What a user and an agent are shown: no output stands against the one a swarm
\* chose, and the modes and messages of the terminal agree.
ShownIsSound == Swarm!SwarmSound /\ Ui!TerminalSound

\* Both conversation stores, the one that scans a common list and the one with a
\* list for each session, keep a window of the last messages of each session.
ImplementsWindow == Mem!Window!Spec /\ Chats!Window!Spec
=============================================================================
