----------------------------- MODULE HistoryLog -----------------------------
(***************************************************************************)
(* WorkflowHistoryManager of workflow/history.rs: executions of one        *)
(* workflow on one day, recorded in the log of the day and then in the     *)
(* summary of the workflow.  Each file is read and written back whole,     *)
(* without a lock.  A write empties the file before it fills it, so a      *)
(* reader may find it empty; of two writes at once the one that fills the  *)
(* file last overlays the other, whose tail may stay.  A clean-up may take *)
(* the log away at any time.  A call is stopped between any two steps by   *)
(* an error or the end of the process.                                     *)
(* Durations and dates are left out.                                       *)
(***************************************************************************)
EXTENDS Integers, Sequences, FiniteSets, SequencesExt

CONSTANTS
  Executions,   \* executions, each recorded once
  MaxRecent     \* recent executions a summary keeps: 10

HistoryAssumption ==
  /\ IsFiniteSet(Executions)
  /\ MaxRecent \in Nat

VARIABLES
  log,          \* lines of the log file; Garbage is a line no record can be read from
  summary,      \* contents of the summary file
  recording,    \* recording[e]: how far record_execution is
  success,      \* success[e]: whether e succeeded
  held,         \* held[e]: what the call read and is about to write
  disturbed,    \* history: two calls overlapped, one was stopped, or the log was
                \*   removed under one that was about to write it
  order         \* history: the executions in the order their records were written

historyVars == <<log, summary, recording, success, held, disturbed, order>>

Garbage == [garbage |-> TRUE]
Line(e) == [record |-> e]

\* WorkflowSummary::default; Unreadable is what serde_json cannot parse.
Empty      == [total |-> 0, ok |-> 0, failed |-> 0, recent |-> <<>>]
Unreadable == [torn |-> TRUE]
Nothing    == [none |-> TRUE]

HistoryInit ==
  /\ log = <<>>
  /\ summary = Empty
  /\ recording = [e \in Executions |-> "new"]
  /\ success \in [Executions -> BOOLEAN]
  /\ held = [e \in Executions |-> Nothing]
  /\ disturbed = FALSE
  /\ order = <<>>

Goes(e, here, next) == recording[e] = here /\ recording' = [recording EXCEPT ![e] = next]
Holds(e, what)      == held' = [held EXCEPT ![e] = what]

InProgress(e) == recording[e] \notin {"new", "done"}

-----------------------------------------------------------------------------
\* save_to_daily_log: the lines that are there (none if there is no file) ...
ReadLog(e) ==
  /\ Goes(e, "new", "emptyLog")
  /\ Holds(e, log \o <<Line(e)>>)
  /\ disturbed' = (disturbed \/ \E f \in Executions : InProgress(f))
  /\ UNCHANGED <<log, summary, success, order>>

EmptyLog(e) ==
  /\ Goes(e, "emptyLog", "fillLog")
  /\ log' = <<>>
  /\ UNCHANGED <<summary, success, held, disturbed, order>>

\* ... are written back with the record.  Where another call filled the file
\* since it was emptied, the end of its lines may stand behind these.
Overlaid(new, old) ==
  {new} \cup {new \o cut \o SubSeq(old, i, Len(old)) :
                cut \in {<<>>, <<Garbage>>}, i \in 2..Len(old) + 1}

FillLog(e) ==
  /\ Goes(e, "fillLog", "readSummary")
  /\ log' \in Overlaid(held[e], log)
  /\ Holds(e, Nothing)
  /\ order' = Append(order, e)
  /\ UNCHANGED <<summary, success, disturbed>>

\* The file this call has open was removed, and so is what the call writes.
FillRemovedLog(e) ==
  /\ Goes(e, "fillRemoved", "readSummary")
  /\ Holds(e, Nothing)
  /\ UNCHANGED <<log, summary, success, disturbed, order>>

-----------------------------------------------------------------------------
\* update_workflow_summary: what cannot be read counts as no summary.
Readable(s) == IF s = Unreadable THEN Empty ELSE s

\* Fault: the list of recent executions is not cut.
UpdatedUncut(s, e) ==
  [total  |-> s.total + 1,
   ok     |-> IF success[e] THEN s.ok + 1 ELSE s.ok,
   failed |-> IF success[e] THEN s.failed ELSE s.failed + 1,
   recent |-> <<e>> \o s.recent]

Updated(s, e) ==
  [total  |-> s.total + 1,
   ok     |-> IF success[e] THEN s.ok + 1 ELSE s.ok,
   failed |-> IF success[e] THEN s.failed ELSE s.failed + 1,
   recent |-> SubSeq(<<e>> \o s.recent, 1,
                     IF Len(s.recent) < MaxRecent THEN Len(s.recent) + 1 ELSE MaxRecent)]

ReadSummary(e) ==
  /\ Goes(e, "readSummary", "emptySummary")
  /\ Holds(e, Updated(Readable(summary), e))
  /\ UNCHANGED <<log, summary, success, disturbed, order>>

EmptySummary(e) ==
  /\ Goes(e, "emptySummary", "fillSummary")
  /\ summary' = Unreadable
  /\ UNCHANGED <<log, success, held, disturbed, order>>

\* A longer summary under this one leaves trailing characters.
FillSummary(e) ==
  /\ Goes(e, "fillSummary", "done")
  /\ summary' \in {held[e]} \cup (IF summary = Unreadable THEN {} ELSE {Unreadable})
  /\ Holds(e, Nothing)
  /\ UNCHANGED <<log, success, disturbed, order>>

Stop(e) ==
  /\ InProgress(e)
  /\ recording' = [recording EXCEPT ![e] = "done"]
  /\ Holds(e, Nothing)
  /\ disturbed' = TRUE
  /\ UNCHANGED <<log, summary, success, order>>

\* cleanup_old_logs removes the log once the day is old enough, whatever is being
\* recorded; the summary stays.
CleanupOldLogs ==
  /\ log # <<>> \/ \E e \in Executions : recording[e] = "fillLog"
  /\ log' = <<>>
  /\ order' = <<>>
  /\ recording' = [e \in Executions |->
                     IF recording[e] = "fillLog" THEN "fillRemoved" ELSE recording[e]]
  /\ disturbed' = (disturbed \/ \E e \in Executions : recording[e] \in {"emptyLog", "fillLog"})
  /\ UNCHANGED <<summary, success, held>>

Record(e) ==
  \/ ReadLog(e) \/ EmptyLog(e) \/ FillLog(e) \/ FillRemovedLog(e)
  \/ ReadSummary(e) \/ EmptySummary(e) \/ FillSummary(e)

HistoryNext == (\E e \in Executions : Record(e) \/ Stop(e)) \/ CleanupOldLogs

HistorySpec == HistoryInit /\ [][HistoryNext]_historyVars

-----------------------------------------------------------------------------
Lines     == {Garbage} \cup {Line(e) : e \in Executions}
Summaries == [total : Nat, ok : Nat, failed : Nat, recent : Seq(Executions)]

HistoryTypeOK ==
  /\ log \in Seq(Lines)
  /\ summary \in Summaries \cup {Unreadable}
  /\ recording \in [Executions -> {"new", "emptyLog", "fillLog", "fillRemoved", "readSummary",
                                    "emptySummary", "fillSummary", "done"}]
  /\ success \in [Executions -> BOOLEAN]
  /\ disturbed \in BOOLEAN
  /\ order \in Seq(Executions)

Succeeded(recent) == Cardinality({i \in DOMAIN recent : success[recent[i]]})

\* A summary that can be read is consistent in itself, whatever calls overlapped
\* and wherever they were stopped: it was built by counting one execution after
\* the other from nothing.
SummaryAddsUp ==
  summary # Unreadable =>
    /\ summary.ok + summary.failed = summary.total
    /\ Len(summary.recent) = (IF summary.total < MaxRecent THEN summary.total ELSE MaxRecent)
    /\ Succeeded(summary.recent) <= summary.ok
    /\ IsInjective(summary.recent)

\* As long as no two calls overlap, none is stopped and none has the log removed
\* while it writes it back, the log has a line for each execution in their order
\* and the summary counts them all.  One overlap is enough to lose every line of
\* the day: the second call may read the file while the first has it empty.
RecordsKept ==
  ~disturbed /\ (\A e \in Executions : ~InProgress(e)) =>
    /\ log = [i \in DOMAIN order |-> Line(order[i])]
    /\ summary.total = Cardinality({e \in Executions : recording[e] = "done"})
    /\ summary.ok = Cardinality({e \in Executions : recording[e] = "done" /\ success[e]})

HistoryKept == SummaryAddsUp /\ RecordsKept
=============================================================================
