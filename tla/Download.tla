------------------------------ MODULE Download ------------------------------
(***************************************************************************)
(* DownloadManager of storage/download.rs: one call of download_with_resume*)
(* at a time, with pause called by another task while it runs.  A file is  *)
(* a sequence of positions of the remote file, which is whole when it is   *)
(* 1..Size in order.  A server that ignores the Range header answers with  *)
(* the whole file, which download_chunk appends to what is there.          *)
(* A crash ends the process: the file stays, the state starts anew.        *)
(***************************************************************************)
EXTENDS Integers, Sequences

CONSTANTS
  Size,        \* chunks of the remote file
  MaxRetries,  \* max_retries
  MaxStarts    \* bound of the model: calls of download_with_resume

DownloadAssumption ==
  Size \in Nat \ {0} /\ MaxRetries \in Nat /\ MaxStarts \in Nat

VARIABLES
  honours,   \* the server honours the Range header
  file,      \* the destination
  dlState,   \* the shared DownloadState: its kind, and the bytes it reports
  dlStage,   \* where the call stands
  offset,    \* bytes_downloaded of download_with_resume
  body,      \* what the response has left to deliver
  retries,   \* retry_count
  starts     \* calls made

dlVars == <<honours, file, dlState, dlStage, offset, body, retries, starts>>

Whole == [i \in 1..Size |-> i]

DownloadInit ==
  /\ honours \in BOOLEAN
  /\ file = <<>>
  /\ dlState = [kind |-> "Pending", bytes |-> 0]
  /\ dlStage = "idle"
  /\ offset = 0
  /\ body = <<>>
  /\ retries = 0
  /\ starts = 0

-----------------------------------------------------------------------------
Start ==
  /\ dlStage = "idle" /\ starts < MaxStarts
  /\ offset' = Len(file)
  /\ retries' = 0
  /\ dlStage' = "request"
  /\ starts' = starts + 1
  /\ UNCHANGED <<honours, file, dlState, body>>

\* No more than a request that starts at the end of the file can be refused
\* for its range; any request can fail on the way.
Satisfiable == ~honours \/ offset < Size

\* download_chunk up to its loop: the file is truncated unless it is resumed.
Respond ==
  /\ dlStage = "request"
  /\ Satisfiable
  /\ body' = IF honours THEN SubSeq(Whole, offset + 1, Size) ELSE Whole
  /\ file' = IF offset > 0 THEN file ELSE <<>>
  /\ dlState' = [kind |-> "InProgress", bytes |-> offset]
  /\ dlStage' = "stream"
  /\ UNCHANGED <<honours, offset, retries, starts>>

WriteChunk ==
  /\ dlStage = "stream" /\ body # <<>>
  /\ file' = Append(file, Head(body))
  /\ body' = Tail(body)
  /\ dlState' = [kind |-> "InProgress", bytes |-> dlState.bytes + 1]
  /\ UNCHANGED <<honours, dlStage, offset, retries, starts>>

\* The bytes reported are those of before the last attempt.
Complete ==
  /\ dlStage = "stream" /\ body = <<>>
  /\ dlState' = [kind |-> "Completed", bytes |-> offset]
  /\ dlStage' = "idle"
  /\ UNCHANGED <<honours, file, offset, body, retries, starts>>

\* A request that fails or is refused, or a body that breaks off: a network
\* or a download error, both of which are retryable.
AttemptFails ==
  /\ dlStage \in {"request", "stream"}
  /\ body' = <<>>
  /\ IF retries < MaxRetries
       THEN /\ retries' = retries + 1
            /\ dlState' = [kind |-> "Paused", bytes |-> offset]
            /\ dlStage' = "backoff"
       ELSE /\ dlState' = [kind |-> "Failed", bytes |-> offset]
            /\ dlStage' = "idle"
            /\ UNCHANGED retries
  /\ UNCHANGED <<honours, file, offset, starts>>

\* An error of the disk is not retryable.
DiskFails ==
  /\ dlStage \in {"request", "stream"}
  /\ body' = <<>>
  /\ dlState' = [kind |-> "Failed", bytes |-> offset]
  /\ dlStage' = "idle"
  /\ UNCHANGED <<honours, file, offset, retries, starts>>

\* Fault: the length of the file is not read again before the retry.
BackoffEndsStale ==
  /\ dlStage = "backoff"
  /\ dlStage' = "request"
  /\ UNCHANGED <<honours, file, dlState, offset, body, retries, starts>>

BackoffEnds ==
  /\ dlStage = "backoff"
  /\ offset' = Len(file)
  /\ dlStage' = "request"
  /\ UNCHANGED <<honours, file, dlState, body, retries, starts>>

\* pause waits for the lock of the state, which the call holds while it
\* backs off.  The download goes on, and its next chunk overwrites Paused.
Pause ==
  /\ dlStage # "backoff"
  /\ dlState.kind = "InProgress"
  /\ dlState' = [dlState EXCEPT !.kind = "Paused"]
  /\ UNCHANGED <<honours, file, dlStage, offset, body, retries, starts>>

Crash ==
  /\ dlState' = [kind |-> "Pending", bytes |-> 0]
  /\ dlStage' = "idle"
  /\ body' = <<>>
  /\ UNCHANGED <<honours, file, offset, retries, starts>>

DownloadNext ==
  \/ Start \/ Respond \/ WriteChunk \/ Complete
  \/ AttemptFails \/ DiskFails \/ BackoffEnds \/ Pause \/ Crash

DownloadSpec == DownloadInit /\ [][DownloadNext]_dlVars

-----------------------------------------------------------------------------
DownloadTypeOK ==
  /\ honours \in BOOLEAN
  /\ file \in Seq(1..Size)
  /\ body \in Seq(1..Size)
  /\ dlState \in [kind : {"Pending", "InProgress", "Paused", "Completed", "Failed"},
                  bytes : Nat]
  /\ dlStage \in {"idle", "request", "stream", "backoff"}
  /\ offset \in Nat
  /\ retries \in 0..MaxRetries
  /\ starts \in 0..MaxStarts

\* Whatever fails, is paused, is retried or crashes, the file of a server that
\* honours ranges is at all times a beginning of the remote file, it is whole
\* once a download reports Completed, and no state reports bytes that are not
\* in the file (download_with_resume and download_chunk, lines 103-293).
CompletedIsWhole ==
  honours =>
    /\ Len(file) <= Size /\ file = SubSeq(Whole, 1, Len(file))
    /\ dlState.kind = "Completed" => file = Whole
    /\ dlState.bytes <= Len(file)
=============================================================================
