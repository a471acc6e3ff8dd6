----------------------------- MODULE ModelStore -----------------------------
(***************************************************************************)
(* The models of a machine: the rows of the database (repository.rs) and   *)
(* the files under the models directory, as pull, update and remove of     *)
(* model/manager.rs change them through the Hugging Face and Unsloth       *)
(* clients.  Only the commands of the CLI call these, and the database is  *)
(* locked by the process that opened it, so one operation runs at a time;  *)
(* it may fail or its process die at any step.  One local name is          *)
(* followed, which several repositories share: handle_pull derives it from *)
(* the last part of the repository's name.                                 *)
(***************************************************************************)
EXTENDS Integers, Sequences, FiniteSets

CONSTANTS
  Sources,    \* repositories with that name
  Files,      \* names of model files
  Formats,    \* values of the format argument, none included
  Matching,   \* Matching[f]: the files the format f selects
  SizeOf      \* SizeOf[s][f]: chunks of the file f of the repository s

StoreAssumption ==
  /\ IsFiniteSet(Files)
  /\ Matching \in [Formats -> SUBSET Files]
  /\ SizeOf \in [Sources -> [Files -> Nat \ {0}]]

VARIABLES
  row,      \* the metadata in the database, or NoRow
  disk,     \* disk[f]: the chunks in the file, none when there is no file
  job,      \* the operation that runs: what it does, where it is, its arguments
  todo,     \* files it has yet to download
  rest,     \* what the response has left to deliver
  broken    \* history: a remove began to delete the files and did not finish

storeVars == <<row, disk, job, todo, rest, broken>>

NoRow == [source |-> "none", format |-> "none"]
Idle  == [op |-> "none", at |-> "none", file |-> "none",
          source |-> "none", format |-> "none", resume |-> FALSE]

Chunk == [from : Sources, pos : Nat]

\* What the repository s has of the file f from the position n on.
Remote(s, f, n) == [i \in 1..(SizeOf[s][f] - n) |-> [from |-> s, pos |-> n + i]]

StoreInit ==
  /\ row = NoRow
  /\ disk = [f \in Files |-> <<>>]
  /\ job = Idle
  /\ todo = {}
  /\ rest = <<>>
  /\ broken = FALSE

GoOn(stage) == job' = [job EXCEPT !.at = stage]

-----------------------------------------------------------------------------
\* A model that has a row is not pulled again.
Pull(s, f, resume) ==
  /\ job = Idle /\ row = NoRow
  /\ job' = [op |-> "pull", at |-> "info", file |-> "none",
             source |-> s, format |-> f, resume |-> resume]
  /\ UNCHANGED <<row, disk, todo, rest, broken>>

\* get_model_info and list_files; a format that selects nothing is an error.
ListFiles ==
  /\ job.at = "info"
  /\ Matching[job.format] # {}
  /\ todo' = Matching[job.format]
  /\ GoOn("files")
  /\ UNCHANGED <<row, disk, rest, broken>>

StartByte(f) == IF job.resume THEN Len(disk[f]) ELSE 0
Complete(f)  == job.resume /\ StartByte(f) >= SizeOf[job.source][f]

\* The file is as long as the listing says it should be.
SkipFile(f) ==
  /\ job.at = "files" /\ f \in todo
  /\ Complete(f)
  /\ todo' = todo \ {f}
  /\ UNCHANGED <<row, disk, job, rest, broken>>

\* Fault: the file is opened for appending whatever the server answered.
OpenFileAppends(f, partial) ==
  /\ job.at = "files" /\ f \in todo
  /\ ~Complete(f)
  /\ partial => StartByte(f) > 0
  /\ rest' = Remote(job.source, f, IF partial THEN StartByte(f) ELSE 0)
  /\ disk' = [disk EXCEPT ![f] = IF StartByte(f) > 0 THEN @ ELSE <<>>]
  /\ job' = [job EXCEPT !.at = "body", !.file = f]
  /\ UNCHANGED <<row, todo, broken>>

\* The server answers with the range asked for, or ignores the range.
OpenFile(f, partial) ==
  /\ job.at = "files" /\ f \in todo
  /\ ~Complete(f)
  /\ partial => StartByte(f) > 0
  /\ rest' = Remote(job.source, f, IF partial THEN StartByte(f) ELSE 0)
  /\ disk' = [disk EXCEPT ![f] = IF partial THEN @ ELSE <<>>]
  /\ job' = [job EXCEPT !.at = "body", !.file = f]
  /\ UNCHANGED <<row, todo, broken>>

ReceiveChunk ==
  /\ job.at = "body" /\ rest # <<>>
  /\ disk' = [disk EXCEPT ![job.file] = Append(@, Head(rest))]
  /\ rest' = Tail(rest)
  /\ UNCHANGED <<row, job, todo, broken>>

FileDone ==
  /\ job.at = "body" /\ rest = <<>>
  /\ todo' = todo \ {job.file}
  /\ job' = [job EXCEPT !.at = "files", !.file = "none"]
  /\ UNCHANGED <<row, disk, rest, broken>>

\* The row of a pull is saved when all files are there; update marks it as
\* updated and saves it once more.
Save ==
  /\ job.at = "files" /\ todo = {}
  /\ row' = [source |-> job.source, format |-> job.format]
  /\ job' = IF job.op = "update" THEN [job EXCEPT !.at = "resave"] ELSE Idle
  /\ UNCHANGED <<disk, todo, rest, broken>>

SaveUpdated ==
  /\ job.at = "resave"
  /\ row' = [source |-> job.source, format |-> job.format]
  /\ job' = Idle
  /\ UNCHANGED <<disk, todo, rest, broken>>

RemoveModel ==
  /\ job = Idle /\ row # NoRow
  /\ job' = [Idle EXCEPT !.op = "remove", !.at = "wipe"]
  /\ broken' = TRUE
  /\ UNCHANGED <<row, disk, todo, rest>>

\* update deletes the row and the files before it downloads anything.
Update ==
  /\ job = Idle /\ row # NoRow
  /\ job' = [op |-> "update", at |-> "wipe", file |-> "none",
             source |-> row.source, format |-> row.format, resume |-> FALSE]
  /\ row' = NoRow
  /\ broken' = FALSE
  /\ UNCHANGED <<disk, todo, rest>>

\* remove_dir_all deletes one file after the other.
DeleteFile(f) ==
  /\ job.at = "wipe" /\ disk[f] # <<>>
  /\ disk' = [disk EXCEPT ![f] = <<>>]
  /\ UNCHANGED <<row, job, todo, rest, broken>>

DirectoryGone == job.at = "wipe" /\ \A f \in Files : disk[f] = <<>>

DeleteRow ==
  /\ DirectoryGone /\ job.op = "remove"
  /\ row' = NoRow
  /\ broken' = FALSE
  /\ job' = Idle
  /\ UNCHANGED <<disk, todo, rest>>

PullAgain ==
  /\ DirectoryGone /\ job.op = "update"
  /\ GoOn("info")
  /\ UNCHANGED <<row, disk, todo, rest, broken>>

\* An error of the network or of the disk, or the end of the process.
Interrupted ==
  /\ job # Idle
  /\ job' = Idle
  /\ todo' = {}
  /\ rest' = <<>>
  /\ UNCHANGED <<row, disk, broken>>

StoreNext ==
  \/ \E s \in Sources, f \in Formats, r \in BOOLEAN : Pull(s, f, r)
  \/ ListFiles \/ ReceiveChunk \/ FileDone \/ Save \/ SaveUpdated
  \/ \E f \in Files : SkipFile(f) \/ DeleteFile(f)
  \/ \E f \in Files, p \in BOOLEAN : OpenFile(f, p)
  \/ RemoveModel \/ Update \/ DeleteRow \/ PullAgain \/ Interrupted

StoreSpec == StoreInit /\ [][StoreNext]_storeVars

-----------------------------------------------------------------------------
StoreTypeOK ==
  /\ row = NoRow \/ row \in [source : Sources, format : Formats]
  /\ disk \in [Files -> Seq(Chunk)]
  /\ job.op \in {"none", "pull", "update", "remove"}
  /\ job.at \in {"none", "info", "files", "body", "resave", "wipe"}
  /\ todo \subseteq Files
  /\ rest \in Seq(Chunk)
  /\ broken \in BOOLEAN

FromOneSource(f, s) == \A i \in DOMAIN disk[f] : disk[f][i].from = s

\* The file holds every chunk in its place, and nothing more unless it was
\* resumed from the partial file of another repository of the same name.
FileWhole(f, s) ==
  /\ Len(disk[f]) >= SizeOf[s][f]
  /\ \A i \in DOMAIN disk[f] : disk[f][i].pos = i
  /\ FromOneSource(f, s) => Len(disk[f]) = SizeOf[s][f]

\* A model that is listed has all its files, whatever operation failed or was
\* killed at whatever step and whatever partial files a pull resumed, but for
\* a remove that was interrupted (pull, remove and update, lines 47-443).
RowsHaveFiles ==
  row # NoRow /\ ~broken =>
    \A f \in Matching[row.format] : FileWhole(f, row.source)
=============================================================================
