----------------------------- MODULE HubDownload -----------------------------
(***************************************************************************)
(* HfModelRegistry::download of model/registry/huggingface.rs as           *)
(* ModelLifecycle pulls and removes one model with it.  A file is fetched  *)
(* under the name of a partial file, which is renamed when all of it is    *)
(* there.  A file is kept apart from its names: a pull goes on writing to  *)
(* the file it opened when another pull has renamed it.  The chunks of the *)
(* remote file are 1..Size in order; what was never written is 0.  A       *)
(* server may ignore the range asked for.                                  *)
(***************************************************************************)
EXTENDS Integers, Sequences, FiniteSets

CONSTANTS
  Pullers,   \* processes that pull the model
  Inodes,    \* files
  NoFile,
  Size,      \* chunks of the remote file
  MaxPulls   \* bound of the model: calls of pull

HubAssumption ==
  /\ IsFiniteSet(Inodes) /\ IsFiniteSet(Pullers)
  /\ Cardinality(Inodes) > Cardinality(Pullers)
  /\ NoFile \notin Inodes
  /\ Size \in Nat \ {0} /\ MaxPulls \in Nat

VARIABLES
  ranges,      \* the server honours the Range header
  partial,     \* the file named .partial
  final,       \* the file named as the model
  content,     \* content[i]: the chunks of the file i
  pull,        \* pull[p]: where p stands, and what it works with
  pulls,       \* calls of pull so far
  overlapped,  \* history: two pulls ran at once
  resumed      \* history: a pull took up a partial file

hubVars == <<ranges, partial, final, content, pull, pulls, overlapped, resumed>>

Whole == [k \in 1..Size |-> k]
Idle  == [at |-> "idle", start |-> 0, file |-> NoFile, pos |-> 0, rest |-> <<>>]

HubInit ==
  /\ ranges \in BOOLEAN
  /\ partial = NoFile /\ final = NoFile
  /\ content = [i \in Inodes |-> <<>>]
  /\ pull = [p \in Pullers |-> Idle]
  /\ pulls = 0
  /\ overlapped = FALSE /\ resumed = FALSE

InUse == {partial, final} \cup {pull[p].file : p \in Pullers}

\* A file without a name that nobody has open is gone.
ReleaseUnused == content' = [i \in Inodes |-> IF i \in InUse' THEN content[i] ELSE <<>>]

Becomes(p, r) == pull' = [pull EXCEPT ![p] = r]

-----------------------------------------------------------------------------
\* A model that is there is not fetched; otherwise the length of the partial
\* file is where the download resumes.
Begin(p) ==
  /\ pull[p] = Idle /\ final = NoFile /\ pulls < MaxPulls
  /\ pulls' = pulls + 1
  /\ Becomes(p, [Idle EXCEPT !.at = "request",
                   !.start = IF partial = NoFile THEN 0 ELSE Len(content[partial])])
  /\ overlapped' = (overlapped \/ \E q \in Pullers : pull[q] # Idle)
  /\ UNCHANGED <<ranges, partial, final, content, resumed>>

\* A range that begins at the end of the file is refused.
Respond(p) ==
  /\ pull[p].at = "request"
  /\ ranges => pull[p].start < Size
  /\ Becomes(p, [pull[p] EXCEPT !.at = "open",
                   !.rest = IF ranges THEN SubSeq(Whole, pull[p].start + 1, Size) ELSE Whole])
  /\ UNCHANGED <<ranges, partial, final, content, pulls, overlapped, resumed>>

\* To resume, the partial file is opened for appending, whatever the server
\* answered; to begin, it is created or emptied.
OpenToAppend(p) ==
  /\ pull[p].at = "open" /\ pull[p].start > 0 /\ partial # NoFile
  /\ Becomes(p, [pull[p] EXCEPT !.at = "append", !.file = partial])
  /\ resumed' = TRUE
  /\ UNCHANGED <<ranges, partial, final, content, pulls, overlapped>>

Create(p) ==
  /\ pull[p].at = "open" /\ pull[p].start = 0
  /\ partial' = IF partial = NoFile THEN CHOOSE i \in Inodes : i \notin InUse ELSE partial
  /\ content' = [content EXCEPT ![partial'] = <<>>]
  /\ Becomes(p, [pull[p] EXCEPT !.at = "write", !.file = partial'])
  /\ UNCHANGED <<ranges, final, pulls, overlapped, resumed>>

\* The chunk x at the position k; the file may have been cut short meanwhile.
Put(chunks, k, x) ==
  [n \in 1..(IF Len(chunks) < k THEN k ELSE Len(chunks)) |->
     IF n = k THEN x ELSE IF n <= Len(chunks) THEN chunks[n] ELSE 0]

WriteChunk(p) ==
  /\ pull[p].at \in {"append", "write"} /\ pull[p].rest # <<>>
  /\ content' = [content EXCEPT ![pull[p].file] =
       Put(@, IF pull[p].at = "append" THEN Len(@) + 1 ELSE pull[p].pos + 1,
           Head(pull[p].rest))]
  /\ Becomes(p, [pull[p] EXCEPT !.pos = @ + 1, !.rest = Tail(@)])
  /\ UNCHANGED <<ranges, partial, final, pulls, overlapped, resumed>>

\* The partial file is renamed, over the model that another pull put there.
Finish(p) ==
  /\ pull[p].at \in {"append", "write"} /\ pull[p].rest = <<>> /\ partial # NoFile
  /\ final' = partial /\ partial' = NoFile
  /\ Becomes(p, Idle)
  /\ UNCHANGED <<ranges, pulls, overlapped, resumed>>
  /\ ReleaseUnused

\* An error of the network or the disk, a refused range, a file that is no
\* longer there, or the end of the process.
Stop(p) ==
  /\ pull[p] # Idle
  /\ Becomes(p, Idle)
  /\ UNCHANGED <<ranges, partial, final, pulls, overlapped, resumed>>
  /\ ReleaseUnused

Remove ==
  /\ final # NoFile
  /\ final' = NoFile
  /\ UNCHANGED <<ranges, partial, pull, pulls, overlapped, resumed>>
  /\ ReleaseUnused

HubNext ==
  \/ \E p \in Pullers :
       \/ Begin(p) \/ Respond(p) \/ OpenToAppend(p) \/ Create(p)
       \/ WriteChunk(p) \/ Finish(p) \/ Stop(p)
  \/ Remove

HubSpec == HubInit /\ [][HubNext]_hubVars

-----------------------------------------------------------------------------
HubTypeOK ==
  /\ ranges \in BOOLEAN /\ overlapped \in BOOLEAN /\ resumed \in BOOLEAN
  /\ partial \in Inodes \cup {NoFile} /\ final \in Inodes \cup {NoFile}
  /\ content \in [Inodes -> Seq(0..Size)] /\ pulls \in 0..MaxPulls
  /\ \A p \in Pullers :
       /\ pull[p].at \in {"idle", "request", "open", "append", "write"}
       /\ pull[p].file \in Inodes \cup {NoFile}
       /\ pull[p].rest \in Seq(1..Size)

\* A model that has its name is whole, however often its download was cut off
\* and taken up before, unless two pulls ran at once, or a server that ignores
\* ranges was asked to resume; and what has its name has it alone.
FinalIsWhole ==
  /\ final # NoFile => final # partial
  /\ final # NoFile /\ ~overlapped /\ (ranges \/ ~resumed) => content[final] = Whole
=============================================================================
