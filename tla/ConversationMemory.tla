------------------------- MODULE ConversationMemory -------------------------
(***************************************************************************)
(* ConversationMemory of rag/memory.rs: the entries of all sessions in one *)
(* list, with a limit for each session.  A limit of zero still keeps the   *)
(* entry that was added last, for the entry is appended after the          *)
(* eviction.  Entries are told apart by their content alone; embeddings    *)
(* and the search by similarity, which changes nothing, are left out.      *)
(***************************************************************************)
EXTENDS Integers, Sequences, FiniteSets

CONSTANTS
  Sessions,
  Contents,     \* what an entry may say
  MaxEntries    \* config.max_entries_per_session

MemoryAssumption == IsFiniteSet(Sessions) /\ MaxEntries \in Nat

VARIABLE entries

MemoryInit == entries = <<>>

Of(s) == {i \in DOMAIN entries : entries[i].session = s}

\* The entries at the positions in K.
KeepAt(K) ==
  LET part[i \in 0..Len(entries)] ==
        IF i = 0 THEN <<>>
        ELSE IF i \in K THEN Append(part[i - 1], entries[i]) ELSE part[i - 1]
  IN  part[Len(entries)]

FirstIn(S) == CHOOSE i \in S : \A j \in S : i <= j

\* Fault: the oldest entry goes, whoever said it.
EvictedOldest(s) ==
  IF Cardinality(Of(s)) >= MaxEntries /\ entries # <<>> THEN Tail(entries) ELSE entries

\* The list without the oldest entry of s, when s is at its limit.
Evicted(s) ==
  IF Cardinality(Of(s)) >= MaxEntries /\ Of(s) # {}
  THEN KeepAt(DOMAIN entries \ {FirstIn(Of(s))})
  ELSE entries

AddEntry(s, c) ==
  entries' = Append(Evicted(s), [session |-> s, content |-> c])

ClearSession(s) ==
  /\ Of(s) # {}
  /\ entries' = KeepAt(DOMAIN entries \ Of(s))

ClearAll == entries # <<>> /\ entries' = <<>>

MemoryNext ==
  \/ \E s \in Sessions : (\E c \in Contents : AddEntry(s, c)) \/ ClearSession(s)
  \/ ClearAll

MemorySpec == MemoryInit /\ [][MemoryNext]_entries

\* get_session_history.  It sorts by the time an entry was made, which is the
\* order of the list for callers that add their entries as they make them.
SessionHistory(s) == KeepAt(Of(s))

-----------------------------------------------------------------------------
MemoryTypeOK == entries \in Seq([session : Sessions, content : Contents])

\* The memory is a window of the last entries of each session.
Window == INSTANCE SessionWindow WITH
  Messages <- [session : Sessions, content : Contents],
  Limit    <- IF MaxEntries = 0 THEN 1 ELSE MaxEntries,
  window   <- [s \in Sessions |-> SessionHistory(s)]
=============================================================================
