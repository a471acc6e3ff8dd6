----------------------------- MODULE AgentSession -----------------------------
(***************************************************************************)
(* The sessions of agents/session.rs: messages with a running total of     *)
(* their tokens, forks, compaction, and a store that keeps each session in *)
(* a file of its own.  save empties the file before it fills it, and the   *)
(* process may end in between, or at any other time; its successor has     *)
(* what it loads.  The process works with one session at a time.  Of a     *)
(* message only its tokens are kept and whether compaction must keep it,   *)
(* as it does a system message and a pinned one.                           *)
(***************************************************************************)
EXTENDS Integers, Sequences, FiniteSetsExt

CONSTANTS
  Ids,           \* identifiers of sessions
  Tokens,        \* token counts of messages
  MaxMessages    \* bound: messages of a session

SessionAssumption == Tokens \subseteq Nat /\ MaxMessages \in Nat

VARIABLES
  current,   \* the identifier of the session in memory
  live,      \* the session in memory, or None
  stored,    \* stored[i]: the file of the session: a session, None or Torn
  saving     \* the file of the current session is being written

sessionVars == <<current, live, stored, saving>>

None == [none |-> TRUE]
Torn == [torn |-> TRUE]

NewSession == [messages |-> <<>>, totalTokens |-> 0, messageCount |-> 0]

Message == [tokens : Tokens, keep : BOOLEAN]

SessionInit ==
  /\ current \in Ids /\ live = None
  /\ stored = [i \in Ids |-> None]
  /\ saving = FALSE

Sum(messages) == MapThenSumSet(LAMBDA k : messages[k].tokens, DOMAIN messages)

Becomes(i, session) ==
  /\ ~saving
  /\ current' = i /\ live' = session
  /\ UNCHANGED <<stored, saving>>

-----------------------------------------------------------------------------
Create(i) == live = None /\ Becomes(i, NewSession)

AppendMessage(m) ==
  /\ live # None /\ Len(live.messages) < MaxMessages
  /\ Becomes(current, [messages     |-> Append(live.messages, m),
                       totalTokens  |-> live.totalTokens + m.tokens,
                       messageCount |-> live.messageCount + 1])

\* The owner of a session pins a message of it.
Pin ==
  /\ live # None
  /\ \E k \in DOMAIN live.messages :
       /\ ~live.messages[k].keep
       /\ Becomes(current, [live EXCEPT !.messages[k].keep = TRUE])

\* The copy has the messages and the totals; work goes on with the copy.
Fork(new) == live # None /\ new # current /\ Becomes(new, live)

\* The positions that compact keeps: pinned, system and recent messages.
Kept(messages, keepRecent) ==
  {k \in DOMAIN messages :
     messages[k].keep \/ k > Len(messages) - keepRecent}

\* The part of a sequence at the positions in K.
KeepAt(q, K) ==
  LET part[k \in 0..Len(q)] ==
        IF k = 0 THEN <<>>
        ELSE IF k \in K THEN Append(part[k - 1], q[k]) ELSE part[k - 1]
  IN  part[Len(q)]

Compacted(session, keepRecent) ==
  LET kept == KeepAt(session.messages, Kept(session.messages, keepRecent))
  IN  [messages |-> kept, totalTokens |-> Sum(kept), messageCount |-> Len(kept)]

Compact(keepRecent) ==
  /\ live # None /\ Len(live.messages) > keepRecent
  /\ Becomes(current, Compacted(live, keepRecent))

-----------------------------------------------------------------------------
\* save empties the file; unless it fails then, the session is written.
BeginSave ==
  /\ ~saving /\ live # None
  /\ saving' = TRUE
  /\ stored' = [stored EXCEPT ![current] = Torn]
  /\ UNCHANGED <<current, live>>

EndSave ==
  /\ saving
  /\ saving' = FALSE
  /\ \/ stored' = [stored EXCEPT ![current] = live]
     \/ UNCHANGED stored
  /\ UNCHANGED <<current, live>>

Load(i) == stored[i] \notin {None, Torn} /\ Becomes(i, stored[i])

Delete(i) ==
  /\ ~saving /\ stored[i] # None
  /\ stored' = [stored EXCEPT ![i] = None]
  /\ UNCHANGED <<current, live, saving>>

ProcessEnds ==
  /\ live' = None /\ saving' = FALSE
  /\ UNCHANGED <<current, stored>>

SessionNext ==
  \/ \E i \in Ids : Create(i) \/ Fork(i) \/ Load(i) \/ Delete(i)
  \/ \E m \in Message : AppendMessage(m)
  \/ \E n \in 0..MaxMessages : Compact(n)
  \/ Pin \/ BeginSave \/ EndSave \/ ProcessEnds

SessionSpec == SessionInit /\ [][SessionNext]_sessionVars

-----------------------------------------------------------------------------
SessionRecords == [messages : Seq(Message), totalTokens : Nat, messageCount : Nat]

SessionTypeOK ==
  /\ current \in Ids /\ live \in SessionRecords \cup {None}
  /\ stored \in [Ids -> SessionRecords \cup {None, Torn}]
  /\ saving \in BOOLEAN /\ (saving => live # None)

\* The totals are those of the messages, in memory and in every file that can be
\* read, however a session was forked, compacted, saved, cut off and loaded.
TotalsAgree ==
  \A s \in {live} \cup {stored[i] : i \in Ids} :
    s \notin {None, Torn} =>
      s.totalTokens = Sum(s.messages) /\ s.messageCount = Len(s.messages)
=============================================================================
