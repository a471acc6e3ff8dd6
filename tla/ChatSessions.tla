---------------------------- MODULE ChatSessions ----------------------------
(***************************************************************************)
(* SessionManager of channels/session.rs: the histories of chat sessions   *)
(* in a concurrent map, where every operation holds the lock of its entry  *)
(* to its end.  A session is created under a new identifier each time, so  *)
(* an identifier whose session expired does not come back.  Time is        *)
(* abstracted: any session may have been idle for long enough.             *)
(***************************************************************************)
EXTENDS Integers, Sequences

CONSTANTS
  Ids,          \* identifiers of sessions, each used once
  Messages,
  MaxHistory    \* config.max_history

ChatAssumption == MaxHistory \in Nat

VARIABLES
  state,     \* state[i]: "unborn", "open" or "gone"
  messages   \* messages[i]: the history of the session

chatVars == <<state, messages>>

ChatInit ==
  /\ state = [i \in Ids |-> "unborn"]
  /\ messages = [i \in Ids |-> <<>>]

CreateSession(i) ==
  /\ state[i] = "unborn"
  /\ state' = [state EXCEPT ![i] = "open"]
  /\ UNCHANGED messages

\* The message is appended, and the oldest go until the limit holds.  Without
\* a session of this identifier the call fails.
AddMessage(i, m) ==
  /\ state[i] = "open"
  /\ messages' = [messages EXCEPT ![i] =
       LET all    == Append(@, m)
           excess == IF Len(all) > MaxHistory THEN Len(all) - MaxHistory ELSE 0
       IN  SubSeq(all, excess + 1, Len(all))]
  /\ UNCHANGED state

\* cleanup_expired removes every session that has been idle for too long.
CleanupExpired ==
  \E expired \in SUBSET {i \in Ids : state[i] = "open"} \ {{}} :
    /\ state' = [i \in Ids |-> IF i \in expired THEN "gone" ELSE state[i]]
    /\ messages' = [i \in Ids |-> IF i \in expired THEN <<>> ELSE messages[i]]

ChatNext ==
  \/ \E i \in Ids : CreateSession(i) \/ \E m \in Messages : AddMessage(i, m)
  \/ CleanupExpired

ChatSpec == ChatInit /\ [][ChatNext]_chatVars

-----------------------------------------------------------------------------
\* Types; only an open session has a history.
ChatTypeOK ==
  /\ state \in [Ids -> {"unborn", "open", "gone"}]
  /\ messages \in [Ids -> Seq(Messages)]
  /\ \A i \in Ids : messages[i] # <<>> => state[i] = "open"

\* The manager keeps a window of the last messages of each session.
Window == INSTANCE SessionWindow WITH
  Sessions <- Ids, Limit <- MaxHistory, window <- messages
=============================================================================
