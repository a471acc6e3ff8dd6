------------------------------ MODULE WebWidget ------------------------------
(***************************************************************************)
(* WebWidgetChannel of channels/web_widget.rs: sessions that expire when   *)
(* they are not used, with a limit on those that have not, and the queue   *)
(* of messages for the server.  A message touches its session under one    *)
(* lock and is queued under another; connect and disconnect take the       *)
(* channel exclusively, so they find no call in progress.  Time is         *)
(* abstracted: a session that is not touched may have expired.             *)
(***************************************************************************)
EXTENDS Integers, Sequences, FiniteSets

CONSTANTS
  Sessions,      \* identifiers clients use
  Nobody,        \* no session
  Handlers,      \* threads that handle a client's message
  MaxSessions,   \* config.max_sessions
  MaxPending     \* bound: messages that are waiting

WidgetAssumption ==
  /\ IsFiniteSet(Sessions) /\ IsFiniteSet(Handlers)
  /\ Nobody \notin Sessions
  /\ MaxSessions \in Nat \ {0}
  /\ MaxPending \in Nat

VARIABLES
  connected,
  session,    \* session[s]: "none", "active" or "expired"
  pending,    \* pending_messages, by their session
  handling,   \* handling[h]: the session whose message h is about to queue, or Nobody
  revived     \* history: sessions that were touched after they had expired

widgetVars == <<connected, session, pending, handling, revived>>

WidgetInit ==
  /\ connected = FALSE
  /\ session = [s \in Sessions |-> "none"]
  /\ pending = <<>>
  /\ handling = [h \in Handlers |-> Nobody]
  /\ revived = {}

Active == {s \in Sessions : session[s] = "active"}

Quiet == \A h \in Handlers : handling[h] = Nobody

-----------------------------------------------------------------------------
Connect ==
  /\ Quiet
  /\ connected' = TRUE
  /\ UNCHANGED <<session, pending, handling, revived>>

\* The sessions go, the messages stay.
Disconnect ==
  /\ Quiet
  /\ connected' = FALSE
  /\ session' = [s \in Sessions |-> "none"]
  /\ revived' = {}
  /\ UNCHANGED <<pending, handling>>

\* Fault: the limit itself still leaves room for one more.
RegisterSessionOffByOne(s) ==
  /\ Cardinality(Active) <= MaxSessions
  /\ session' = [session EXCEPT ![s] = "active"]
  /\ revived' = revived \ {s}
  /\ UNCHANGED <<connected, pending, handling>>

\* Count and insertion are under one lock.  A session of the same name is
\* replaced; when it is active it counts against the limit itself.
RegisterSession(s) ==
  /\ Cardinality(Active) < MaxSessions
  /\ session' = [session EXCEPT ![s] = "active"]
  /\ revived' = revived \ {s}
  /\ UNCHANGED <<connected, pending, handling>>

RemoveSession(s) ==
  /\ session[s] # "none"
  /\ session' = [session EXCEPT ![s] = "none"]
  /\ revived' = revived \ {s}
  /\ UNCHANGED <<connected, pending, handling>>

\* handle_widget_message: the session is touched if there is one, also when it
\* has expired.  A Chat goes on to the queue; a Ping and what a client must not
\* send end here.
TouchSession(h, s) ==
  /\ handling[h] = Nobody
  /\ session' = [session EXCEPT ![s] = IF @ = "none" THEN "none" ELSE "active"]
  /\ revived' = IF session[s] = "expired" THEN revived \cup {s} ELSE revived
  /\ \/ handling' = [handling EXCEPT ![h] = s]
     \/ UNCHANGED handling
  /\ UNCHANGED <<connected, pending>>

\* The session may be gone by now, or may never have existed.
QueueMessage(h) ==
  /\ handling[h] # Nobody /\ Len(pending) < MaxPending
  /\ pending' = Append(pending, handling[h])
  /\ handling' = [handling EXCEPT ![h] = Nobody]
  /\ UNCHANGED <<connected, session, revived>>

ReceiveMessages ==
  /\ pending # <<>>
  /\ pending' = <<>>
  /\ UNCHANGED <<connected, session, handling, revived>>

EvictExpired ==
  /\ session' = [s \in Sessions |-> IF session[s] = "expired" THEN "none" ELSE session[s]]
  /\ UNCHANGED <<connected, pending, handling, revived>>

\* More than session_timeout_secs pass without a touch.
Expires(s) ==
  /\ session[s] = "active"
  /\ session' = [session EXCEPT ![s] = "expired"]
  /\ revived' = revived \ {s}
  /\ UNCHANGED <<connected, pending, handling>>

WidgetNext ==
  \/ Connect \/ Disconnect \/ ReceiveMessages \/ EvictExpired
  \/ \E s \in Sessions :
       \/ RegisterSession(s) \/ RemoveSession(s) \/ Expires(s)
       \/ \E h \in Handlers : TouchSession(h, s)
  \/ \E h \in Handlers : QueueMessage(h)

WidgetSpec == WidgetInit /\ [][WidgetNext]_widgetVars

-----------------------------------------------------------------------------
WidgetTypeOK ==
  /\ connected \in BOOLEAN
  /\ session \in [Sessions -> {"none", "active", "expired"}]
  /\ pending \in Seq(Sessions)
  /\ handling \in [Handlers -> Sessions \cup {Nobody}]
  /\ revived \subseteq Active

\* Only sessions that came back to life after they expired exceed max_sessions:
\* a message revives its session without a look at the limit, and expired
\* sessions had made room for others meanwhile.
SessionsBounded == Cardinality(Active \ revived) <= MaxSessions
=============================================================================
