---------------------------- MODULE PriorityFifo ----------------------------
(***************************************************************************)
(* What the request queue promises, without its data structure: a request  *)
(* waits once, it is taken once, never before one of its own priority that *)
(* was queued earlier and, under strict scheduling, never before one of a  *)
(* higher priority.                                                        *)
(***************************************************************************)
EXTENDS Integers

CONSTANTS Requests, Priorities

VARIABLES
  strict,   \* is the scheduling strict? (configured once)
  waiting,  \* waiting[r]: the priority under which r waits, or NotWaiting
  ahead     \* ahead[r]: the requests of its priority queued before r

NotWaiting == -1

Init ==
  /\ strict \in BOOLEAN
  /\ waiting = [r \in Requests |-> NotWaiting]
  /\ ahead = [r \in Requests |-> {}]

Queue(r, p) ==
  /\ waiting[r] = NotWaiting
  /\ waiting' = [waiting EXCEPT ![r] = p]
  /\ ahead' = [ahead EXCEPT ![r] = {q \in Requests : waiting[q] = p}]

Take(r) ==
  /\ waiting[r] # NotWaiting
  /\ ahead[r] = {}
  /\ strict => \A q \in Requests : waiting[q] <= waiting[r]
  /\ waiting' = [waiting EXCEPT ![r] = NotWaiting]
  /\ ahead' = [q \in Requests |-> ahead[q] \ {r}]

Next ==
  /\ \E r \in Requests : Take(r) \/ \E p \in Priorities : Queue(r, p)
  /\ UNCHANGED strict

Spec == Init /\ [][Next]_<<strict, waiting, ahead>>
=============================================================================
