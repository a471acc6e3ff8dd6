--------------------------- MODULE SessionWindow ---------------------------
(***************************************************************************)
(* What a bounded history of conversations promises: of each session, the  *)
(* last Limit messages in the order in which they were said, whatever      *)
(* other sessions do; and a session is forgotten only as a whole.          *)
(***************************************************************************)
EXTENDS Integers, Sequences

CONSTANTS Sessions, Messages, Limit

VARIABLE window

Init == window = [s \in Sessions |-> <<>>]

LastOf(q, n) == IF Len(q) <= n THEN q ELSE SubSeq(q, Len(q) - n + 1, Len(q))

Say(s, m) == window' = [window EXCEPT ![s] = LastOf(Append(@, m), Limit)]

Forget(F) == window' = [s \in Sessions |-> IF s \in F THEN <<>> ELSE window[s]]

Next ==
  \/ \E s \in Sessions, m \in Messages : Say(s, m)
  \/ \E F \in SUBSET Sessions : Forget(F)

Spec == Init /\ [][Next]_window
=============================================================================
