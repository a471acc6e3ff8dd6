------------------------------ MODULE TokenLog ------------------------------
(***************************************************************************)
(* What the key-value cache of one transformer layer promises: it holds    *)
(* the tokens appended since it was last cleared, in their order.          *)
(***************************************************************************)
EXTENDS Sequences

CONSTANTS Layers, Tokens

VARIABLE log  \* log[l]: the cached tokens of layer l

Init == log = [l \in Layers |-> <<>>]

Append1(l, t) == log' = [log EXCEPT ![l] = Append(@, t)]
Clear(l)      == log' = [log EXCEPT ![l] = <<>>]

Next == \E l \in Layers : Clear(l) \/ \E t \in Tokens : Append1(l, t)

Spec == Init /\ [][Next]_log
=============================================================================
