------------------------- MODULE MCInferenceEngine -------------------------
(* Finite instances of InferenceEngine: models of two units each. *)
EXTENDS InferenceEngine, TLC

TwoUnits == [m \in Models |-> 2]

Symmetry == Permutations(Models) \cup Permutations(Clients)
=============================================================================
