------------------------------- MODULE Sampler -------------------------------
(***************************************************************************)
(* Sampler::sample of inference/sampler.rs: the penalties on the logits,   *)
(* the greedy choice or the softmax, the three filters one after the other *)
(* without renormalising in between, and the draw.                         *)
(*                                                                         *)
(* Floating point is abstracted to integers.  A probability is a weight;   *)
(* the sum of the weights stands for 1.  The softmax is a power of two     *)
(* that, like an f32, is zero when a logit is far below the greatest.  A   *)
(* temperature other than 0 and 1 divides the logits and is left out: it   *)
(* changes the distances between logits, which vary anyway.  The constant  *)
(* of a fraction is its numerator over Whole.                              *)
(***************************************************************************)
EXTENDS Integers, Sequences, FiniteSets, SequencesExt, FiniteSetsExt

CONSTANTS
  Vocabulary,   \* number of tokens; the token of index i is i + 1
  Logits,       \* values of a logit
  Histories,    \* sequences of previous tokens
  Settings,     \* SamplingParams, see Params
  Whole         \* denominator of top_p and min_p

Token == 1..Vocabulary

Params ==
  [greedy : BOOLEAN, top_k : Nat, top_p : Nat, min_p : Nat,
   repetition : Nat \ {0}, frequency : Nat, presence : Nat]

SamplerAssumption ==
  /\ Vocabulary \in Nat \ {0} /\ Whole \in Nat \ {0}
  /\ Logits \subseteq Int /\ Histories \subseteq Seq(Nat) /\ Settings \subseteq Params

VARIABLES
  params,
  logits,    \* as given and then with the penalties
  previous,
  stage,
  weights,   \* probs
  totalMass, \* the sum of weights right after the softmax
  draw,      \* r, see Sample
  token      \* the result; 0 while there is none

samplerVars == <<params, logits, previous, stage, weights, totalMass, draw, token>>

SumOver(f, S) == FoldFunctionOnSet(LAMBDA x, y : x + y, 0, f, S)

Sum(f) == SumOver(f, DOMAIN f)

SamplerInit ==
  /\ params \in Settings /\ logits \in [Token -> Logits] /\ previous \in Histories
  /\ stage = "penalties"
  /\ weights = [t \in Token |-> 0] /\ totalMass = 0 /\ draw = 0 /\ token = 0

Goes(here, next) == stage = here /\ stage' = next

-----------------------------------------------------------------------------
Penalised(l) ==
  IF l > 0 THEN l \div params.repetition ELSE l * params.repetition

\* A token that came up n times is penalised n times.
apply_repetition_penalty(l) ==
  FoldLeft(LAMBDA m, t : IF t \in Token THEN [m EXCEPT ![t] = Penalised(@)] ELSE m,
           l, previous)

CountOf(t) == Cardinality({i \in DOMAIN previous : previous[i] = t})

apply_frequency_presence_penalty(l) ==
  [t \in Token |->
     IF CountOf(t) = 0 THEN l[t]
     ELSE l[t] - params.frequency * CountOf(t) - params.presence]

\* max_by returns the last of several greatest.
Argmax(l) == Max({t \in Token : \A u \in Token : l[u] <= l[t]})

Heaviest == 8

\* The greatest weighs Heaviest; what is more than 3 below it weighs nothing.
Softmax(l) ==
  LET top == Max({l[t] : t \in Token})
  IN  [t \in Token |-> IF top - l[t] > 3 THEN 0 ELSE 2^(3 - (top - l[t]))]

Penalise ==
  /\ Goes("penalties", IF params.greedy THEN "greedy" ELSE "softmax")
  /\ logits' = apply_frequency_presence_penalty(apply_repetition_penalty(logits))
  /\ UNCHANGED <<params, previous, weights, totalMass, draw, token>>

Greedy ==
  /\ Goes("greedy", "done")
  /\ token' = Argmax(logits)
  /\ UNCHANGED <<params, logits, previous, weights, totalMass, draw>>

ToProbabilities ==
  /\ Goes("softmax", "top_k")
  /\ weights' = Softmax(logits)
  /\ totalMass' = Sum(weights')
  /\ UNCHANGED <<params, logits, previous, draw, token>>

-----------------------------------------------------------------------------
\* The tokens by falling weight; the sort is stable.
Before(t, u) == weights[t] > weights[u] \/ (weights[t] = weights[u] /\ t < u)

Indexed ==
  [i \in Token |-> CHOOSE t \in Token : Cardinality({u \in Token : Before(u, t)}) = i - 1]

\* The threshold is the weight at index k, which is the one after the first k.
TopKThreshold == weights[Indexed[params.top_k + 1]]

apply_top_k ==
  /\ Goes("top_k", "top_p")
  /\ weights' =
       IF params.top_k = 0 \/ params.top_k >= Vocabulary THEN weights
       ELSE [t \in Token |-> IF weights[t] < TopKThreshold THEN 0 ELSE weights[t]]
  /\ UNCHANGED <<params, logits, previous, totalMass, draw, token>>

First(n) == {Indexed[i] : i \in 1..n}

Mass(n) == SumOver(weights, First(n))

\* Fault: the token that crosses top_p is dropped.
CutoffBefore ==
  LET over == {n \in Token : Mass(n) * Whole > params.top_p * totalMass}
  IN  IF over = {} THEN Vocabulary ELSE Min(over) - 1

\* The first token whose cumulated probability exceeds top_p is the last kept.
Cutoff ==
  LET over == {n \in Token : Mass(n) * Whole > params.top_p * totalMass}
  IN  IF over = {} THEN Vocabulary ELSE Min(over)

apply_top_p ==
  /\ Goes("top_p", "min_p")
  /\ weights' =
       IF params.top_p >= Whole THEN weights
       ELSE [t \in Token |-> IF t \in First(Cutoff) THEN weights[t] ELSE 0]
  /\ UNCHANGED <<params, logits, previous, totalMass, draw, token>>

MinPKeeps(t) == weights[t] * Whole >= params.min_p * Max({weights[u] : u \in Token})

apply_min_p ==
  /\ Goes("min_p", "draw")
  /\ weights' = [t \in Token |-> IF MinPKeeps(t) THEN weights[t] ELSE 0]
  /\ UNCHANGED <<params, logits, previous, totalMass, draw, token>>

-----------------------------------------------------------------------------
\* With nothing left every token weighs the same.
Renormalised == IF Sum(weights) > 0 THEN weights ELSE [t \in Token |-> 1]

\* The first token at which the cumulated weight reaches r.
Reaches(w, r) == Min({t \in Token : SumOver(w, 1..t) >= r})

\* r is drawn from the half-open interval [0, 1).  The draw n stands for every r
\* above n - 1 and up to n, in units of the weights, and 0 for r = 0 alone.
Sample(r) ==
  /\ Goes("draw", "done")
  /\ weights' = Renormalised
  /\ r <= Sum(weights')
  /\ draw' = r /\ token' = Reaches(weights', r)
  /\ UNCHANGED <<params, logits, previous, totalMass>>

SamplerNext ==
  \/ Penalise \/ Greedy \/ ToProbabilities
  \/ apply_top_k \/ apply_top_p \/ apply_min_p
  \/ \E r \in 0..(Heaviest * Vocabulary) : Sample(r)

SamplerSpec == SamplerInit /\ [][SamplerNext]_samplerVars

-----------------------------------------------------------------------------
SamplerTypeOK ==
  /\ params \in Settings /\ logits \in [Token -> Int] /\ previous \in Histories
  /\ stage \in {"penalties", "greedy", "softmax", "top_k", "top_p", "min_p", "draw", "done"}
  /\ weights \in [Token -> 0..Heaviest] /\ totalMass \in 0..(Heaviest * Vocabulary)
  /\ draw \in 0..(Heaviest * Vocabulary) /\ token \in 0..Vocabulary

Candidates == {t \in Token : weights[t] > 0}

Original == Softmax(logits)

\* The filters in a row behave as one: what is left is closed upwards in the
\* probabilities before them, contains a token of the greatest one, and loses no
\* more than it has to: with a token that was dropped, either k tokens are more
\* probable, or what is left has the mass top_p, or the token falls below min_p.
CandidatesSound ==
  stage = "draw" /\ params.min_p <= Whole =>
    /\ \E t \in Candidates : Original[t] = Heaviest
    /\ \A t \in Candidates, u \in Token : Original[u] > Original[t] => u \in Candidates
    /\ \A u \in Token \ Candidates : Original[u] > 0 =>
         \/ params.top_k > 0 /\ Cardinality({t \in Token : Original[t] > Original[u]}) >= params.top_k
         \/ SumOver(Original, {t \in Token : Original[t] >= Original[u]} \ {u}) * Whole
              > params.top_p * totalMass
         \/ Original[u] * Whole < params.min_p * Heaviest

\* A token is drawn with the probability the filters left it: over the draws that
\* have a probability, it comes up as often as it weighs, so never when it was
\* filtered out.  (The draw of exactly 0 yields the first token even then.)
DrawsInProportion ==
  stage = "done" /\ ~params.greedy =>
    \A t \in Token :
      Cardinality({r \in 1..Sum(weights) : Reaches(weights, r) = t}) = weights[t]

\* The result of a draw is a token the filters kept.
SampledIsCandidate ==
  stage = "done" /\ draw > 0 => token \in Candidates

SamplingSound == CandidatesSound /\ DrawsInProportion /\ SampledIsCandidate
=============================================================================
