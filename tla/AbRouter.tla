------------------------------ MODULE AbRouter ------------------------------
(***************************************************************************)
(* ABRouter of inference/ab_testing.rs: requests are routed to one of two  *)
(* models by the number of the request, measurements of both are           *)
(* collected, and a rollback ends the test and names the better model.     *)
(*                                                                         *)
(* Of a measurement only tokens per second are kept, as a small number;    *)
(* averages are compared without dividing.  Percentages are out of Period, *)
(* which is 100 in the code.                                               *)
(***************************************************************************)
EXTENDS Integers, Sequences, SequencesExt

CONSTANTS
  Period,       \* 100
  Shares,       \* values of percentage_a, among 0..Period
  Speeds,       \* values of tokens_per_second
  MaxRequests   \* bound of the model on the requests routed

Variants == {"A", "B"}

RouterAssumption ==
  /\ Period \in Nat \ {0} /\ Shares \subseteq 0..Period
  /\ MaxRequests \in Nat /\ Speeds \subseteq Nat

VARIABLES
  percentageA,
  enabled,
  requestCount,
  routed,       \* routed[v]: how many requests were sent to v
  metrics,      \* metrics[v]: the measurements of v
  verdict       \* what rollback returned: a variant, "none", or "" before

routerVars == <<percentageA, enabled, requestCount, routed, metrics, verdict>>

RouterInit ==
  /\ percentageA \in Shares /\ enabled = TRUE /\ requestCount = 0
  /\ routed = [v \in Variants |-> 0]
  /\ metrics = [v \in Variants |-> <<>>]
  /\ verdict = ""

\* The variant of the n-th request, counted from 1.
VariantOf(n) == IF (n - 1) % Period < percentageA THEN "A" ELSE "B"

\* A disabled test routes nothing and counts nothing.
Route ==
  /\ enabled /\ requestCount < MaxRequests
  /\ requestCount' = requestCount + 1
  /\ routed' = [routed EXCEPT ![VariantOf(requestCount')] = @ + 1]
  /\ UNCHANGED <<percentageA, enabled, metrics, verdict>>

\* A request that was routed is measured when it ends, also after a rollback.
RecordMetric(v, speed) ==
  /\ Len(metrics[v]) < routed[v]
  /\ metrics' = [metrics EXCEPT ![v] = Append(@, speed)]
  /\ UNCHANGED <<percentageA, enabled, requestCount, routed, verdict>>

Total(v) == FoldLeft(LAMBDA s, x : s + x, 0, metrics[v])

\* avg_tokens_per_second of A is at least that of B.
AIsAsFast == Total("A") * Len(metrics["B"]) >= Total("B") * Len(metrics["A"])

Better ==
  IF metrics["A"] = <<>> /\ metrics["B"] = <<>> THEN "none"
  ELSE IF metrics["B"] = <<>> THEN "A"
  ELSE IF metrics["A"] = <<>> THEN "B"
  ELSE IF AIsAsFast THEN "A" ELSE "B"

\* The samples need not suffice (min_samples) for a verdict.
Rollback ==
  /\ enabled' = FALSE
  /\ verdict' = Better
  /\ UNCHANGED <<percentageA, requestCount, routed, metrics>>

RouterNext ==
  \/ Route
  \/ \E v \in Variants, s \in Speeds : RecordMetric(v, s)
  \/ Rollback

RouterSpec == RouterInit /\ [][RouterNext]_routerVars

-----------------------------------------------------------------------------
RouterTypeOK ==
  /\ percentageA \in Shares /\ enabled \in BOOLEAN /\ requestCount \in 0..MaxRequests
  /\ routed \in [Variants -> 0..MaxRequests]
  /\ metrics \in [Variants -> Seq(Speeds)]
  /\ verdict \in Variants \cup {"none", ""}

\* However long the test runs, A got its share of every full period, and of a
\* period begun the requests that come first.
SplitIsKept ==
  LET periods == requestCount \div Period
      begun   == requestCount % Period
  IN  routed["A"] = periods * percentageA + (IF begun < percentageA THEN begun ELSE percentageA)
=============================================================================
