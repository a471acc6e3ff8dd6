----------------------------- MODULE RateLimiter -----------------------------
(***************************************************************************)
(* RateLimiter of server/middleware.rs: a bucket of tokens per client,     *)
(* refilled in proportion to the time since its last use, and discarded by *)
(* cleanup_old_buckets when it was not used for five minutes.  Both        *)
(* operations hold the lock of the map.  A unit of time is the time it     *)
(* takes to refill one token (60 s / requests_per_minute); fractions of a  *)
(* token, which admit nobody, are left out.                                *)
(***************************************************************************)
EXTENDS Integers, Sequences

CONSTANTS
  Identifiers,  \* clients as extract_identifier names them
  Capacity,     \* requests_per_minute
  CleanupAge,   \* five minutes, in units of time
  MaxTime       \* bound of the model: the clock

\* Five minutes refill a bucket five times over.
LimiterAssumption ==
  /\ Capacity \in Nat /\ CleanupAge \in Nat /\ MaxTime \in Nat
  /\ CleanupAge >= Capacity

VARIABLES
  buckets,   \* buckets[i]: tokens and time of the last refill, or NoBucket
  clock,
  admitted   \* admitted[i]: the times at which requests of i were let through

limiterVars == <<buckets, clock, admitted>>

NoBucket == [tokens |-> -1, refilled |-> 0]

LimiterInit ==
  /\ buckets = [i \in Identifiers |-> NoBucket]
  /\ clock = 0
  /\ admitted = [i \in Identifiers |-> <<>>]

Min2(a, b) == IF a < b THEN a ELSE b

\* Fault: time adds tokens beyond the capacity.
RefilledUncapped(b) ==
  IF b = NoBucket THEN Capacity ELSE b.tokens + clock - b.refilled

Refilled(b) ==
  IF b = NoBucket THEN Capacity ELSE Min2(Capacity, b.tokens + clock - b.refilled)

CheckRateLimit(i) ==
  LET tokens == Refilled(buckets[i])
      admit  == tokens >= 1
  IN  /\ buckets' = [buckets EXCEPT
                       ![i] = [tokens   |-> IF admit THEN tokens - 1 ELSE tokens,
                               refilled |-> clock]]
      /\ admitted' = IF admit THEN [admitted EXCEPT ![i] = Append(@, clock)] ELSE admitted
      /\ UNCHANGED clock

CleanupOldBuckets ==
  /\ buckets' = [i \in Identifiers |->
                   IF clock - buckets[i].refilled < CleanupAge THEN buckets[i] ELSE NoBucket]
  /\ UNCHANGED <<clock, admitted>>

TimePasses ==
  /\ clock < MaxTime
  /\ clock' = clock + 1
  /\ UNCHANGED <<buckets, admitted>>

LimiterNext ==
  \/ \E i \in Identifiers : CheckRateLimit(i)
  \/ CleanupOldBuckets
  \/ TimePasses

LimiterSpec == LimiterInit /\ [][LimiterNext]_limiterVars

-----------------------------------------------------------------------------
LimiterTypeOK ==
  /\ buckets \in [Identifiers -> {NoBucket} \cup [tokens : 0..Capacity, refilled : 0..MaxTime]]
  /\ clock \in 0..MaxTime
  /\ admitted \in [Identifiers -> Seq(0..MaxTime)]

\* In no stretch of time does a client get more requests through than a full
\* bucket and what flows into it meanwhile; discarding a bucket gives nothing.
AdmissionBounded ==
  \A i \in Identifiers : \A j, k \in DOMAIN admitted[i] :
    j <= k => k - j + 1 <= Capacity + admitted[i][k] - admitted[i][j]
=============================================================================
