-------------------------- MODULE Rationing_proofs --------------------------
(***************************************************************************)
(* What holds of the parts that ration what the server has and of those    *)
(* that choose: the rate limiter, the retries of the proxy, the sessions   *)
(* of the web widget, the pools of connections and of models, the router   *)
(* of A/B tests, the sampler, the grammar of JSON and the resource         *)
(* manager; and at the end, of all of them together.                       *)
(***************************************************************************)
EXTENDS Rationing, DataTheorems, SequenceTheorems, TLAPS

-----------------------------------------------------------------------------
(***************************************************************************)
(* The bound on the admissions of a client holds for every set of clients, *)
(* every capacity and every age at which idle buckets are discarded, as    *)
(* long as a bucket is full by then.  The argument is one of accounting:   *)
(* what a client has got through since an earlier admission, and what it   *)
(* could get through at once, are paid for by one bucket and the time.     *)
(***************************************************************************)

Buckets == {NoBucket} \cup [tokens : 0..Capacity, refilled : 0..MaxTime]

BucketsTyped ==
  /\ LimiterAssumption
  /\ buckets \in [Identifiers -> Buckets]
  /\ clock \in 0..MaxTime
  /\ admitted \in [Identifiers -> Seq(0..MaxTime)]
  /\ \A i \in Identifiers : buckets[i].refilled <= clock

\* What each client could get through at once.
Credit == [i \in Identifiers |-> Refilled(buckets[i])]

\* What a client got through since an earlier admission, together with what it
\* could get through at once, is within the bound.
Paid ==
  \A i \in Identifiers : \A j \in DOMAIN admitted[i] :
    Len(admitted[i]) - j + 1 + Credit[i] <= Capacity + clock - admitted[i][j]

IInv == BucketsTyped /\ Paid /\ AdmissionBounded

-----------------------------------------------------------------------------
\* What flows back into a bucket is within its capacity.
LEMMA RefilledBounded ==
  ASSUME BucketsTyped, NEW i \in Identifiers
  PROVE  Credit[i] \in 0..Capacity /\ Credit[i] = Refilled(buckets[i])
  BY DEF BucketsTyped, LimiterAssumption, Buckets, Credit, Refilled, Min2, NoBucket

LEMMA InitTyped == LimiterAssumption /\ LimiterInit => IInv
  BY DEF LimiterAssumption, LimiterInit, IInv, BucketsTyped, Paid, AdmissionBounded,
         Buckets, NoBucket

\* An admission at this moment is within the bound if it leaves less than a full
\* bucket.
LEMMA PaidAtOnce ==
  ASSUME NEW j \in Int, NEW t \in Int, NEW d \in Int, Capacity \in Int, d < Capacity
  PROVE  j - j + 1 + d <= Capacity + t - t
  OBVIOUS

\* What Append does to the times of a client.
LEMMA Appended ==
  ASSUME NEW s \in Seq(0..MaxTime), NEW t \in 0..MaxTime
  PROVE  /\ Len(s) \in Nat /\ DOMAIN s = 1..Len(s)
         /\ Len(Append(s, t)) = Len(s) + 1 /\ DOMAIN Append(s, t) = 1..(Len(s) + 1)
         /\ Append(s, t)[Len(s) + 1] = t
         /\ \A l \in 1..Len(s) : Append(s, t)[l] = s[l] /\ s[l] \in 0..MaxTime
         /\ \A l \in 1..(Len(s) + 1) : Append(s, t)[l] \in 0..MaxTime
<1> DEFINE S == 0..MaxTime
<1>0. s \in Seq(S) /\ t \in S
  OBVIOUS
<1> HIDE DEF S
<1>1. Append(s, t) \in Seq(S)
  BY <1>0, AppendProperties
<1>2. Len(s) \in Nat /\ DOMAIN s = 1..Len(s) /\ \A l \in 1..Len(s) : s[l] \in S
  BY <1>0, LenProperties, ElementOfSeq
<1>3. Len(Append(s, t)) = Len(s) + 1
  BY <1>0, AppendProperties
<1>4. /\ DOMAIN Append(s, t) = 1..(Len(s) + 1)
      /\ \A l \in 1..(Len(s) + 1) : Append(s, t)[l] \in S
  BY <1>1, <1>3, LenProperties, ElementOfSeq
<1> QED
  BY <1>0, <1>2, <1>3, <1>4, AppendProperties DEF S

\* A request is checked: its bucket is brought up to date, and a token taken.
LEMMA CheckKeeps ==
  ASSUME IInv, NEW i \in Identifiers, CheckRateLimit(i)
  PROVE  IInv'
<1> DEFINE tokens == Credit[i]
           left == IF tokens >= 1 THEN tokens - 1 ELSE tokens
<1>1. tokens \in 0..Capacity
  BY RefilledBounded DEF IInv
<1>2. /\ Capacity \in Nat /\ MaxTime \in Nat /\ clock \in 0..MaxTime /\ clock' = clock
      /\ LimiterAssumption
      /\ buckets' = [buckets EXCEPT ![i] = [tokens |-> left, refilled |-> clock]]
      /\ buckets \in [Identifiers -> Buckets]
      /\ admitted \in [Identifiers -> Seq(0..MaxTime)]
      /\ \A x \in Identifiers : buckets[x].refilled <= clock
  BY RefilledBounded DEF CheckRateLimit, IInv, BucketsTyped, LimiterAssumption
<1>3. left \in 0..Capacity
  BY <1>1, <1>2
<1> HIDE DEF left
<1>4. [tokens |-> left, refilled |-> clock] \in Buckets
  BY <1>2, <1>3 DEF Buckets
<1>5. /\ buckets' \in [Identifiers -> Buckets]
      /\ \A x \in Identifiers : buckets'[x].refilled <= clock
  BY <1>2, <1>4
<1>6. Credit'[i] = left
  <2>1. buckets'[i] = [tokens |-> left, refilled |-> clock]
    BY <1>2
  <2>2. buckets'[i] # NoBucket
    BY <2>1, <1>3 DEF NoBucket
  <2>3. buckets'[i].tokens = left /\ buckets'[i].refilled = clock'
    BY <2>1, <1>2
  <2> QED
    BY <2>2, <2>3, <1>2, <1>3 DEF Credit, Refilled, Min2
<1>10. Capacity \in Nat /\ MaxTime \in Nat /\ clock \in Nat /\ tokens \in Nat /\ tokens <= Capacity
  BY <1>1, <1>2
<1>7. \A x \in Identifiers : x # i =>
        buckets'[x] = buckets[x] /\ Credit'[x] = Credit[x]
  BY <1>2 DEF Credit, Refilled
<1>8. CASE tokens >= 1
  <2>1. left = tokens - 1
    BY <1>8 DEF left
  <2>2. admitted' = [admitted EXCEPT ![i] = Append(admitted[i], clock)]
    BY <1>8, RefilledBounded DEF CheckRateLimit, IInv
  <2>3. admitted' \in [Identifiers -> Seq(0..MaxTime)]
    BY <2>2, <1>2
  <2>4. BucketsTyped'
    BY <2>3, <1>2, <1>5 DEF BucketsTyped, LimiterAssumption, Buckets, NoBucket
  <2>5. ASSUME NEW x \in Identifiers, NEW j \in DOMAIN admitted'[x]
        PROVE  Len(admitted'[x]) - j + 1 + Credit'[x]
                 <= Capacity + clock - admitted'[x][j]
    <3>1. CASE x # i
      BY <3>1, <2>2, <2>5, <1>2, <1>7 DEF IInv, Paid
    <3>2. CASE x = i
      <4> DEFINE n == Len(admitted[i])
      <4>0. /\ admitted'[i] = Append(admitted[i], clock)
            /\ admitted[i] \in Seq(0..MaxTime) /\ clock \in 0..MaxTime
        BY <1>2, <2>2
      <4>1. /\ n \in Nat /\ DOMAIN admitted[i] = 1..n
            /\ admitted'[i][n + 1] = clock
            /\ \A l \in 1..n : admitted'[i][l] = admitted[i][l] /\ admitted[i][l] \in 0..MaxTime
        BY <4>0, Appended
      <4>2. /\ Len(admitted'[i]) = n + 1 /\ DOMAIN admitted'[i] = 1..(n + 1)
            /\ \A l \in 1..(n + 1) : admitted'[i][l] \in 0..MaxTime
        BY <4>0, Appended
      <4>5. Credit'[x] = tokens - 1 /\ n \in Nat
        BY <1>6, <2>1, <3>2, <4>1
      <4> HIDE DEF n
      <4>3. CASE j = n + 1
        <5>1. admitted'[i][j] = clock
          BY <4>1, <4>3
        <5>2. j \in Int /\ clock \in Int /\ Credit'[x] \in Int /\ Credit'[x] < Capacity
          BY <4>3, <4>5, <1>10
        <5>3. j - j + 1 + Credit'[x] <= Capacity + clock - clock
          BY <5>2, <1>10, PaidAtOnce
        <5>4. Len(admitted'[x]) = j /\ admitted'[x][j] = clock
          BY <5>1, <4>2, <4>3, <3>2
        <5> QED
          BY <5>3, <5>4
      <4>4. CASE j \in 1..n
        <5>1. admitted'[i][j] = admitted[i][j] /\ admitted[i][j] \in 0..MaxTime
          BY <4>1, <4>4
        <5>2. n - j + 1 + tokens <= Capacity + clock - admitted[i][j]
          BY <4>1, <4>4 DEF IInv, Paid
        <5>3. /\ n \in Int /\ j \in Int /\ tokens \in Int /\ clock \in Int /\ Capacity \in Int
              /\ admitted[i][j] \in Int /\ Credit'[x] \in Int
              /\ Credit'[x] = tokens - 1
          BY <5>1, <4>4, <4>5, <1>10
        <5>4. Len(admitted'[x]) \in Int /\ Len(admitted'[x]) = n + 1
          BY <4>2, <3>2, <5>3
        <5> DEFINE m == Len(admitted'[x])
                   a == admitted[i][j]
                   c == Credit'[x]
        <5>5. /\ n - j + 1 + tokens <= Capacity + clock - a
              /\ m = n + 1 /\ c = tokens - 1 /\ m \in Int /\ a \in Int /\ c \in Int
          BY <5>2, <5>3, <5>4
        <5> HIDE DEF m, a, c, tokens
        <5>6. m - j + 1 + c <= Capacity + clock - a
          BY <5>3, <5>5
        <5> QED
          BY <5>1, <5>6, <3>2 DEF m, a, c
      <4> QED
        BY <4>2, <4>3, <4>4, <4>5, <2>5, <3>2
    <3> QED
      BY <3>1, <3>2
  <2>6. Paid'
    BY <2>5, <1>2 DEF Paid
  <2>7. ASSUME NEW x \in Identifiers, NEW j \in DOMAIN admitted'[x],
               NEW k \in DOMAIN admitted'[x], j <= k
        PROVE  k - j + 1 <= Capacity + admitted'[x][k] - admitted'[x][j]
    <3>1. CASE x # i
      BY <3>1, <2>2, <2>7, <1>2 DEF IInv, AdmissionBounded
    <3>2. CASE x = i
      <4> DEFINE n == Len(admitted[i])
      <4>0. /\ admitted'[i] = Append(admitted[i], clock)
            /\ admitted[i] \in Seq(0..MaxTime) /\ clock \in 0..MaxTime
        BY <1>2, <2>2
      <4>1. /\ n \in Nat /\ DOMAIN admitted[i] = 1..n
            /\ admitted'[i][n + 1] = clock
            /\ \A l \in 1..n : admitted'[i][l] = admitted[i][l] /\ admitted[i][l] \in 0..MaxTime
        BY <4>0, Appended
      <4>2. /\ Len(admitted'[i]) = n + 1 /\ DOMAIN admitted'[i] = 1..(n + 1)
            /\ \A l \in 1..(n + 1) : admitted'[i][l] \in 0..MaxTime
        BY <4>0, Appended
      <4>5. k \in 1..(n + 1) /\ n \in Nat
        BY <4>1, <4>2, <2>7, <3>2
      <4>3. CASE k = n + 1
        <5>1. admitted'[i][k] = clock /\ admitted'[i][j] \in 0..MaxTime
          <6>1. j \in 1..(n + 1)
            BY <4>2, <2>7, <3>2
          <6> QED
            BY <6>1, <4>1, <4>2, <4>3
        <5>2. Len(admitted'[i]) - j + 1 + left <= Capacity + clock - admitted'[i][j]
          BY <2>5, <2>7, <3>2, <1>6
        <5>3. /\ left \in Nat /\ j \in Int /\ Len(admitted'[i]) \in Int
              /\ clock \in Int /\ Capacity \in Int /\ admitted'[i][j] \in Int
          BY <1>3, <1>10, <4>1, <4>2, <2>7, <3>2, <5>1
        <5> DEFINE m == Len(admitted'[i])
                   a == admitted'[i][j]
        <5>6. m - j + 1 + left <= Capacity + clock - a /\ m \in Int /\ a \in Int
          BY <5>2, <5>3
        <5> HIDE DEF m, a
        <5>7. m - j + 1 <= Capacity + clock - a
          BY <5>3, <5>6
        <5>4. Len(admitted'[i]) - j + 1 <= Capacity + clock - admitted'[i][j]
          BY <5>7 DEF m, a
        <5>5. Len(admitted'[i]) = k
          BY <4>2, <4>3
        <5> QED
          BY <5>1, <5>4, <5>5, <3>2
      <4>4. CASE k \in 1..n
        <5>1. j \in 1..n
          BY <4>1, <4>2, <4>4, <2>7, <3>2
        <5>2. admitted'[i][j] = admitted[i][j] /\ admitted'[i][k] = admitted[i][k]
          BY <4>1, <4>4, <5>1
        <5> QED
          BY <5>1, <5>2, <4>1, <4>4, <3>2, <2>7 DEF IInv, AdmissionBounded
      <4> HIDE DEF n
      <4> QED
        BY <4>3, <4>4, <4>5
    <3> QED
      BY <3>1, <3>2
  <2>8. AdmissionBounded'
    BY <2>7 DEF AdmissionBounded
  <2> QED
    BY <2>4, <2>6, <2>8 DEF IInv
<1>9. CASE ~(tokens >= 1)
  <2>1. left = tokens
    BY <1>9 DEF left
  <2>2. admitted' = admitted
    BY <1>9, RefilledBounded DEF CheckRateLimit, IInv
  <2>3. BucketsTyped'
    BY <2>2, <1>2, <1>5 DEF BucketsTyped, LimiterAssumption, Buckets, NoBucket
  <2>4. \A x \in Identifiers : Credit'[x] = Credit[x]
    BY <1>6, <1>7, <2>1
  <2>5. Paid'
    BY <2>2, <2>4, <1>2 DEF IInv, Paid
  <2>6. AdmissionBounded'
    BY <2>2 DEF IInv, AdmissionBounded
  <2> QED
    BY <2>3, <2>5, <2>6 DEF IInv
<1> QED
  BY <1>8, <1>9

\* A bucket that is discarded was full again: its owner gains nothing.
LEMMA CleanupKeeps ==
  ASSUME IInv, CleanupOldBuckets
  PROVE  IInv'
<1>1. /\ Capacity \in Nat /\ CleanupAge \in Nat /\ CleanupAge >= Capacity
      /\ MaxTime \in Nat /\ clock \in 0..MaxTime
      /\ clock' = clock /\ admitted' = admitted
      /\ buckets \in [Identifiers -> Buckets]
      /\ \A i \in Identifiers : buckets[i].refilled <= clock
      /\ buckets' = [i \in Identifiers |->
                       IF clock - buckets[i].refilled < CleanupAge THEN buckets[i] ELSE NoBucket]
  BY DEF CleanupOldBuckets, IInv, BucketsTyped, LimiterAssumption
<1>2. ASSUME NEW i \in Identifiers
      PROVE  /\ buckets'[i] \in Buckets /\ buckets'[i].refilled <= clock
             /\ Credit'[i] = Credit[i]
  <2>1. CASE clock - buckets[i].refilled < CleanupAge
    BY <2>1, <1>1 DEF Credit, Refilled
  <2>2. CASE ~(clock - buckets[i].refilled < CleanupAge)
    <3>1. buckets'[i] = NoBucket
      BY <2>2, <1>1
    <3>2. Credit[i] = Capacity
      BY <2>2, <1>1 DEF Credit, Refilled, Min2, Buckets, NoBucket
    <3>3. Credit'[i] = Capacity
      BY <3>1 DEF Credit, Refilled
    <3> QED
      BY <3>1, <3>2, <3>3, <1>1 DEF Buckets, NoBucket
  <2> QED
    BY <2>1, <2>2
<1>3. BucketsTyped'
  <2>1. buckets' \in [Identifiers -> Buckets]
    BY <1>1, <1>2
  <2> QED
    BY <2>1, <1>1, <1>2 DEF IInv, BucketsTyped, LimiterAssumption, Buckets, NoBucket
<1>4. Paid'
  BY <1>1, <1>2 DEF IInv, Paid
<1>5. AdmissionBounded'
  BY <1>1 DEF IInv, AdmissionBounded
<1> QED
  BY <1>3, <1>4, <1>5 DEF IInv

\* A unit of time is worth at most one token.
LEMMA TimeKeeps ==
  ASSUME IInv, TimePasses
  PROVE  IInv'
<1>1. /\ Capacity \in Nat /\ MaxTime \in Nat /\ clock \in 0..MaxTime
      /\ clock < MaxTime /\ clock' = clock + 1
      /\ admitted' = admitted /\ buckets' = buckets
      /\ buckets \in [Identifiers -> Buckets]
      /\ admitted \in [Identifiers -> Seq(0..MaxTime)]
      /\ \A i \in Identifiers : buckets[i].refilled <= clock
  BY DEF TimePasses, IInv, BucketsTyped, LimiterAssumption
<1>2. Capacity \in Nat /\ MaxTime \in Nat /\ clock \in Nat /\ clock' = clock + 1
  BY <1>1
<1>3. BucketsTyped'
  <2>1. clock' \in 0..MaxTime
    BY <1>1
  <2>2. ASSUME NEW i \in Identifiers PROVE buckets[i].refilled <= clock'
    <3>1. buckets[i].refilled \in Int
      BY <1>1 DEF Buckets, NoBucket
    <3> QED
      BY <3>1, <1>1
  <2> QED
    BY <2>1, <2>2, <1>1 DEF IInv, BucketsTyped, LimiterAssumption, Buckets, NoBucket
<1>4. ASSUME NEW i \in Identifiers, NEW j \in DOMAIN admitted[i]
      PROVE  Len(admitted[i]) - j + 1 + Credit'[i]
               <= Capacity + clock' - admitted[i][j]
  <2>1. Credit[i] \in 0..Capacity
    BY RefilledBounded DEF IInv
  <2>2. Credit'[i] \in 0..(Credit[i] + 1)
    <3> DEFINE b == buckets[i]
    <3>1. b \in Buckets /\ b.refilled <= clock
      BY <1>1
    <3>2. /\ Credit[i] = IF b = NoBucket THEN Capacity ELSE Min2(Capacity, b.tokens + clock - b.refilled)
          /\ Credit'[i] = IF b = NoBucket THEN Capacity ELSE Min2(Capacity, b.tokens + clock' - b.refilled)
      BY <1>1 DEF Credit, Refilled
    <3> HIDE DEF b
    <3>3. CASE b = NoBucket
      BY <3>2, <3>3, <1>2
    <3>4. CASE b # NoBucket
      <4>1. b.tokens \in Nat /\ b.refilled \in Nat
        BY <3>1, <3>4 DEF Buckets
      <4> QED
        BY <3>1, <3>2, <3>4, <4>1, <1>2 DEF Min2
    <3> QED
      BY <3>3, <3>4
  <2>3. /\ Len(admitted[i]) \in Int /\ j \in Int /\ admitted[i][j] \in Int
    BY <1>1, <1>4
  <2>4. Len(admitted[i]) - j + 1 + Credit[i] <= Capacity + clock - admitted[i][j]
    BY <1>4 DEF IInv, Paid
  <2> DEFINE n == Len(admitted[i])
             a == admitted[i][j]
             c == Credit[i]
             d == Credit'[i]
             u == clock'
  <2>5. /\ n \in Int /\ j \in Int /\ a \in Int /\ c \in Int /\ d \in Int /\ u \in Int
        /\ Capacity \in Int /\ clock \in Int
        /\ u = clock + 1 /\ d <= c + 1
        /\ n - j + 1 + c <= Capacity + clock - a
    BY <2>1, <2>2, <2>3, <2>4, <1>2
  <2> HIDE DEF n, a, c, d, u
  <2>6. n - j + 1 + d <= Capacity + u - a
    BY <2>5
  <2> QED
    BY <2>6 DEF n, a, c, d, u
<1>5. Paid'
  BY <1>1, <1>4 DEF Paid
<1>6. AdmissionBounded'
  BY <1>1 DEF IInv, AdmissionBounded
<1> QED
  BY <1>3, <1>5, <1>6 DEF IInv

LEMMA Inductive == IInv /\ [LimiterNext]_limiterVars => IInv'
<1> SUFFICES ASSUME IInv, [LimiterNext]_limiterVars PROVE IInv'
  OBVIOUS
<1>1. CASE LimiterNext
  BY <1>1, CheckKeeps, CleanupKeeps, TimeKeeps DEF LimiterNext
<1>2. CASE UNCHANGED limiterVars
  BY <1>2 DEF IInv, BucketsTyped, LimiterAssumption, Paid, AdmissionBounded, Buckets,
              NoBucket, Credit, Refilled, Min2, limiterVars
<1> QED
  BY <1>1, <1>2

\* The limiter never lets more of a client's requests through, in any stretch of
\* time, than a full bucket and what flows into it: check_rate_limit with
\* cleanup_old_buckets of server/middleware.rs.
THEOREM AdmissionAlwaysBounded ==
  LimiterAssumption => (LimiterSpec => []AdmissionBounded)
<1>1. IInv => AdmissionBounded
  BY DEF IInv
<1> QED
  BY InitTyped, Inductive, <1>1, PTL DEF LimiterSpec
-----------------------------------------------------------------------------
(***************************************************************************)
(* How often a call through the proxy is executed, for every set of calls  *)
(* and every number of retries, over a network that loses and delays.  The *)
(* argument: every request carries the number of an attempt that was       *)
(* begun, no attempt beyond the limit is begun, and an answer exists only  *)
(* where the server executed the request.                                  *)
(***************************************************************************)

Limit == IF MaxRetries = 0 THEN 1 ELSE MaxRetries

Stages == {"new", "ready", "waiting", "pause", "ok", "error"}

PTyped ==
  /\ ProxyAssumption
  /\ stage \in [Calls -> Stages]
  /\ attempt \in [Calls -> Nat]
  /\ requests \subseteq Calls \X Nat
  /\ answers \subseteq Calls \X Nat \X Statuses
  /\ executed \subseteq Calls \X Nat

\* A call that may send has an attempt left.
AttemptsLeft ==
  \A c \in Calls :
    /\ attempt[c] <= Limit
    /\ stage[c] = "new" => attempt[c] = 0
    /\ stage[c] \in {"ready", "pause"} => attempt[c] < Limit

RequestsNumbered ==
  \A r \in requests \cup executed : r[2] \in 1..attempt[r[1]]

AnswersExecuted ==
  \A c \in Calls, n \in Nat, s \in Statuses : <<c, n, s>> \in answers => <<c, n>> \in executed

OkExecuted ==
  \A c \in Calls : stage[c] = "ok" => <<c, attempt[c]>> \in executed

PInv == PTyped /\ AttemptsLeft /\ RequestsNumbered /\ AnswersExecuted /\ OkExecuted

-----------------------------------------------------------------------------
LEMMA PInvInit == ProxyAssumption /\ ProxyInit => PInv
  BY DEF ProxyAssumption, ProxyInit, PInv, PTyped, AttemptsLeft, RequestsNumbered,
         AnswersExecuted, OkExecuted, Stages, Limit

LEMMA SendKeeps ==
  ASSUME PInv, NEW c \in Calls, Send(c)
  PROVE  PInv'
<1>1. /\ ProxyAssumption /\ MaxRetries \in Nat /\ Limit \in Nat
      /\ stage \in [Calls -> Stages] /\ attempt \in [Calls -> Nat]
      /\ stage[c] = "ready" /\ attempt[c] < Limit
  BY DEF PInv, PTyped, ProxyAssumption, AttemptsLeft, Send, Limit
<1>2. /\ attempt' = [attempt EXCEPT ![c] = attempt[c] + 1]
      /\ answers' = answers /\ executed' = executed
      /\ requests' \subseteq requests \cup {<<c, attempt[c] + 1>>}
      /\ stage' \in {[stage EXCEPT ![c] = "waiting"], [stage EXCEPT ![c] = "error"]}
  BY DEF Send, Becomes
<1>3. attempt' \in [Calls -> Nat] /\ stage' \in [Calls -> Stages]
  BY <1>1, <1>2 DEF Stages
<1>4. PTyped'
  BY <1>1, <1>2, <1>3 DEF PInv, PTyped, ProxyAssumption
<1>5. AttemptsLeft'
  BY <1>1, <1>2 DEF PInv, AttemptsLeft, Limit
<1>6. RequestsNumbered'
  <2> SUFFICES ASSUME NEW r \in requests' \cup executed'
               PROVE  r[2] \in 1..attempt'[r[1]]
    BY DEF RequestsNumbered
  <2>1. CASE r = <<c, attempt[c] + 1>>
    BY <2>1, <1>1, <1>2
  <2>2. CASE r \in requests \cup executed
    <3>1. r[1] \in Calls /\ r[2] \in 1..attempt[r[1]]
      BY <2>2 DEF PInv, PTyped, RequestsNumbered
    <3>2. attempt[r[1]] \in Nat /\ attempt'[r[1]] \in Nat /\ attempt[r[1]] <= attempt'[r[1]]
      BY <3>1, <1>1, <1>2
    <3> QED
      BY <3>1, <3>2
  <2> QED
    BY <2>1, <2>2, <1>2
<1>7. AnswersExecuted'
  BY <1>2 DEF PInv, AnswersExecuted
<1>8. OkExecuted'
  BY <1>1, <1>2 DEF PInv, OkExecuted
<1> QED
  BY <1>4, <1>5, <1>6, <1>7, <1>8 DEF PInv

\* A call that moves on without an attempt.  It may send again only if it has
\* one left, and it is "ok" only if its last one was executed.
LEMMA MoveKeeps ==
  ASSUME PInv, NEW c \in Calls, NEW s \in Stages \ {"new"},
         stage' = [stage EXCEPT ![c] = s], attempt' = attempt,
         requests' = requests, executed' = executed, answers' \subseteq answers,
         s \in {"ready", "pause"} => attempt[c] < Limit,
         s = "ok" => <<c, attempt[c]>> \in executed
  PROVE  PInv'
<1>1. PTyped'
  BY DEF PInv, PTyped, ProxyAssumption
<1>2. AttemptsLeft'
  BY DEF PInv, PTyped, AttemptsLeft, Limit
<1>3. RequestsNumbered' /\ AnswersExecuted'
  BY DEF PInv, RequestsNumbered, AnswersExecuted
<1>4. OkExecuted'
  BY DEF PInv, PTyped, OkExecuted
<1> QED
  BY <1>1, <1>2, <1>3, <1>4 DEF PInv

\* What an error leads to: a pause only if an attempt is left.
LEMMA ErrorLeadsTo ==
  ASSUME PInv, NEW c \in Calls, NEW retryable
  PROVE  /\ AfterError(c, retryable) \in {"pause", "error"}
         /\ AfterError(c, retryable) = "pause" => attempt[c] < Limit
  BY DEF PInv, PTyped, ProxyAssumption, AfterError, Limit

LEMMA ExecuteKeeps ==
  ASSUME PInv, Execute
  PROVE  PInv'
<1>1. PICK r \in requests, status \in Statuses :
        /\ requests' = requests \ {r} /\ executed' = executed \cup {r}
        /\ answers' = answers \cup {<<r[1], r[2], status>>}
        /\ stage' = stage /\ attempt' = attempt
  BY DEF Execute
<1>2. r \in Calls \X Nat /\ r = <<r[1], r[2]>>
  BY DEF PInv, PTyped
<1>3. PTyped'
  BY <1>1, <1>2 DEF PInv, PTyped, ProxyAssumption
<1>4. AttemptsLeft' /\ RequestsNumbered' /\ OkExecuted'
  BY <1>1 DEF PInv, AttemptsLeft, RequestsNumbered, OkExecuted, Limit
<1>5. AnswersExecuted'
  <2> SUFFICES ASSUME NEW c \in Calls, NEW n \in Nat, NEW s \in Statuses,
                      <<c, n, s>> \in answers'
               PROVE  <<c, n>> \in executed'
    BY DEF AnswersExecuted
  <2>1. CASE <<c, n, s>> = <<r[1], r[2], status>>
    <3>1. c = r[1] /\ n = r[2]
      BY <2>1
    <3> QED
      BY <3>1, <1>1, <1>2
  <2>2. CASE <<c, n, s>> \in answers
    BY <2>2, <1>1 DEF PInv, AnswersExecuted
  <2> QED
    BY <2>1, <2>2, <1>1
<1> QED
  BY <1>3, <1>4, <1>5 DEF PInv

LEMMA PInvNext == PInv /\ [ProxyNext]_proxyVars => PInv'
<1> SUFFICES ASSUME PInv, [ProxyNext]_proxyVars PROVE PInv'
  OBVIOUS
<1>0. ASSUME stage' = stage, attempt' = attempt, requests' \subseteq requests,
             answers' \subseteq answers, executed' = executed
      PROVE  PInv'
  BY <1>0 DEF PInv, PTyped, ProxyAssumption, AttemptsLeft, RequestsNumbered,
              AnswersExecuted, OkExecuted, Limit
<1>1. CASE AddEndpoint \/ RemoveEndpoint \/ SetEnabled
  BY <1>1, <1>0 DEF AddEndpoint, RemoveEndpoint, SetEnabled, NetUnchanged
<1>2. ASSUME NEW c \in Calls, ForwardRequest(c) PROVE PInv'
  <2>1. PICK s \in {"ready", "error"} : stage' = [stage EXCEPT ![c] = s]
    BY <1>2 DEF ForwardRequest, Becomes
  <2>2. attempt[c] < Limit
    BY <1>2 DEF ForwardRequest, PInv, PTyped, ProxyAssumption, AttemptsLeft, Limit
  <2> QED
    BY <1>2, <2>1, <2>2, MoveKeeps DEF ForwardRequest, NetUnchanged, Stages
<1>3. ASSUME NEW c \in Calls, Send(c) PROVE PInv'
  BY <1>3, SendKeeps
<1>4. ASSUME NEW c \in Calls, ReceiveAnswer(c) PROVE PInv'
  <2>1. PICK status \in Statuses :
          /\ <<c, attempt[c], status>> \in answers
          /\ answers' = answers \ {<<c, attempt[c], status>>}
          /\ stage' = [stage EXCEPT ![c] = IF status = "success" THEN "ok"
                                           ELSE AfterError(c, status \in Retryable)]
    BY <1>4 DEF ReceiveAnswer, Becomes
  <2>2. <<c, attempt[c]>> \in executed
    <3>1. attempt[c] \in Nat
      BY DEF PInv, PTyped
    <3> QED
      BY <2>1, <3>1 DEF PInv, AnswersExecuted
  <2> DEFINE s == IF status = "success" THEN "ok" ELSE AfterError(c, status \in Retryable)
  <2>3. s \in {"ok", "pause", "error"} /\ (s = "pause" => attempt[c] < Limit)
    BY ErrorLeadsTo
  <2>4. /\ stage' = [stage EXCEPT ![c] = s] /\ attempt' = attempt
        /\ requests' = requests /\ executed' = executed /\ answers' \subseteq answers
    BY <1>4, <2>1 DEF ReceiveAnswer
  <2> HIDE DEF s
  <2> QED
    BY <2>2, <2>3, <2>4, MoveKeeps DEF Stages
<1>5. ASSUME NEW c \in Calls, GiveUp(c) PROVE PInv'
  <2> DEFINE s == AfterError(c, TRUE)
  <2>1. s \in {"pause", "error"} /\ (s = "pause" => attempt[c] < Limit)
    BY ErrorLeadsTo
  <2>2. /\ stage' = [stage EXCEPT ![c] = s] /\ attempt' = attempt
        /\ requests' = requests /\ executed' = executed /\ answers' \subseteq answers
    BY <1>5 DEF GiveUp, Becomes, NetUnchanged
  <2> HIDE DEF s
  <2> QED
    BY <2>1, <2>2, MoveKeeps DEF Stages
<1>6. ASSUME NEW c \in Calls, PauseEnds(c) PROVE PInv'
  <2>1. attempt[c] < Limit
    BY <1>6 DEF PauseEnds, PInv, AttemptsLeft
  <2> QED
    BY <1>6, <2>1, MoveKeeps DEF PauseEnds, Becomes, NetUnchanged, Stages
<1>7. CASE Execute
  BY <1>7, ExecuteKeeps
<1>8. CASE Lose
  BY <1>8, <1>0 DEF Lose
<1>9. CASE UNCHANGED proxyVars
  BY <1>9, <1>0 DEF proxyVars
<1> QED
  BY <1>1, <1>2, <1>3, <1>4, <1>5, <1>6, <1>7, <1>8, <1>9 DEF ProxyNext, CallStep

\* The numbers of the attempts tell the executions of a call apart.
LEMMA PInvBounds == PInv => ExecutionsBounded
<1> SUFFICES ASSUME PInv, NEW c \in Calls
             PROVE  /\ Cardinality(Executions(c)) <= Limit
                    /\ stage[c] = "ok" => <<c, attempt[c]>> \in executed
  BY DEF ExecutionsBounded, Limit
<1>1. Limit \in Nat /\ attempt[c] \in Nat /\ attempt[c] <= Limit
  BY DEF PInv, PTyped, ProxyAssumption, AttemptsLeft, Limit
<1> DEFINE f == [k \in 1..Limit |-> <<c, k>>]
           All == {f[k] : k \in 1..Limit}
<1>2. Executions(c) \subseteq All
  <2> SUFFICES ASSUME NEW r \in Executions(c) PROVE r \in All
    OBVIOUS
  <2>1. r \in Calls \X Nat /\ r[1] = c /\ r[2] \in 1..attempt[c]
    BY DEF Executions, PInv, PTyped, RequestsNumbered
  <2>2. r = <<c, r[2]>> /\ r[2] \in 1..Limit
    BY <2>1, <1>1
  <2> QED
    BY <2>2
<1>3. IsFiniteSet(1..Limit) /\ Cardinality(1..Limit) = Limit
  <2>1. 1 \in Int /\ Limit \in Int /\ (IF 1 > Limit THEN 0 ELSE Limit - 1 + 1) = Limit
    BY <1>1
  <2> QED
    BY <2>1, FS_Interval
<1>4. IsFiniteSet(All) /\ Cardinality(All) <= Limit
  <2>1. f \in Surjection(1..Limit, All)
    BY DEF Surjection
  <2> HIDE DEF f, All
  <2> QED
    BY <2>1, <1>3, FS_Surjection
<1> HIDE DEF All
<1>5. /\ Cardinality(Executions(c)) <= Cardinality(All)
      /\ Cardinality(Executions(c)) \in Nat /\ Cardinality(All) \in Nat
  BY <1>2, <1>4, FS_Subset, FS_CardinalityType
<1>6. Cardinality(Executions(c)) <= Limit
  BY <1>1, <1>4, <1>5
<1> QED
  BY <1>6 DEF PInv, OkExecuted

\* However requests and answers are lost and delayed, the server executes a call
\* of forward_request at most max_retries times, also for callers that gave up,
\* and a call that returns a response was executed (model/proxy.rs).
THEOREM ExecutionsAlwaysBounded ==
  ProxyAssumption => (ProxySpec => []ExecutionsBounded)
  BY PInvInit, PInvNext, PInvBounds, PTL DEF ProxySpec
-----------------------------------------------------------------------------
(***************************************************************************)
(* The limit on the sessions of the web widget, for every set of sessions  *)
(* and threads and every limit: only a registration, which looks at the    *)
(* limit, adds to the sessions that were not revived.                      *)
(***************************************************************************)

Lasting == Active \ revived

\* revived is within Active, else a registration could make room for the session
\* it revives.
WInv ==
  /\ WidgetAssumption
  /\ session \in [Sessions -> {"none", "active", "expired"}]
  /\ revived \subseteq Active
  /\ SessionsBounded

LEMMA WInvInit == WidgetAssumption /\ WidgetInit => WInv
<1> SUFFICES ASSUME WidgetAssumption, WidgetInit PROVE WInv
  OBVIOUS
<1>1. Active \ revived = {} /\ revived = {}
  BY DEF WidgetInit, Active
<1>2. Cardinality(Active \ revived) <= MaxSessions
  BY <1>1, FS_EmptySet DEF WidgetAssumption
<1> QED
  BY <1>1, <1>2 DEF WInv, WidgetInit, SessionsBounded

\* A step that adds no session to those that last keeps the bound.
LEMMA NoneAdded ==
  ASSUME WInv, Lasting' \subseteq Lasting
  PROVE  SessionsBounded'
<1>1. IsFiniteSet(Active) /\ IsFiniteSet(Lasting) /\ MaxSessions \in Nat
  BY FS_Subset DEF WInv, WidgetAssumption, Active, Lasting
<1>2. /\ Cardinality(Lasting') <= Cardinality(Lasting)
      /\ Cardinality(Lasting') \in Nat /\ Cardinality(Lasting) \in Nat
  BY <1>1, FS_Subset, FS_CardinalityType
<1>3. Cardinality(Lasting) <= MaxSessions
  BY DEF WInv, SessionsBounded, Lasting
<1>4. Cardinality(Lasting') <= MaxSessions
  BY <1>1, <1>2, <1>3
<1> QED
  BY <1>4 DEF SessionsBounded, Lasting

LEMMA RegisterKeeps ==
  ASSUME WInv, NEW s \in Sessions, RegisterSession(s)
  PROVE  WInv'
<1>1. /\ session' \in [Sessions -> {"none", "active", "expired"}]
      /\ Active' = Active \cup {s}
      /\ revived' \subseteq Active'
      /\ Lasting' \subseteq Active \cup {s}
  BY DEF WInv, RegisterSession, Active, Lasting
<1>2. IsFiniteSet(Active) /\ Cardinality(Active) \in Nat /\ MaxSessions \in Nat
  <2>1. Active \subseteq Sessions /\ IsFiniteSet(Sessions) /\ MaxSessions \in Nat
    BY DEF WInv, WidgetAssumption, Active
  <2> QED
    BY <2>1, FS_Subset, FS_CardinalityType
<1>3. IsFiniteSet(Active \cup {s}) /\ Cardinality(Active \cup {s}) <= Cardinality(Active) + 1
  <2>1. /\ IsFiniteSet(Active \cup {s})
        /\ \/ Cardinality(Active \cup {s}) = Cardinality(Active)
           \/ Cardinality(Active \cup {s}) = Cardinality(Active) + 1
    BY <1>2, FS_AddElement, Zenon
  <2> QED
    BY <2>1, <1>2
<1>4. /\ Cardinality(Lasting') <= Cardinality(Active \cup {s})
      /\ Cardinality(Lasting') \in Nat /\ Cardinality(Active \cup {s}) \in Nat
  BY <1>1, <1>3, FS_Subset, FS_CardinalityType
<1>5. Cardinality(Active) < MaxSessions
  BY DEF RegisterSession
<1>6. Cardinality(Lasting') <= MaxSessions
  BY <1>2, <1>3, <1>4, <1>5
<1> QED
  BY <1>1, <1>6 DEF WInv, WidgetAssumption, SessionsBounded, Lasting

LEMMA WInvNext == WInv /\ [WidgetNext]_widgetVars => WInv'
<1> SUFFICES ASSUME WInv, [WidgetNext]_widgetVars PROVE WInv'
  OBVIOUS
<1> DEFINE Typed == /\ session \in [Sessions -> {"none", "active", "expired"}]
                    /\ revived \subseteq Active
<1>0. ASSUME Typed', Lasting' \subseteq Lasting PROVE WInv'
  BY <1>0, NoneAdded DEF WInv, WidgetAssumption
<1>1. CASE Connect
  BY <1>1, <1>0 DEF Connect, WInv, Active, Lasting
<1>2. CASE Disconnect
  BY <1>2, <1>0 DEF Disconnect, WInv, Active, Lasting
<1>3. CASE ReceiveMessages
  BY <1>3, <1>0 DEF ReceiveMessages, WInv, Active, Lasting
<1>4. CASE EvictExpired
  BY <1>4, <1>0 DEF EvictExpired, WInv, Active, Lasting
<1>5. ASSUME NEW s \in Sessions, RegisterSession(s) PROVE WInv'
  BY <1>5, RegisterKeeps
<1>6. ASSUME NEW s \in Sessions, RemoveSession(s) PROVE WInv'
  BY <1>6, <1>0 DEF RemoveSession, WInv, Active, Lasting
<1>7. ASSUME NEW s \in Sessions, Expires(s) PROVE WInv'
  BY <1>7, <1>0 DEF Expires, WInv, Active, Lasting
<1>8. ASSUME NEW s \in Sessions, NEW h \in Handlers, TouchSession(h, s) PROVE WInv'
  <2>1. CASE session[s] = "expired"
    BY <1>8, <2>1, <1>0 DEF TouchSession, WInv, Active, Lasting
  <2>2. CASE session[s] # "expired"
    BY <1>8, <2>2, <1>0 DEF TouchSession, WInv, Active, Lasting
  <2> QED
    BY <2>1, <2>2
<1>9. ASSUME NEW h \in Handlers, QueueMessage(h) PROVE WInv'
  BY <1>9, <1>0 DEF QueueMessage, WInv, Active, Lasting
<1>10. CASE UNCHANGED widgetVars
  BY <1>10, <1>0 DEF widgetVars, WInv, Active, Lasting
<1> QED
  BY <1>1, <1>2, <1>3, <1>4, <1>5, <1>6, <1>7, <1>8, <1>9, <1>10 DEF WidgetNext

\* However sessions register, expire, are evicted and revived by messages, and
\* whatever the threads that handle messages do, the sessions that did not come
\* back after they had expired keep to max_sessions (channels/web_widget.rs).
THEOREM SessionsAlwaysBounded ==
  WidgetAssumption => (WidgetSpec => []SessionsBounded)
<1>1. WInv => SessionsBounded
  BY DEF WInv
<1> QED
  BY WInvInit, WInvNext, <1>1, PTL DEF WidgetSpec

-----------------------------------------------------------------------------
(***************************************************************************)
(* The pools of connections and of models.  Who has looked and has not yet *)
(* made what it will add is counted with what there is: the look starts    *)
(* from below the limit, all the others may have looked before it, and the *)
(* making moves one from the first count into the second.                  *)
(***************************************************************************)
LEMMA CountsOf ==
  ASSUME NEW S, IsFiniteSet(S)
  PROVE  /\ Cardinality(S) \in Nat
         /\ \A A \in SUBSET S : Cardinality(A) \in Nat /\ Cardinality(A) <= Cardinality(S)
         /\ \A A \in SUBSET S : \A B \in SUBSET A : Cardinality(B) <= Cardinality(A)
         /\ \A A \in SUBSET S : \A x \in A : Cardinality(A \ {x}) = Cardinality(A) - 1
<1>1. \A A \in SUBSET S : IsFiniteSet(A) /\ Cardinality(A) \in Nat /\ Cardinality(A) <= Cardinality(S)
  BY FS_Subset, FS_CardinalityType
<1> QED
  BY <1>1, FS_CardinalityType, FS_Subset, FS_RemoveElement

Creating == {u \in Users : poolStage[u] = "create"}

PoolInv ==
  /\ PoolAssumption
  /\ PoolTypeOK
  /\ total + Cardinality(Creating) <= MaxConnections + Cardinality(Users) - 1

LEMMA PoolFinite ==
  PoolAssumption => /\ IsFiniteSet(Users) /\ Cardinality(Users) \in Nat \ {0}
                         /\ MaxConnections \in Nat \ {0}
  BY FS_CardinalityType, FS_EmptySet DEF PoolAssumption

LEMMA PoolInvNext == PoolInv /\ [PoolNext]_(poolVars) => PoolInv'
<1> SUFFICES ASSUME PoolInv, [PoolNext]_(poolVars) PROVE PoolInv'
  OBVIOUS
<1>0. /\ IsFiniteSet(Users) /\ Cardinality(Users) \in Nat \ {0} /\ MaxConnections \in Nat \ {0}
      /\ total \in Nat /\ Creating \in SUBSET Users
  BY PoolFinite DEF PoolInv, PoolTypeOK, Creating
<1> USE DEF PoolTypeOK, PoolStages, GoTo
<1>1. ASSUME PoolTypeOK', Creating' \in SUBSET Creating, total' <= total PROVE PoolInv'
  <2>1. /\ Cardinality(Creating') <= Cardinality(Creating)
        /\ Cardinality(Creating) \in Nat /\ Cardinality(Creating') \in Nat
    BY <1>0, <1>1, CountsOf
  <2>2. total' + Cardinality(Creating') <= MaxConnections + Cardinality(Users) - 1
    BY <1>0, <1>1, <2>1 DEF PoolInv
  <2> QED
    BY <1>1, <2>2 DEF PoolInv
<1>2. ASSUME NEW u \in Users, ReadTotal(u) PROVE PoolInv'
  <2>1. PoolTypeOK' /\ total' = total
    BY <1>2 DEF PoolInv, ReadTotal
  <2>2. CASE total < MaxConnections
    <3>1. Creating' \in SUBSET Users
      BY DEF Creating
    <3>2. Cardinality(Creating') <= Cardinality(Users) /\ Cardinality(Creating') \in Nat
      BY <1>0, <3>1, CountsOf
    <3>3. total' + Cardinality(Creating') <= MaxConnections + Cardinality(Users) - 1
      BY <1>0, <2>1, <2>2, <3>2
    <3> QED
      BY <2>1, <3>3 DEF PoolInv
  <2>3. CASE ~(total < MaxConnections)
    <3>1. Creating' \in SUBSET Creating
      BY <1>2, <2>3 DEF ReadTotal, Creating, PoolInv
    <3> QED
      BY <1>0, <1>1, <2>1, <3>1
  <2> QED
    BY <2>2, <2>3
<1>3. ASSUME NEW u \in Users, Create(u) PROVE PoolInv'
  <2>1. PoolTypeOK' /\ total' = total + 1 /\ Creating' = Creating \ {u} /\ u \in Creating
    BY <1>3 DEF PoolInv, Create, Creating
  <2>2. Cardinality(Creating') = Cardinality(Creating) - 1 /\ Cardinality(Creating) \in Nat
    BY <1>0, <2>1, CountsOf
  <2>3. total' + Cardinality(Creating') <= MaxConnections + Cardinality(Users) - 1
    BY <1>0, <2>1, <2>2 DEF PoolInv
  <2> QED
    BY <2>1, <2>3 DEF PoolInv
<1>4. ASSUME NEW u \in Users,
             \/ Acquire(u) \/ CreateFails(u) \/ CheckTimeout(u) \/ WakeUp(u)
             \/ TimeoutPasses(u) \/ Release(u)
      PROVE  PoolInv'
  <2>1. PoolTypeOK' /\ total' = total
    BY <1>4 DEF PoolInv, Acquire, CreateFails, CheckTimeout, WakeUp, TimeoutPasses,
                Release
  <2>2. Creating' \in SUBSET Creating
    BY <1>4 DEF PoolInv, Acquire, CreateFails, CheckTimeout, WakeUp, TimeoutPasses,
                Release, Creating
  <2> QED
    BY <1>0, <1>1, <2>1, <2>2
<1>5. ASSUME Close \/ UNCHANGED poolVars PROVE PoolInv'
  <2>1. PoolTypeOK' /\ total' <= total /\ Creating' \in SUBSET Creating
    BY <1>0, <1>5 DEF PoolInv, Close, poolVars, Creating
  <2> QED
    BY <1>1, <2>1
<1> QED
  BY <1>2, <1>3, <1>4, <1>5 DEF PoolNext, Step

LEMMA PoolInvInit == PoolAssumption /\ PoolInit => PoolInv
<1> SUFFICES ASSUME PoolAssumption, PoolInit PROVE PoolInv
  OBVIOUS
<1>1. Creating = {} /\ Cardinality({}) = 0 /\ total = 0
  BY FS_EmptySet DEF Creating, PoolInit
<1>2. PoolTypeOK
  BY DEF PoolInit, PoolTypeOK, PoolStages
<1> QED
  BY <1>1, <1>2, PoolFinite DEF PoolInv

\* The users that will push another handle of a model.
Coming(asked, m) == {u \in Users : asked[u].at \in {"waits", "loads"} /\ asked[u].model = m}

MpInv ==
  /\ PoolAssumption
  /\ MpTypeOK
  /\ \A m \in PoolModels : loads[m] + Cardinality(Coming(request, m)) <= Cardinality(Users)

LEMMA MpInvNext == MpInv /\ [MpNext]_(mpVars) => MpInv'
<1> SUFFICES ASSUME MpInv, [MpNext]_(mpVars) PROVE MpInv'
  OBVIOUS
<1>0. /\ IsFiniteSet(Users) /\ Cardinality(Users) \in Nat /\ MaxReturns \in Nat
      /\ \A m \in PoolModels : /\ loads[m] \in Nat /\ returns[m] \in Nat /\ Coming(request, m) \in SUBSET Users
                                /\ Cardinality(Coming(request, m)) \in Nat
                                /\ Coming(request', m) \in SUBSET Users
                                /\ Cardinality(Coming(request', m)) \in Nat
  <2>1. /\ IsFiniteSet(Users) /\ MaxReturns \in Nat
        /\ \A m \in PoolModels : loads[m] \in Nat /\ returns[m] \in Nat
    BY DEF MpInv, PoolAssumption, MpTypeOK
  <2>2. \A m : Coming(request, m) \in SUBSET Users /\ Coming(request', m) \in SUBSET Users
    BY DEF Coming
  <2> QED
    BY <2>1, <2>2, CountsOf
<1> USE DEF MpTypeOK, Request, None, Become
<1>1. ASSUME MpTypeOK', \A m \in PoolModels : Coming(request', m) \in SUBSET Coming(request, m) /\ loads'[m] = loads[m]
      PROVE  MpInv'
  <2>1. ASSUME NEW m \in PoolModels PROVE loads'[m] + Cardinality(Coming(request', m)) <= Cardinality(Users)
    <3>1. Cardinality(Coming(request', m)) <= Cardinality(Coming(request, m))
      BY <1>0, <1>1, CountsOf
    <3> QED
      BY <1>0, <1>1, <3>1 DEF MpInv
  <2> QED
    BY <1>1, <2>1 DEF MpInv
<1>2. ASSUME NEW u \in Users, NEW m \in PoolModels, Get(u, m) PROVE MpInv'
  <2>1. MpTypeOK' /\ loads' = loads
    BY <1>2 DEF MpInv, Get
  <2>2. CASE Pooled(m)
    <3>1. \A n \in PoolModels : Coming(request', n) \in SUBSET Coming(request, n)
      BY <1>2, <2>2 DEF MpInv, Get, Coming
    <3> QED
      BY <1>1, <2>1, <3>1
  <2>3. CASE ~Pooled(m)
    <3>1. loads[m] = 0
      BY <1>0, <2>3 DEF Pooled
    <3>2. \A n \in PoolModels : n # m => Coming(request', n) \in SUBSET Coming(request, n)
      BY <1>2, <2>3 DEF MpInv, Get, Coming
    <3>3. ASSUME NEW n \in PoolModels PROVE loads'[n] + Cardinality(Coming(request', n)) <= Cardinality(Users)
      <4>1. Cardinality(Coming(request', n)) <= Cardinality(Users) /\ (n # m => Cardinality(Coming(request', n)) <= Cardinality(Coming(request, n)))
        BY <1>0, <3>2, CountsOf
      <4> QED
        BY <1>0, <2>1, <3>1, <4>1 DEF MpInv
    <3> QED
      BY <2>1, <3>3 DEF MpInv
  <2> QED
    BY <2>2, <2>3
<1>3. ASSUME NEW u \in Users, FinishLoad(u) PROVE MpInv'
  <2> DEFINE m == request[u].model
  <2>1. m \in PoolModels /\ u \in Coming(request, m)
    BY <1>3 DEF MpInv, FinishLoad, Coming
  <2>2. /\ MpTypeOK'
        /\ \A n \in PoolModels : loads'[n] = IF n = m THEN loads[n] + 1 ELSE loads[n]
    BY <1>3, <2>1 DEF MpInv, FinishLoad
  <2>3. \A n \in PoolModels : Coming(request', n) \in SUBSET Coming(request, n)
    BY <1>3, <2>1 DEF MpInv, FinishLoad, Coming
  <2>5. Coming(request', m) = Coming(request, m) \ {u}
    BY <1>3, <2>1 DEF MpInv, FinishLoad, Coming
  <2> HIDE DEF m
  <2>4. ASSUME NEW n \in PoolModels PROVE loads'[n] + Cardinality(Coming(request', n)) <= Cardinality(Users)
    <3>1. /\ Cardinality(Coming(request', n)) <= Cardinality(Coming(request, n))
          /\ n = m => Cardinality(Coming(request', n)) = Cardinality(Coming(request, n)) - 1
      <4>1. Cardinality(Coming(request', n)) <= Cardinality(Coming(request, n))
        BY <1>0, <2>3, CountsOf
      <4>2. ASSUME n = m PROVE Cardinality(Coming(request', n)) = Cardinality(Coming(request, n)) - 1
        <5>1. u \in Coming(request, n) /\ Coming(request', n) = Coming(request, n) \ {u} /\ Coming(request, n) \in SUBSET Users
          BY <1>0, <2>1, <2>5, <4>2
        <5>2. Cardinality(Coming(request, n) \ {u}) = Cardinality(Coming(request, n)) - 1
          BY <1>0, <5>1, CountsOf
        <5> QED
          BY <5>1, <5>2
      <4> QED
        BY <4>1, <4>2
    <3> QED
      BY <1>0, <2>2, <3>1 DEF MpInv
  <2> QED
    BY <2>2, <2>4 DEF MpInv
<1>4. ASSUME NEW u \in Users,
             AcquirePermit(u) \/ LoadFails(u)
      PROVE  MpInv'
  <2>1. MpTypeOK' /\ loads' = loads
    BY <1>0, <1>4 DEF MpInv, AcquirePermit, LoadFails
  <2>2. \A n \in PoolModels : Coming(request', n) \in SUBSET Coming(request, n)
    BY <1>4 DEF MpInv, AcquirePermit, LoadFails, Coming
  <2> QED
    BY <1>1, <2>1, <2>2
<1>6. ASSUME NEW m \in PoolModels, ReturnModel(m) PROVE MpInv'
  <2>1. MpTypeOK' /\ loads' = loads /\ request' = request
    BY <1>0, <1>6 DEF MpInv, ReturnModel
  <2> QED
    BY <1>1, <2>1
<1>5. CASE UNCHANGED mpVars
  BY <1>1, <1>5 DEF MpInv, mpVars, Coming
<1> QED
  BY <1>2, <1>3, <1>4, <1>5, <1>6 DEF MpNext

LEMMA MpInvInit == PoolAssumption /\ MpInit => MpInv
<1> SUFFICES ASSUME PoolAssumption, MpInit PROVE MpInv
  OBVIOUS
<1>1. \A m \in PoolModels : Coming(request, m) = {} /\ loads[m] = 0
  BY DEF Coming, MpInit, None
<1>2. MpTypeOK
  BY DEF MpInit, MpTypeOK, Request, None, PoolAssumption
<1>3. Cardinality({}) = 0 /\ Cardinality(Users) \in Nat
  BY FS_EmptySet, FS_CardinalityType DEF PoolAssumption
<1> QED
  BY <1>1, <1>2, <1>3 DEF MpInv

\* The connections counted exceed max_connections at most by all the users but one, and
\* a model is loaded at most once by each: acquire and get_model (pool.rs) look and make
\* under separate locks.
THEOREM PoolsOvershootAlwaysBounded ==
  PoolAssumption => (PoolSpec /\ MpSpec => []PoolOvershootBounded)
<1> SUFFICES ASSUME PoolAssumption
             PROVE  PoolSpec /\ MpSpec => []PoolOvershootBounded
  OBVIOUS
<1>1. PoolInv /\ MpInv => PoolOvershootBounded
  <2> SUFFICES ASSUME PoolInv, MpInv PROVE PoolOvershootBounded
    OBVIOUS
  <2>1. /\ IsFiniteSet(Users) /\ Cardinality(Users) \in Nat /\ MaxConnections \in Nat
    BY PoolFinite
  <2>2. Cardinality(Creating) \in Nat /\ \A m \in PoolModels : Cardinality(Coming(request, m)) \in Nat
    <3>1. Creating \in SUBSET Users /\ \A m \in PoolModels : Coming(request, m) \in SUBSET Users
      BY DEF Creating, Coming
    <3> QED
      BY <2>1, <3>1, CountsOf
  <2>3. total <= MaxConnections + Cardinality(Users) - 1
    BY <2>1, <2>2 DEF PoolInv, PoolTypeOK
  <2>4. \A m \in PoolModels : loads[m] <= Cardinality(Users)
    BY <2>1, <2>2 DEF MpInv, MpTypeOK
  <2> QED
    BY <2>3, <2>4 DEF PoolOvershootBounded, ConnectionsBounded, LoadsPerUserBounded
<1> QED
  BY <1>1, PoolInvInit, PoolInvNext, MpInvInit, MpInvNext, PTL DEF PoolSpec, MpSpec

-----------------------------------------------------------------------------
(***************************************************************************)
(* The A/B router.  One more request moves on within a period or begins    *)
(* the next one.                                                           *)
(***************************************************************************)
LEMMA TimesGrows ==
  ASSUME NEW p \in Nat, NEW a \in Int, NEW b \in Int, a <= b
  PROVE  p * a <= p * b
<1>1. p * (b - a) >= 0
  OBVIOUS
<1>2. p * (b - a) = p * b - p * a
  OBVIOUS
<1>3. p * a \in Int /\ p * b \in Int
  OBVIOUS
<1> QED
  BY <1>1, <1>2, <1>3

LEMMA NextInPeriod ==
  ASSUME NEW p \in Nat \ {0}, NEW n \in Nat
  PROVE  /\ n % p \in 0..(p - 1) /\ n \div p \in Nat
         /\ (n % p) + 1 < p => (n + 1) \div p = n \div p /\ (n + 1) % p = (n % p) + 1
         /\ (n % p) + 1 = p => (n + 1) \div p = n \div p + 1 /\ (n + 1) % p = 0
<1> DEFINE a == n \div p
           r == n % p
           b == (n + 1) \div p
           s == (n + 1) % p
<1>1. a \in Int /\ r \in 0..(p - 1) /\ n = p * a + r
  OBVIOUS
<1>2. b \in Int /\ s \in 0..(p - 1) /\ n + 1 = p * b + s
  OBVIOUS
<1>3. a \in Nat
  OBVIOUS
<1> HIDE DEF a, r, b, s
<1>4. p * a \in Int /\ p * b \in Int /\ p * (a + 1) = p * a + p /\ p * (a + 2) = p * a + p + p
      /\ p * (a - 1) = p * a - p
  BY <1>1, <1>2
<1>5. ~(b <= a - 1)
  <2> SUFFICES ASSUME b <= a - 1 PROVE FALSE
    OBVIOUS
  <2>1. p * b <= p * (a - 1)
    BY <1>1, <1>2, TimesGrows
  <2> QED
    BY <1>1, <1>2, <1>4, <2>1
<1>6. ~(a + 2 <= b)
  <2> SUFFICES ASSUME a + 2 <= b PROVE FALSE
    OBVIOUS
  <2>1. p * (a + 2) <= p * b
    BY <1>1, <1>2, TimesGrows
  <2> QED
    BY <1>1, <1>2, <1>4, <2>1
<1>7. b = a \/ b = a + 1
  BY <1>1, <1>2, <1>5, <1>6
<1>8. CASE b = a
  BY <1>1, <1>2, <1>3, <1>4, <1>8 DEF a, r, b, s
<1>9. CASE b = a + 1
  BY <1>1, <1>2, <1>3, <1>4, <1>9 DEF a, r, b, s
<1> QED
  BY <1>7, <1>8, <1>9

RtInv ==
  /\ percentageA \in 0..Period /\ requestCount \in Nat
  /\ routed \in [{"A", "B"} -> Nat]
  /\ Router!SplitIsKept

LEMMA RtInvNext ==
  ASSUME Router!RouterAssumption, RtInv, [Router!RouterNext]_(Router!routerVars)
  PROVE  RtInv'
<1>1. CASE Router!Route
  <2> DEFINE n == requestCount
             q == n \div Period
             r == n % Period
             a == routed["A"]
  <2>1. /\ n \in Nat /\ Period \in Nat \ {0} /\ percentageA \in 0..Period /\ a \in Nat
        /\ a = q * percentageA + (IF r < percentageA THEN r ELSE percentageA)
    BY DEF RtInv, Router!SplitIsKept, Router!RouterAssumption
  <2>2. /\ requestCount' = n + 1 /\ percentageA' = percentageA
        /\ routed' = [routed EXCEPT ![IF r < percentageA THEN "A" ELSE "B"] = @ + 1]
    <3>1. (n + 1) - 1 = n
      BY <2>1
    <3> QED
      BY <1>1, <3>1 DEF Router!Route, Router!VariantOf
  <2>3. /\ routed' \in [{"A", "B"} -> Nat]
        /\ routed'["A"] = IF r < percentageA THEN a + 1 ELSE a
    BY <2>1, <2>2 DEF RtInv
  <2>4. /\ r \in 0..(Period - 1) /\ q \in Nat
        /\ r + 1 < Period => (n + 1) \div Period = q /\ (n + 1) % Period = r + 1
        /\ r + 1 = Period => (n + 1) \div Period = q + 1 /\ (n + 1) % Period = 0
    BY <2>1, NextInPeriod
  <2> DEFINE q1 == (n + 1) \div Period
             r1 == (n + 1) % Period
  <2>5. routed'["A"] = q1 * percentageA + (IF r1 < percentageA THEN r1 ELSE percentageA)
    <3> DEFINE c == percentageA
    <3>1. c \in Int /\ c <= Period /\ 0 <= c
      BY <2>1
    <3> HIDE DEF q1, r1, q, r, a, n, c
    <3>2. CASE r + 1 < Period
      <4>1. q1 = q /\ r1 = r + 1
        BY <2>4, <3>2 DEF q1, r1
      <4> QED
        BY <2>1, <2>3, <2>4, <3>1, <4>1 DEF c
    <3>3. CASE r + 1 = Period
      <4>1. q1 = q + 1 /\ r1 = 0
        BY <2>4, <3>3 DEF q1, r1
      <4>2. (q + 1) * c = q * c + c /\ q * c \in Int
        BY <2>4, <3>1
      <4> QED
        BY <2>1, <2>3, <2>4, <3>1, <3>3, <4>1, <4>2 DEF c
    <3> QED
      BY <2>1, <2>4, <3>2, <3>3
  <2>6. (Router!SplitIsKept)'
    BY <2>2, <2>5 DEF Router!SplitIsKept
  <2> QED
    BY <2>1, <2>2, <2>3, <2>6 DEF RtInv
<1>2. CASE UNCHANGED <<percentageA, requestCount, routed>>
  BY <1>2 DEF RtInv, Router!SplitIsKept
<1>3. ASSUME NEW v \in {"A", "B"}, NEW s \in Speeds, Router!RecordMetric(v, s) PROVE RtInv'
  BY <1>2, <1>3 DEF Router!RecordMetric
<1>4. CASE Router!Rollback
  BY <1>2, <1>4 DEF Router!Rollback
<1>5. CASE UNCHANGED Router!routerVars
  BY <1>2, <1>5 DEF Router!routerVars
<1> QED
  BY <1>1, <1>3, <1>4, <1>5 DEF Router!RouterNext, Router!Variants

\* However long a test runs and whatever its percentage, the first model gets exactly its
\* share of every full period, and of the period that was begun the requests that come
\* first (route, inference/ab_testing.rs).
THEOREM SplitAlwaysKept ==
  Router!RouterAssumption => (Router!RouterSpec => []Router!SplitIsKept)
<1> SUFFICES ASSUME Router!RouterAssumption
             PROVE  Router!RouterSpec => []Router!SplitIsKept
  OBVIOUS
<1>1. Router!RouterInit => RtInv
  <2> SUFFICES ASSUME Router!RouterInit PROVE RtInv
    OBVIOUS
  <2>0. /\ percentageA \in Shares /\ requestCount = 0
        /\ routed = [v \in Router!Variants |-> 0]
    BY Zenon DEF Router!RouterInit
  <2>1. /\ Period \in Nat \ {0} /\ percentageA \in 0..Period /\ requestCount = 0
        /\ routed = [v \in {"A", "B"} |-> 0]
    BY <2>0 DEF Router!RouterAssumption, Router!Variants
  <2>2. 0 \div Period = 0 /\ 0 % Period = 0
    BY <2>1
  <2>3. 0 * percentageA = 0
    BY <2>1
  <2>4. 0 = 0 * percentageA + (IF 0 < percentageA THEN 0 ELSE percentageA)
    BY <2>1, <2>3
  <2> QED
    BY <2>1, <2>2, <2>4 DEF RtInv, Router!SplitIsKept
<1>2. RtInv => Router!SplitIsKept
  BY DEF RtInv
<1> QED
  BY <1>1, <1>2, RtInvNext, PTL DEF Router!RouterSpec

-----------------------------------------------------------------------------
(***************************************************************************)
(* The sampler.  What it draws from are weights, whatever the penalties    *)
(* and the filters made of them, and the draws at which the cumulated      *)
(* weight reaches a token first are an interval as long as its weight.     *)
(***************************************************************************)
\* A set of natural numbers has a least element.
LEMMA LeastIn ==
  ASSUME NEW S \in SUBSET Nat, S # {}
  PROVE  \E x \in S : \A y \in S : x <= y
<1> DEFINE A == {n \in Nat : \A y \in S : n <= y}
<1> SUFFICES ASSUME \A x \in S : \E y \in S : ~(x <= y) PROVE FALSE
  OBVIOUS
<1>1. 0 \in A
  OBVIOUS
<1>2. ASSUME NEW n \in Nat, n \in A PROVE n + 1 \in A
  <2>1. \A y \in S : n <= y
    BY <1>2
  <2>2. n \notin S
    BY <2>1
  <2> QED
    BY <2>1, <2>2
<1>3. Nat \subseteq A
  <2> HIDE DEF A
  <2> QED
    BY <1>1, <1>2, EveryNat
<1>4. PICK y : y \in S
  OBVIOUS
<1>5. y + 1 \in A
  BY <1>3
<1> QED
  BY <1>4, <1>5

LEMMA MinIsLeast ==
  ASSUME NEW S \in SUBSET Nat, S # {}
  PROVE  /\ Sampled!Min(S) \in S /\ \A y \in S : Sampled!Min(S) <= y
         /\ \A x \in S : (\A y \in S : x <= y) => Sampled!Min(S) = x
<1>1. \E x \in S : \A y \in S : x <= y
  BY LeastIn
<1>2. Sampled!Min(S) \in S /\ \A y \in S : Sampled!Min(S) <= y
  BY <1>1 DEF Sampled!Min
<1>3. ASSUME NEW x \in S, \A y \in S : x <= y PROVE Sampled!Min(S) = x
  <2>1. x <= Sampled!Min(S) /\ Sampled!Min(S) <= x /\ Sampled!Min(S) \in Nat /\ x \in Nat
    BY <1>2, <1>3
  <2> QED
    BY <2>1
<1> QED
  BY <1>2, <1>3

LEMMA SumIsSumOf ==
  ASSUME NEW w, NEW S
  PROVE  Sampled!SumOver(w, S) = SumOf(w, S)
<1>1. Sampled!SumOver(w, S) = (CHOOSE it : Sums(w, S, it))[S]
  BY DEF Sampled!SumOver, Sampled!FoldFunctionOnSet, Sampled!MapThenFoldSet, Sums, Pick
<1> QED
  BY <1>1, SumOfTable

\* The weight up to a token.
UpTo(w, t) == SumOf(w, 1..t)

LEMMA UpToGrows ==
  ASSUME NEW w \in [1..Vocabulary -> Nat], Vocabulary \in Nat
  PROVE  /\ UpTo(w, 0) = 0
         /\ \A t \in 0..Vocabulary : UpTo(w, t) \in Nat
         /\ \A t \in 1..Vocabulary : UpTo(w, t) = UpTo(w, t - 1) + w[t]
         /\ \A t \in 0..Vocabulary, u \in 0..Vocabulary : t <= u => UpTo(w, t) <= UpTo(w, u)
<1>0. IntValued(w, 1..Vocabulary) /\ NatValued(w, 1..Vocabulary)
  <2>1. IsFiniteSet(1..Vocabulary)
    BY FS_Interval
  <2>2. w \in [1..Vocabulary -> Int]
    OBVIOUS
  <2> QED
    BY <2>1, <2>2 DEF IntValued, NatValued
<1>1. UpTo(w, 0) = 0
  <2>1. 1..0 = {}
    OBVIOUS
  <2> QED
    BY <1>0, <2>1, SumAdds DEF UpTo
<1>2. ASSUME NEW t \in 0..Vocabulary, NEW u \in 0..Vocabulary, t <= u
      PROVE  UpTo(w, t) \in Nat /\ UpTo(w, t) <= UpTo(w, u)
  <2>1. 1..u \in SUBSET (1..Vocabulary) /\ 1..t \in SUBSET (1..u)
    BY <1>2
  <2> QED
    BY <1>0, <2>1, SumGrows DEF UpTo
<1>3. ASSUME NEW t \in 1..Vocabulary PROVE UpTo(w, t) = UpTo(w, t - 1) + w[t]
  <2>1. UpTo(w, t) = w[t] + UpTo(w, t - 1)
    BY <1>0, SumStep DEF UpTo
  <2>2. t - 1 \in 0..Vocabulary /\ t - 1 <= t /\ t \in 0..Vocabulary
    OBVIOUS
  <2>3. UpTo(w, t - 1) \in Nat /\ w[t] \in Nat
    BY <1>2, <2>2
  <2> QED
    BY <2>1, <2>3
<1>4. \A t \in 0..Vocabulary : UpTo(w, t) \in Nat
  BY <1>2
<1> QED
  BY <1>1, <1>2, <1>3, <1>4

\* A token is the one a draw reaches when the draw is in its stretch of the weights.
LEMMA ReachesStretch ==
  ASSUME NEW w \in [1..Vocabulary -> Nat], Vocabulary \in Nat \ {0},
         NEW r \in 1..UpTo(w, Vocabulary)
  PROVE  /\ Sampled!Reaches(w, r) \in 1..Vocabulary
         /\ \A t \in 1..Vocabulary :
              Sampled!Reaches(w, r) = t <=> UpTo(w, t - 1) < r /\ r <= UpTo(w, t)
<1> DEFINE S == {t \in 1..Vocabulary : UpTo(w, t) >= r}
           m == Sampled!Reaches(w, r)
<1>0. /\ UpTo(w, 0) = 0
      /\ \A t \in 0..Vocabulary : UpTo(w, t) \in Nat
      /\ \A t \in 0..Vocabulary, u \in 0..Vocabulary : t <= u => UpTo(w, t) <= UpTo(w, u)
      /\ Vocabulary \in 1..Vocabulary /\ Vocabulary \in 0..Vocabulary
  BY UpToGrows
<1>1. r \in Nat /\ 1 <= r /\ r <= UpTo(w, Vocabulary)
  BY <1>0
<1>2. m = Sampled!Min(S)
  BY SumIsSumOf DEF Sampled!Reaches, Sampled!Token, UpTo
<1>3. S \in SUBSET Nat /\ Vocabulary \in S
  BY <1>0, <1>1
<1> HIDE DEF S, m
<1>4. /\ m \in S /\ \A y \in S : m <= y
      /\ \A x \in S : (\A y \in S : x <= y) => m = x
  BY <1>2, <1>3, MinIsLeast
<1>5. m \in 1..Vocabulary
  BY <1>4 DEF S
<1>6. ASSUME NEW t \in 1..Vocabulary, m = t PROVE UpTo(w, t - 1) < r /\ r <= UpTo(w, t)
  <2>1. t - 1 \in 0..Vocabulary /\ t \in 0..Vocabulary
    OBVIOUS
  <2>2. UpTo(w, t - 1) \in Nat /\ UpTo(w, t) \in Nat
    BY <1>0, <2>1
  <2>3. r <= UpTo(w, t)
    BY <1>1, <1>4, <1>6, <2>2 DEF S
  <2>4. CASE t = 1
    BY <1>0, <1>1, <2>3, <2>4
  <2>5. CASE t # 1
    <3>1. t - 1 \in 1..Vocabulary /\ ~(t <= t - 1)
      BY <2>5
    <3>2. t - 1 \notin S
      BY <1>4, <1>6, <3>1
    <3> QED
      BY <1>1, <2>2, <2>3, <3>1, <3>2 DEF S
  <2> QED
    BY <2>4, <2>5
<1>7. ASSUME NEW t \in 1..Vocabulary, UpTo(w, t - 1) < r, r <= UpTo(w, t) PROVE m = t
  <2>1. t \in 0..Vocabulary /\ t - 1 \in 0..Vocabulary
    OBVIOUS
  <2>2. UpTo(w, t) \in Nat /\ UpTo(w, t - 1) \in Nat
    BY <1>0, <2>1
  <2>3. t \in S
    BY <1>1, <1>7, <2>2 DEF S
  <2>4. ASSUME NEW u \in S, ~(t <= u) PROVE FALSE
    <3>1. u \in 1..Vocabulary /\ UpTo(w, u) >= r /\ u \in 0..Vocabulary
      BY DEF S
    <3>2. u <= t - 1
      BY <2>4, <3>1
    <3>3. UpTo(w, u) <= UpTo(w, t - 1) /\ UpTo(w, u) \in Nat
      BY <1>0, <2>1, <3>1, <3>2
    <3> QED
      BY <1>1, <1>7, <2>2, <3>1, <3>3
  <2> QED
    BY <1>4, <2>3, <2>4
<1> QED
  BY <1>5, <1>6, <1>7 DEF m

LEMMA DrawnInProportion ==
  ASSUME NEW w \in [1..Vocabulary -> Nat], Vocabulary \in Nat \ {0}, NEW t \in 1..Vocabulary
  PROVE  Sampled!Cardinality({r \in 1..Sampled!Sum(w) : Sampled!Reaches(w, r) = t}) = w[t]
<1> DEFINE a == UpTo(w, t - 1)
           b == UpTo(w, t)
           D == {r \in 1..Sampled!Sum(w) : Sampled!Reaches(w, r) = t}
<1>1. Sampled!Sum(w) = UpTo(w, Vocabulary)
  BY SumIsSumOf DEF Sampled!Sum, UpTo
<1>2. /\ a \in Nat /\ b \in Nat /\ b = a + w[t] /\ w[t] \in Nat
      /\ UpTo(w, Vocabulary) \in Nat /\ b <= UpTo(w, Vocabulary)
  <2>1. t - 1 \in 0..Vocabulary /\ t \in 0..Vocabulary /\ Vocabulary \in 0..Vocabulary
        /\ t <= Vocabulary
    OBVIOUS
  <2> QED
    BY <2>1, UpToGrows
<1>3. ASSUME NEW r PROVE r \in D <=> r \in (a + 1)..b
  <2> HIDE DEF a, b
  <2>1. CASE r \in 1..UpTo(w, Vocabulary)
    <3>1. Sampled!Reaches(w, r) = t <=> a < r /\ r <= b
      BY <2>1, ReachesStretch DEF a, b
    <3> QED
      BY <1>1, <1>2, <2>1, <3>1
  <2>2. CASE r \notin 1..UpTo(w, Vocabulary)
    BY <1>1, <1>2, <2>2
  <2> QED
    BY <2>1, <2>2
<1>4. D = (a + 1)..b
  BY <1>3
<1> HIDE DEF a, b, D
<1>5. Cardinality((a + 1)..b) = w[t]
  <2> DEFINE c == w[t]
  <2>0. a \in Nat /\ c \in Nat /\ b = a + c
    BY <1>2
  <2> HIDE DEF c
  <2>1. a + 1 \in Int /\ b \in Int /\ (a + 1 > b => c = 0) /\ b - (a + 1) + 1 = c
    BY <2>0
  <2>2. Cardinality((a + 1)..b) = IF a + 1 > b THEN 0 ELSE b - (a + 1) + 1
    BY <2>1, FS_Interval
  <2>3. Cardinality((a + 1)..b) = c
    BY <2>1, <2>2
  <2> QED
    BY <2>3 DEF c
<1>6. Sampled!Cardinality(D) = Cardinality(D)
  BY Zenon DEF Sampled!Cardinality, Cardinality, Sampled!IsFiniteSet, IsFiniteSet
<1> QED
  BY <1>4, <1>5, <1>6 DEF D

\* The last of a finite sequence's places.
LEMMA MaxIsIn ==
  ASSUME NEW n \in Nat, NEW s \in SUBSET (1..n), s # {}
  PROVE  Sampled!Max(s) \in s
<1> DEFINE R == {n - x : x \in s}
<1>1. R \in SUBSET Nat /\ R # {}
  <2>1. \A x \in s : n - x \in Nat
    OBVIOUS
  <2>2. PICK x : x \in s
    OBVIOUS
  <2>3. n - x \in R
    BY <2>2
  <2> QED
    BY <2>1, <2>3
<1>2. PICK y \in R : \A z \in R : y <= z
  BY <1>1, LeastIn
<1>3. PICK x \in s : y = n - x
  BY <1>2
<1>4. ASSUME NEW u \in s PROVE x >= u
  <2>1. n - u \in R
    OBVIOUS
  <2>2. n - x <= n - u
    BY <1>2, <1>3, <2>1
  <2>3. x \in Nat /\ u \in Nat
    OBVIOUS
  <2> QED
    BY <2>2, <2>3
<1> QED
  BY <1>3, <1>4 DEF Sampled!Max

\* What a fold over the places s of a sequence computes is of the type of what it starts
\* from, when each step keeps the type.
Folded(base, place, step, it, S) ==
  it = [s \in SUBSET S |-> IF s = {} THEN base ELSE step[place[s]][it[s \ {place[s]}]]]

\* As far as it is of that type.
Follows(base, place, step, R, it, S) ==
  \A s \in SUBSET S :
    /\ s = {} => it[s] = base
    /\ s # {} /\ it[s \ {place[s]}] \in R => it[s] = step[place[s]][it[s \ {place[s]}]]

LEMMA FoldTyped ==
  ASSUME NEW S, IsFiniteSet(S), NEW R, NEW base \in R, NEW step \in [S -> [R -> R]],
         NEW place, \A s \in SUBSET S : s # {} => place[s] \in s
  PROVE  /\ \E it \in [SUBSET S -> R] : Folded(base, place, step, it, S)
         /\ \A it : Follows(base, place, step, R, it, S) => it[S] \in R
<1> DEFINE Next(it) == [s \in SUBSET S |-> IF s = {} THEN base ELSE step[place[s]][it[s \ {place[s]}]]]
           Same(it, n) == \A s \in SUBSET S : Cardinality(s) <= n => it[s] = Next(it)[s]
           A == {n \in Nat : \E it \in [SUBSET S -> R] : Same(it, n)}
<1>0. ASSUME NEW it \in [SUBSET S -> R] PROVE Next(it) \in [SUBSET S -> R]
  <2> SUFFICES ASSUME NEW s \in SUBSET S, s # {} PROVE step[place[s]][it[s \ {place[s]}]] \in R
    OBVIOUS
  <2>1. place[s] \in S /\ it[s \ {place[s]}] \in R
    OBVIOUS
  <2> QED
    BY <2>1
<1>1. 0 \in A
  <2> DEFINE const == [s \in SUBSET S |-> base]
  <2>1. ASSUME NEW s \in SUBSET S, Cardinality(s) <= 0 PROVE s = {}
    BY <2>1, FS_Subset, FS_CardinalityType, FS_EmptySet
  <2>2. const \in [SUBSET S -> R] /\ Same(const, 0)
    BY <2>1
  <2> HIDE DEF Same
  <2> QED
    BY <2>2
<1>2. ASSUME NEW n \in Nat, n \in A PROVE n + 1 \in A
  <2>1. PICK it \in [SUBSET S -> R] : Same(it, n)
    BY <1>2
  <2>2. ASSUME NEW s \in SUBSET S, Cardinality(s) <= n + 1, s # {}
        PROVE  Next(it)[s \ {place[s]}] = it[s \ {place[s]}]
    <3>1. s \ {place[s]} \in SUBSET S /\ Cardinality(s \ {place[s]}) <= n
      BY <2>2, WithoutOne
    <3> HIDE DEF Next
    <3> QED
      BY <2>1, <3>1
  <2>3. Same(Next(it), n + 1)
    <3>1. ASSUME NEW jt, NEW s \in SUBSET S
          PROVE  Next(jt)[s] = IF s = {} THEN base ELSE step[place[s]][jt[s \ {place[s]}]]
      OBVIOUS
    <3> HIDE DEF Next
    <3>2. ASSUME NEW s \in SUBSET S, Cardinality(s) <= n + 1
          PROVE  Next(it)[s] = Next(Next(it))[s]
      <4>1. CASE s = {}
        BY <3>1, <4>1
      <4>2. CASE s # {}
        <5>1. Next(it)[s \ {place[s]}] = it[s \ {place[s]}]
          BY <2>2, <3>2, <4>2
        <5>2. Next(it)[s] = step[place[s]][it[s \ {place[s]}]]
          BY <3>1, <4>2
        <5>3. Next(Next(it))[s] = step[place[s]][Next(it)[s \ {place[s]}]]
          <6> DEFINE jt == Next(it)
          <6> HIDE DEF jt
          <6>1. Next(jt)[s] = step[place[s]][jt[s \ {place[s]}]]
            BY <3>1, <4>2
          <6> QED
            BY <6>1 DEF jt
        <5> QED
          BY <5>1, <5>2, <5>3
      <4> QED
        BY <4>1, <4>2
    <3> QED
      BY <3>2
  <2>4. Next(it) \in [SUBSET S -> R]
    BY <1>0
  <2> HIDE DEF Same, Next
  <2> QED
    BY <2>3, <2>4
<1>3. Nat \subseteq A
  <2> HIDE DEF A
  <2> QED
    BY <1>1, <1>2, EveryNat
<1>4. PICK it \in [SUBSET S -> R] : Same(it, Cardinality(S))
  <2>1. Cardinality(S) \in A
    BY <1>3, FS_CardinalityType
  <2> HIDE DEF Same
  <2> QED
    BY <2>1
<1>5. ASSUME NEW s \in SUBSET S PROVE Cardinality(s) <= Cardinality(S)
  BY FS_Subset
<1>6. Folded(base, place, step, it, S)
  BY <1>4, <1>5 DEF Folded
<1>7. ASSUME NEW jt, Follows(base, place, step, R, jt, S) PROVE jt[S] \in R
  <2> DEFINE B == {n \in Nat : \A s \in SUBSET S : Cardinality(s) = n => jt[s] \in R}
  <2>0. ASSUME NEW s \in SUBSET S
        PROVE  /\ s = {} => jt[s] = base
               /\ s # {} /\ jt[s \ {place[s]}] \in R =>
                    jt[s] = step[place[s]][jt[s \ {place[s]}]]
    BY <1>7 DEF Follows
  <2>1. 0 \in B
    <3>1. ASSUME NEW s \in SUBSET S, Cardinality(s) = 0 PROVE s = {}
      BY <3>1, FS_Subset, FS_EmptySet
    <3> QED
      BY <2>0, <3>1
  <2>2. ASSUME NEW n \in Nat, n \in B PROVE n + 1 \in B
    <3>0. \A s \in SUBSET S : Cardinality(s) = n => jt[s] \in R
      BY <2>2
    <3> SUFFICES ASSUME NEW s \in SUBSET S, Cardinality(s) = n + 1 PROVE jt[s] \in R
      OBVIOUS
    <3> HIDE DEF B
    <3>1. CASE s = {}
      BY <2>0, <3>1
    <3>2. CASE s # {}
      <4>1. s \ {place[s]} \in SUBSET S /\ Cardinality(s \ {place[s]}) = n /\ place[s] \in S
        <5> DEFINE x == place[s]
        <5>1. x \in s
          BY <3>2
        <5> HIDE DEF x
        <5>2. s \ {x} \in SUBSET S /\ Cardinality(s \ {x}) = Cardinality(s) - 1 /\ x \in S
          BY <5>1, WithoutOne
        <5> QED
          BY <5>2 DEF x
      <4>2. jt[s \ {place[s]}] \in R
        BY <3>0, <4>1
      <4>3. jt[s] = step[place[s]][jt[s \ {place[s]}]]
        BY <2>0, <3>2, <4>2
      <4>4. step[place[s]] \in [R -> R]
        BY <4>1
      <4> QED
        BY <4>2, <4>3, <4>4
    <3> QED
      BY <3>1, <3>2
  <2>3. Nat \subseteq B
    <3> HIDE DEF B
    <3> QED
      BY <2>1, <2>2, EveryNat
  <2>4. Cardinality(S) \in B
    BY <2>3, FS_CardinalityType
  <2> QED
    BY <2>4
<1> QED
  BY <1>6, <1>7

-----------------------------------------------------------------------------
\* A logit stays a number under the penalties.
LEMMA PenaltiesTyped ==
  ASSUME Sampled!SamplerAssumption, params \in Settings, previous \in Histories,
         NEW l \in [1..Vocabulary -> Int]
  PROVE  Sampled!apply_frequency_presence_penalty(Sampled!apply_repetition_penalty(l))
           \in [1..Vocabulary -> Int]
<1> DEFINE S == DOMAIN previous
           R == [1..Vocabulary -> Int]
           place == [s \in SUBSET S |-> Sampled!Max(s)]
           After(i, m) == IF previous[i] \in 1..Vocabulary
                         THEN [m EXCEPT ![previous[i]] = Sampled!Penalised(@)] ELSE m
           step == [i \in S |-> [m \in R |-> After(i, m)]]
           p == Sampled!apply_repetition_penalty(l)
<1>1. /\ previous \in Seq(Nat)
      /\ params.repetition \in Nat \ {0} /\ params.frequency \in Nat /\ params.presence \in Nat
  BY DEF Sampled!SamplerAssumption, Sampled!Params
<1>2. Len(previous) \in Nat /\ S = 1..Len(previous)
  BY <1>1
<1>3. IsFiniteSet(S)
  BY <1>2, FS_Interval
<1>4. ASSUME NEW v \in Int PROVE Sampled!Penalised(v) \in Int
  <2> DEFINE n == params.repetition
  <2>1. n \in Nat \ {0}
    BY <1>1
  <2> HIDE DEF n
  <2>2. v \div n \in Int /\ v * n \in Int
    BY <2>1
  <2> QED
    BY <2>2 DEF Sampled!Penalised, n
<1>5. step \in [S -> [R -> R]]
  <2> SUFFICES ASSUME NEW i \in S, NEW m \in R PROVE After(i, m) \in R
    OBVIOUS
  <2> QED
    BY <1>4
<1>6. \A s \in SUBSET S : s # {} => place[s] \in s
  BY <1>2, MaxIsIn
<1>7. p \in R
  <2> DEFINE Table(it) ==
               it = [s \in SUBSET S |->
                       IF s = {} THEN l ELSE After(Sampled!Max(s), it[s \ {Sampled!Max(s)}])]
             jt == CHOOSE it : Table(it)
  <2>1. p = jt[S]
    BY DEF Sampled!apply_repetition_penalty, Sampled!FoldLeft, Sampled!MapThenFoldSet, Sampled!Token
  <2>2. l \in R
    OBVIOUS
  <2>3. /\ \E it \in [SUBSET S -> R] : Folded(l, place, step, it, S)
        /\ \A it : Follows(l, place, step, R, it, S) => it[S] \in R
    <3> HIDE DEF S, R, place, step
    <3> QED
      BY <1>3, <1>5, <1>6, <2>2, FoldTyped
  <2>4. ASSUME NEW it, NEW s \in SUBSET S, s # {}, it[s \ {place[s]}] \in R
        PROVE  /\ place[s] = Sampled!Max(s) /\ place[s] \in S
               /\ step[place[s]][it[s \ {place[s]}]] = After(place[s], it[s \ {place[s]}])
    <3>1. place[s] \in S /\ place[s] = Sampled!Max(s)
      BY <1>6, <2>4
    <3> HIDE DEF place, After, R, S
    <3> QED
      BY <2>4, <3>1
  <2>5. \E it : Table(it)
    <3>1. PICK it \in [SUBSET S -> R] : Folded(l, place, step, it, S)
      BY <2>3
    <3>2. ASSUME NEW s \in SUBSET S
          PROVE  it[s] = IF s = {} THEN l
                         ELSE After(Sampled!Max(s), it[s \ {Sampled!Max(s)}])
      <4> HIDE DEF place, After, R, S, step
      <4>1. it[s] = IF s = {} THEN l ELSE step[place[s]][it[s \ {place[s]}]]
        BY <3>1 DEF Folded
      <4>2. it[s \ {place[s]}] \in R
        BY <3>1
      <4>3. CASE s = {}
        BY <4>1, <4>3
      <4>4. CASE s # {}
        <5>1. /\ place[s] = Sampled!Max(s)
              /\ step[place[s]][it[s \ {place[s]}]] = After(place[s], it[s \ {place[s]}])
          BY <2>4, <4>2, <4>4
        <5>2. it[s] = step[place[s]][it[s \ {place[s]}]]
          BY <4>1, <4>4
        <5>3. it[s] = After(Sampled!Max(s), it[s \ {Sampled!Max(s)}])
          BY <5>1, <5>2
        <5> QED
          BY <4>4, <5>3
      <4> QED
        BY <4>3, <4>4
    <3>3. it = [s \in SUBSET S |-> it[s]]
      BY <3>1
    <3> HIDE DEF After, R, S
    <3>4. Table(it)
      BY <3>2, <3>3
    <3> QED
      BY <3>4
  <2>6. Table(jt)
    <3> HIDE DEF Table
    <3> QED
      BY <2>5
  <2>7. Follows(l, place, step, R, jt, S)
    <3> HIDE DEF R, S, jt, place, step
    <3> SUFFICES ASSUME NEW s \in SUBSET S
                 PROVE  /\ s = {} => jt[s] = l
                        /\ s # {} /\ jt[s \ {place[s]}] \in R =>
                             jt[s] = step[place[s]][jt[s \ {place[s]}]]
      BY DEF Follows
    <3> HIDE DEF After
    <3>1. jt[s] = IF s = {} THEN l ELSE After(Sampled!Max(s), jt[s \ {Sampled!Max(s)}])
      BY <2>6
    <3> QED
      BY <2>4, <3>1
  <2> QED
    BY <2>1, <2>3, <2>7
<1> HIDE DEF p
<1>8. ASSUME NEW t \in 1..Vocabulary PROVE Sampled!CountOf(t) \in Nat
  <2> DEFINE I == {i \in DOMAIN previous : previous[i] = t}
  <2>1. IsFiniteSet(I)
    BY <1>3, FS_Subset
  <2>2. Sampled!Cardinality(I) = Cardinality(I)
    BY Zenon DEF Sampled!Cardinality, Cardinality, Sampled!IsFiniteSet, IsFiniteSet
  <2> QED
    BY <2>1, <2>2, FS_CardinalityType DEF Sampled!CountOf
<1>9. ASSUME NEW t \in 1..Vocabulary
      PROVE  p[t] - params.frequency * Sampled!CountOf(t) - params.presence \in Int /\ p[t] \in Int
  <2> DEFINE a == params.frequency
             b == params.presence
             c == Sampled!CountOf(t)
  <2>1. a \in Nat /\ b \in Nat /\ c \in Nat /\ p[t] \in Int
    BY <1>1, <1>7, <1>8
  <2> HIDE DEF a, b, c
  <2>2. a * c \in Int
    BY <2>1
  <2>3. p[t] - a * c - b \in Int
    BY <2>1, <2>2
  <2> QED
    BY <2>1, <2>3 DEF a, b, c
<1> QED
  BY <1>9 DEF Sampled!apply_frequency_presence_penalty, Sampled!Token, p

LEMMA GreatestLogit ==
  ASSUME Vocabulary \in Nat \ {0}, NEW l \in [1..Vocabulary -> Int]
  PROVE  \E t \in 1..Vocabulary : \A u \in 1..Vocabulary : l[u] <= l[t]
<1> DEFINE A == {n \in Nat : n \in 1..Vocabulary =>
                               \E t \in 1..n : \A u \in 1..n : l[u] <= l[t]}
<1>1. 0 \in A
  OBVIOUS
<1>2. ASSUME NEW n \in Nat, n \in A PROVE n + 1 \in A
  <2> SUFFICES ASSUME n + 1 \in 1..Vocabulary
               PROVE  \E t \in 1..(n + 1) : \A u \in 1..(n + 1) : l[u] <= l[t]
    OBVIOUS
  <2>1. CASE n = 0
    <3>1. 1 \in 1..(n + 1) /\ \A u \in 1..(n + 1) : u = 1
      BY <2>1
    <3>2. l[1] \in Int /\ l[1] <= l[1]
      BY <2>1
    <3>3. \A u \in 1..(n + 1) : l[u] <= l[1]
      BY <3>1, <3>2
    <3> QED
      BY <3>1, <3>3
  <2>2. CASE n # 0
    <3>1. PICK t \in 1..n : \A u \in 1..n : l[u] <= l[t]
      BY <1>2, <2>2
    <3>2. /\ l[n + 1] \in Int /\ l[t] \in Int /\ \A u \in 1..n : l[u] \in Int
          /\ \A u \in 1..(n + 1) : u \in 1..n \/ u = n + 1
          /\ t \in 1..(n + 1) /\ n + 1 \in 1..(n + 1)
      OBVIOUS
    <3>3. CASE l[n + 1] <= l[t]
      BY <3>1, <3>2, <3>3
    <3>4. CASE ~(l[n + 1] <= l[t])
      <4>1. \A u \in 1..(n + 1) : l[u] <= l[n + 1]
        BY <3>1, <3>2, <3>4
      <4> QED
        BY <3>2, <4>1
    <3> QED
      BY <3>3, <3>4
  <2> QED
    BY <2>1, <2>2
<1>3. Nat \subseteq A
  <2> HIDE DEF A
  <2> QED
    BY <1>1, <1>2, EveryNat
<1>4. Vocabulary \in A
  BY <1>3
<1> QED
  BY <1>4

LEMMA PowersSmall ==
  ASSUME NEW n \in 0..3
  PROVE  2^n \in 0..8
<1>1. 2^0 = 1 /\ 2^1 = 2 /\ 2^2 = 4 /\ 2^3 = 8
  OBVIOUS
<1>2. n = 0 \/ n = 1 \/ n = 2 \/ n = 3
  OBVIOUS
<1>3. 2^n = 1 \/ 2^n = 2 \/ 2^n = 4 \/ 2^n = 8
  BY <1>1, <1>2, Zenon
<1>4. 1 \in 0..8 /\ 2 \in 0..8 /\ 4 \in 0..8 /\ 8 \in 0..8
  OBVIOUS
<1> QED
  BY <1>3, <1>4, Zenon

LEMMA SoftmaxTyped ==
  ASSUME Vocabulary \in Nat \ {0}, NEW l \in [1..Vocabulary -> Int]
  PROVE  Sampled!Softmax(l) \in [1..Vocabulary -> 0..8]
<1> DEFINE L == {l[t] : t \in 1..Vocabulary}
           top == Sampled!Max(L)
<1>1. PICK t \in 1..Vocabulary : \A u \in 1..Vocabulary : l[u] <= l[t]
  BY GreatestLogit
<1>2. \E x \in L : \A y \in L : x >= y
  <2>1. l[t] \in L /\ \A y \in L : l[t] >= y
    BY <1>1
  <2> QED
    BY <2>1
<1>3. top \in L /\ \A y \in L : top >= y
  BY <1>2 DEF Sampled!Max
<1>4. top \in Int /\ \A u \in 1..Vocabulary : top >= l[u]
  <2> HIDE DEF top
  <2> QED
    BY <1>3
<1> HIDE DEF top
<1>5. ASSUME NEW u \in 1..Vocabulary
      PROVE  (IF top - l[u] > 3 THEN 0 ELSE 2^(3 - (top - l[u]))) \in 0..8
  <2>1. CASE top - l[u] > 3
    BY <2>1
  <2>2. CASE ~(top - l[u] > 3)
    <3> DEFINE n == 3 - (top - l[u])
    <3>1. n \in 0..3
      <4> DEFINE c == l[u]
      <4>1. top \in Int /\ c \in Int /\ top >= c /\ ~(top - c > 3)
        BY <1>4, <2>2
      <4> HIDE DEF c
      <4>2. 3 - (top - c) \in 0..3
        BY <4>1
      <4> QED
        BY <4>2 DEF c
    <3> HIDE DEF n
    <3>2. 2^n \in 0..8
      BY <3>1, PowersSmall
    <3> QED
      BY <2>2, <3>2 DEF n
  <2> QED
    BY <2>1, <2>2
<1> QED
  BY <1>5 DEF Sampled!Softmax, Sampled!Token, top

\* The weights add up to at most the greatest one for each token.
LEMMA UpToBounded ==
  ASSUME Vocabulary \in Nat, NEW w \in [1..Vocabulary -> 0..8]
  PROVE  UpTo(w, Vocabulary) \in 0..(8 * Vocabulary)
<1> DEFINE A == {n \in Nat : n <= Vocabulary => UpTo(w, n) \in 0..(8 * n)}
<1>0. w \in [1..Vocabulary -> Nat]
  OBVIOUS
<1>1. 0 \in A
  <2>1. UpTo(w, 0) = 0
    BY <1>0, UpToGrows
  <2> QED
    BY <2>1
<1>2. ASSUME NEW n \in Nat, n \in A PROVE n + 1 \in A
  <2> SUFFICES ASSUME n + 1 <= Vocabulary PROVE UpTo(w, n + 1) \in 0..(8 * (n + 1))
    OBVIOUS
  <2>1. UpTo(w, n) \in 0..(8 * n)
    BY <1>2
  <2>2. n + 1 \in 1..Vocabulary /\ (n + 1) - 1 = n /\ w[n + 1] \in 0..8
    OBVIOUS
  <2>3. UpTo(w, n + 1) = UpTo(w, n) + w[n + 1]
    BY <1>0, <2>2, UpToGrows
  <2> DEFINE a == UpTo(w, n)
             b == w[n + 1]
  <2>4. a \in 0..(8 * n) /\ b \in 0..8
    BY <2>1, <2>2
  <2> HIDE DEF a, b
  <2>5. a + b \in 0..(8 * (n + 1))
    BY <2>4
  <2> QED
    BY <2>3, <2>5 DEF a, b
<1>3. Nat \subseteq A
  <2> HIDE DEF A
  <2> QED
    BY <1>1, <1>2, EveryNat
<1>4. Vocabulary \in A
  BY <1>3
<1> QED
  BY <1>4

LEMMA ReachesToken ==
  ASSUME NEW w \in [1..Vocabulary -> Nat], Vocabulary \in Nat \ {0},
         NEW r \in 0..UpTo(w, Vocabulary)
  PROVE  Sampled!Reaches(w, r) \in 1..Vocabulary
<1> DEFINE S == {t \in 1..Vocabulary : UpTo(w, t) >= r}
<1>1. Sampled!Reaches(w, r) = Sampled!Min(S)
  BY SumIsSumOf DEF Sampled!Reaches, Sampled!Token, UpTo
<1>2. UpTo(w, Vocabulary) \in Nat
  <2>1. Vocabulary \in 0..Vocabulary
    OBVIOUS
  <2> QED
    BY <2>1, UpToGrows
<1>3. S \in SUBSET Nat /\ Vocabulary \in S
  BY <1>2
<1> HIDE DEF S
<1>4. Sampled!Min(S) \in S
  BY <1>3, MinIsLeast
<1> QED
  BY <1>1, <1>4 DEF S

LEMMA ArgmaxToken ==
  ASSUME Vocabulary \in Nat \ {0}, NEW l \in [1..Vocabulary -> Int]
  PROVE  Sampled!Argmax(l) \in 1..Vocabulary
<1> DEFINE S == {t \in 1..Vocabulary : \A u \in 1..Vocabulary : l[u] <= l[t]}
<1>1. S # {} /\ S \in SUBSET (1..Vocabulary)
  BY GreatestLogit
<1>2. Sampled!Argmax(l) = Sampled!Max(S)
  BY DEF Sampled!Argmax, Sampled!Token
<1> HIDE DEF S
<1> QED
  BY <1>1, <1>2, MaxIsIn

-----------------------------------------------------------------------------
\* A draw that has a probability is within the weights it was drawn from.
Drawn ==
  draw = 0 \/ /\ samplerStage = "done" /\ draw \in 1..Sampled!Sum(weights)
              /\ token = Sampled!Reaches(weights, draw)

SamplerInv == Sampled!SamplerTypeOK /\ Drawn

LEMMA WeightsTyped ==
  ASSUME Vocabulary \in Nat, NEW w \in [1..Vocabulary -> 0..8]
  PROVE  /\ w \in [1..Vocabulary -> Nat] /\ Sampled!Sum(w) = UpTo(w, Vocabulary)
         /\ Sampled!Sum(w) \in 0..(8 * Vocabulary) /\ Sampled!Sum(w) \in Nat
<1>1. w \in [1..Vocabulary -> Nat]
  OBVIOUS
<1>2. Sampled!Sum(w) = UpTo(w, Vocabulary)
  BY SumIsSumOf DEF Sampled!Sum, UpTo
<1>3. UpTo(w, Vocabulary) \in 0..(8 * Vocabulary)
  BY UpToBounded
<1> QED
  BY <1>1, <1>2, <1>3

LEMMA SamplerInvNext ==
  ASSUME Sampled!SamplerAssumption, SamplerInv, [Sampled!SamplerNext]_(Sampled!samplerVars)
  PROVE  SamplerInv'
<1> USE DEF Sampled!Token, Sampled!Heaviest, Sampled!Goes
<1>0. Vocabulary \in Nat \ {0}
  BY DEF Sampled!SamplerAssumption
<1>1. CASE Sampled!Penalise
  <2>1. logits' \in [1..Vocabulary -> Int]
    BY <1>1, PenaltiesTyped DEF SamplerInv, Sampled!SamplerTypeOK, Sampled!Penalise
  <2>2. draw = 0
    BY <1>1 DEF SamplerInv, Drawn, Sampled!Penalise
  <2> QED
    BY <1>1, <2>1, <2>2 DEF SamplerInv, Drawn, Sampled!SamplerTypeOK, Sampled!Penalise
<1>2. CASE Sampled!Greedy
  <2>1. token' \in 1..Vocabulary
    BY <1>0, <1>2, ArgmaxToken DEF SamplerInv, Sampled!SamplerTypeOK, Sampled!Greedy
  <2>2. draw = 0
    BY <1>2 DEF SamplerInv, Drawn, Sampled!Greedy
  <2> QED
    BY <1>2, <2>1, <2>2 DEF SamplerInv, Drawn, Sampled!SamplerTypeOK, Sampled!Greedy
<1>3. CASE Sampled!ToProbabilities
  <2>1. weights' \in [1..Vocabulary -> 0..8]
    BY <1>0, <1>3, SoftmaxTyped DEF SamplerInv, Sampled!SamplerTypeOK, Sampled!ToProbabilities
  <2>2. totalMass' \in 0..(8 * Vocabulary)
    BY <1>0, <1>3, <2>1, WeightsTyped DEF Sampled!ToProbabilities
  <2>3. draw = 0
    BY <1>3 DEF SamplerInv, Drawn, Sampled!ToProbabilities
  <2> QED
    BY <1>3, <2>1, <2>2, <2>3 DEF SamplerInv, Drawn, Sampled!SamplerTypeOK, Sampled!ToProbabilities
<1>4. CASE Sampled!apply_top_k
  <2>1. weights' \in [1..Vocabulary -> 0..8]
    BY <1>4 DEF SamplerInv, Sampled!SamplerTypeOK, Sampled!apply_top_k
  <2>2. draw = 0
    BY <1>4 DEF SamplerInv, Drawn, Sampled!apply_top_k
  <2> QED
    BY <1>4, <2>1, <2>2 DEF SamplerInv, Drawn, Sampled!SamplerTypeOK, Sampled!apply_top_k
<1>5. CASE Sampled!apply_top_p
  <2>1. weights' \in [1..Vocabulary -> 0..8]
    BY <1>5 DEF SamplerInv, Sampled!SamplerTypeOK, Sampled!apply_top_p
  <2>2. draw = 0
    BY <1>5 DEF SamplerInv, Drawn, Sampled!apply_top_p
  <2> QED
    BY <1>5, <2>1, <2>2 DEF SamplerInv, Drawn, Sampled!SamplerTypeOK, Sampled!apply_top_p
<1>6. CASE Sampled!apply_min_p
  <2>1. weights' \in [1..Vocabulary -> 0..8]
    BY <1>6 DEF SamplerInv, Sampled!SamplerTypeOK, Sampled!apply_min_p
  <2>2. draw = 0
    BY <1>6 DEF SamplerInv, Drawn, Sampled!apply_min_p
  <2> QED
    BY <1>6, <2>1, <2>2 DEF SamplerInv, Drawn, Sampled!SamplerTypeOK, Sampled!apply_min_p
<1>7. ASSUME NEW r \in 0..(8 * Vocabulary), Sampled!Sample(r) PROVE SamplerInv'
  <2>1. weights' \in [1..Vocabulary -> 0..8]
    BY <1>7 DEF SamplerInv, Sampled!SamplerTypeOK, Sampled!Sample, Sampled!Renormalised
  <2>2. /\ weights' \in [1..Vocabulary -> Nat]
        /\ Sampled!Sum(weights') = UpTo(weights', Vocabulary) /\ Sampled!Sum(weights') \in Nat
    BY <1>0, <2>1, WeightsTyped
  <2>3. r \in 0..UpTo(weights', Vocabulary) /\ draw' = r /\ samplerStage' = "done"
    BY <1>7, <2>2 DEF Sampled!Sample
  <2>4. token' = Sampled!Reaches(weights', r) /\ token' \in 1..Vocabulary
    BY <1>0, <1>7, <2>2, <2>3, ReachesToken DEF Sampled!Sample
  <2>5. draw' = 0 \/ draw' \in 1..Sampled!Sum(weights')
    BY <2>2, <2>3
  <2>6. Drawn'
    BY <2>3, <2>4, <2>5 DEF Drawn
  <2> QED
    BY <1>7, <2>1, <2>3, <2>4, <2>6 DEF SamplerInv, Sampled!SamplerTypeOK, Sampled!Sample
<1>8. CASE UNCHANGED Sampled!samplerVars
  BY <1>8 DEF SamplerInv, Drawn, Sampled!SamplerTypeOK, Sampled!samplerVars
<1> QED
  BY <1>1, <1>2, <1>3, <1>4, <1>5, <1>6, <1>7, <1>8 DEF Sampled!SamplerNext

LEMMA SamplerInvInit ==
  ASSUME Sampled!SamplerAssumption, Sampled!SamplerInit
  PROVE  SamplerInv
<1>0. Vocabulary \in Nat \ {0} /\ Logits \subseteq Int
  BY DEF Sampled!SamplerAssumption
<1>1. 0 \in 0..(8 * Vocabulary) /\ 0 \in 0..Vocabulary /\ 0 \in 0..8
  BY <1>0
<1> QED
  BY <1>0, <1>1 DEF SamplerInv, Drawn, Sampled!SamplerInit, Sampled!SamplerTypeOK,
                    Sampled!Token, Sampled!Heaviest

\* Of any vocabulary, with any parameters and after any tokens, a token is drawn exactly
\* as often as it weighs after the filters: over the draws that have a probability, each
\* comes up once for each unit of its weight, and one that was filtered out never does
\* (sample, inference/sampler.rs).
THEOREM DrawsAlwaysInProportion ==
  Sampled!SamplerAssumption =>
    (Sampled!SamplerSpec =>
       [](Sampled!SamplerTypeOK /\ Sampled!DrawsInProportion /\ Sampled!SampledIsCandidate))
<1> SUFFICES ASSUME Sampled!SamplerAssumption
             PROVE  Sampled!SamplerSpec =>
                      [](Sampled!SamplerTypeOK /\ Sampled!DrawsInProportion /\ Sampled!SampledIsCandidate)
  OBVIOUS
<1>0. Vocabulary \in Nat \ {0}
  BY DEF Sampled!SamplerAssumption
<1>1. Sampled!SamplerInit => SamplerInv
  BY SamplerInvInit
<1>2. SamplerInv => Sampled!SamplerTypeOK /\ Sampled!DrawsInProportion /\ Sampled!SampledIsCandidate
  <2> SUFFICES ASSUME SamplerInv
               PROVE  Sampled!DrawsInProportion /\ Sampled!SampledIsCandidate
    BY DEF SamplerInv
  <2>1. weights \in [1..Vocabulary -> 0..8]
    BY DEF SamplerInv, Sampled!SamplerTypeOK, Sampled!Token, Sampled!Heaviest
  <2>2. /\ weights \in [1..Vocabulary -> Nat]
        /\ Sampled!Sum(weights) = UpTo(weights, Vocabulary) /\ Sampled!Sum(weights) \in Nat
    BY <1>0, <2>1, WeightsTyped
  <2>3. Sampled!DrawsInProportion
    BY <1>0, <2>2, DrawnInProportion DEF Sampled!DrawsInProportion, Sampled!Token
  <2>4. ASSUME draw > 0 PROVE token \in Sampled!Candidates
    <3>1. draw \in 1..UpTo(weights, Vocabulary) /\ token = Sampled!Reaches(weights, draw)
      BY <2>2, <2>4 DEF SamplerInv, Drawn
    <3>2. /\ token \in 1..Vocabulary
          /\ UpTo(weights, token - 1) < draw /\ draw <= UpTo(weights, token)
      BY <1>0, <2>2, <3>1, ReachesStretch
    <3>3. token - 1 \in 0..Vocabulary
      BY <1>0, <3>2
    <3>4. /\ UpTo(weights, token) = UpTo(weights, token - 1) + weights[token]
          /\ UpTo(weights, token - 1) \in Nat /\ weights[token] \in Nat
      BY <1>0, <2>2, <3>2, <3>3, UpToGrows
    <3>5. weights[token] > 0
      BY <3>1, <3>2, <3>4
    <3> QED
      BY <3>2, <3>5 DEF Sampled!Candidates, Sampled!Token
  <2>5. Sampled!SampledIsCandidate
    BY <2>4 DEF Sampled!SampledIsCandidate
  <2> QED
    BY <2>3, <2>5
<1> QED
  BY <1>1, <1>2, SamplerInvNext, PTL DEF Sampled!SamplerSpec

-----------------------------------------------------------------------------
(***************************************************************************)
(* The three filters.  Sorted by falling weight, the tokens that a filter  *)
(* keeps are the first ones.                                               *)
(***************************************************************************)

\* Of two sets of tokens, the smaller one has fewer.
LEMMA TokensCount ==
  ASSUME Vocabulary \in Nat, NEW S \in SUBSET (1..Vocabulary)
  PROVE  /\ IsFiniteSet(S) /\ Sampled!Cardinality(S) = Cardinality(S)
         /\ Cardinality(S) \in 0..Vocabulary
         /\ \A T \in SUBSET S : Cardinality(T) <= Cardinality(S)
         /\ \A T \in SUBSET S : T # S => Cardinality(T) < Cardinality(S)
<1>1. IsFiniteSet(1..Vocabulary) /\ Cardinality(1..Vocabulary) = Vocabulary
  BY FS_Interval
<1>2. IsFiniteSet(S) /\ Cardinality(S) \in Nat /\ Cardinality(S) <= Vocabulary
  BY <1>1, FS_Subset, FS_CardinalityType
<1>3. ASSUME NEW T \in SUBSET S
      PROVE  /\ Cardinality(T) \in Nat /\ Cardinality(T) <= Cardinality(S)
             /\ Cardinality(S) = Cardinality(T) => S = T
  BY <1>2, FS_Subset, FS_CardinalityType
<1>4. Sampled!Cardinality(S) = Cardinality(S)
  BY Zenon DEF Sampled!Cardinality, Cardinality, Sampled!IsFiniteSet, IsFiniteSet
<1> QED
  BY <1>2, <1>3, <1>4

\* The i-th token has i - 1 tokens before it.
LEMMA IndexedSorts ==
  ASSUME Vocabulary \in Nat \ {0}, weights \in [1..Vocabulary -> Nat]
  PROVE  /\ Sampled!Indexed \in [1..Vocabulary -> 1..Vocabulary]
         /\ \A t \in 1..Vocabulary : \E i \in 1..Vocabulary : Sampled!Indexed[i] = t
         /\ \A i, j \in 1..Vocabulary : i < j => /\ Sampled!Indexed[i] # Sampled!Indexed[j]
              /\ weights[Sampled!Indexed[i]] >= weights[Sampled!Indexed[j]]
<1> DEFINE T == 1..Vocabulary
           Behind(t) == {u \in T : Sampled!Before(u, t)}
           rank == [t \in T |-> Cardinality(Behind(t)) + 1]
           q == Sampled!Indexed
<1>0. \A t \in T : weights[t] \in Nat /\ t \in Nat
  OBVIOUS
<1>1. \A t, u \in T :
        /\ ~Sampled!Before(t, t)
        /\ Sampled!Before(t, u) \/ Sampled!Before(u, t) \/ t = u
        /\ Sampled!Before(t, u) => weights[t] >= weights[u]
  BY <1>0 DEF Sampled!Before
<1>2. \A t, u, v \in T : Sampled!Before(t, u) /\ Sampled!Before(u, v) => Sampled!Before(t, v)
  BY <1>0 DEF Sampled!Before
<1> HIDE DEF T
<1>3. ASSUME NEW t \in T PROVE rank[t] \in T /\ rank[t] = Cardinality(Behind(t)) + 1
  <2>1. Behind(t) \in SUBSET T /\ Behind(t) # T
    BY <1>1
  <2>2. Cardinality(Behind(t)) < Cardinality(T) /\ Cardinality(Behind(t)) \in Nat
    <3>1. T \in SUBSET T /\ \A S \in SUBSET T : Cardinality(S) \in 0..Vocabulary
      BY TokensCount DEF T
    <3> HIDE DEF Behind
    <3> QED
      BY <2>1, <3>1, TokensCount DEF T
  <2>3. Cardinality(T) = Vocabulary
    BY FS_Interval DEF T
  <2>4. rank[t] = Cardinality(Behind(t)) + 1
    OBVIOUS
  <2> QED
    BY <2>2, <2>3, <2>4 DEF T
<1>4. ASSUME NEW t \in T, NEW u \in T, Sampled!Before(t, u) PROVE rank[t] < rank[u]
  <2>1. Behind(t) \in SUBSET Behind(u) /\ t \in Behind(u) /\ t \notin Behind(t)
    BY <1>1, <1>2, <1>4
  <2>2. Behind(u) \in SUBSET (1..Vocabulary) /\ Behind(t) \in SUBSET (1..Vocabulary)
    BY DEF T
  <2>3. Behind(t) # Behind(u)
    BY <2>1
  <2>4. rank[t] = Cardinality(Behind(t)) + 1 /\ rank[u] = Cardinality(Behind(u)) + 1
    BY <1>3
  <2> HIDE DEF Behind, rank
  <2>5. /\ Cardinality(Behind(t)) < Cardinality(Behind(u))
        /\ Cardinality(Behind(t)) \in Nat /\ Cardinality(Behind(u)) \in Nat
    BY <2>1, <2>2, <2>3, TokensCount
  <2> QED
    BY <2>4, <2>5
<1>5. \A t, u \in T : rank[t] = rank[u] => t = u
  <2> SUFFICES ASSUME NEW t \in T, NEW u \in T, rank[t] = rank[u], t # u PROVE FALSE
    OBVIOUS
  <2>1. rank[t] \in Nat /\ rank[u] \in Nat
    BY <1>3 DEF T
  <2> HIDE DEF rank
  <2> QED
    BY <1>1, <1>4, <2>1
<1>6. \A i \in T : \E t \in T : rank[t] = i
  <2>1. rank \in [T -> T]
    <3>1. rank = [t \in T |-> rank[t]]
      OBVIOUS
    <3> HIDE DEF rank
    <3> QED
      BY <1>3, <3>1
  <2> HIDE DEF rank
  <2>2. rank \in Injection(T, T)
    BY <1>5, <2>1 DEF Injection, IsInjective
  <2>3. IsFiniteSet(T)
    BY FS_Interval DEF T
  <2>4. rank \in Surjection(T, T)
    BY <2>2, <2>3, FS_Injection
  <2> QED
    BY <2>4 DEF Surjection
<1>7. ASSUME NEW i \in T PROVE q[i] \in T /\ rank[q[i]] = i
  <2>1. q[i] = CHOOSE t \in T : Sampled!Cardinality(Behind(t)) = i - 1
    BY DEF Sampled!Indexed, Sampled!Token, T
  <2>2. ASSUME NEW t \in T
        PROVE  /\ Sampled!Cardinality(Behind(t)) = i - 1 <=> rank[t] = i
    <3>1. Behind(t) \in SUBSET (1..Vocabulary)
      BY DEF T
    <3>2. rank[t] = Cardinality(Behind(t)) + 1 /\ i \in Nat
      BY <1>3 DEF T
    <3> HIDE DEF Behind, rank
    <3>3. Sampled!Cardinality(Behind(t)) = Cardinality(Behind(t)) /\ Cardinality(Behind(t)) \in Nat
      BY <3>1, TokensCount
    <3> DEFINE c == Cardinality(Behind(t))
               d == Sampled!Cardinality(Behind(t))
               k == rank[t]
    <3>4. c \in Nat /\ d = c /\ k = c + 1
      BY <3>2, <3>3
    <3> HIDE DEF c, d, k
    <3>5. d = i - 1 <=> k = i
      BY <3>2, <3>4
    <3> QED
      BY <3>5 DEF d, k
  <2>3. PICK t \in T : rank[t] = i
    BY <1>6
  <2> HIDE DEF Behind, rank, q
  <2>4. \E u \in T : Sampled!Cardinality(Behind(u)) = i - 1
    BY <2>2, <2>3
  <2>5. q[i] \in T /\ Sampled!Cardinality(Behind(q[i])) = i - 1
    BY <2>1, <2>4
  <2> QED
    BY <2>2, <2>5
<1>8. q \in [T -> T]
  <2> DEFINE e(i) == CHOOSE t \in T : Sampled!Cardinality(Behind(t)) = i - 1
  <2>0. q = [i \in T |-> e(i)]
    BY DEF Sampled!Indexed, Sampled!Token, T
  <2> HIDE DEF e
  <2>1. q = [i \in T |-> q[i]]
    BY <2>0
  <2> HIDE DEF q
  <2> QED
    BY <1>7, <2>1
<1> HIDE DEF q, rank
<1>9. ASSUME NEW t \in T PROVE \E i \in T : q[i] = t
  <2>1. rank[t] \in T
    BY <1>3
  <2>2. q[rank[t]] \in T /\ rank[q[rank[t]]] = rank[t]
    BY <1>7, <2>1
  <2> QED
    BY <1>5, <2>1, <2>2
<1>10. ASSUME NEW i \in T, NEW j \in T, i < j
       PROVE  q[i] # q[j] /\ weights[q[i]] >= weights[q[j]]
  <2>1. q[i] \in T /\ q[j] \in T /\ rank[q[i]] = i /\ rank[q[j]] = j
    BY <1>7
  <2>2. i \in Nat /\ j \in Nat /\ ~(j < i) /\ i # j
    BY <1>10 DEF T
  <2>3. ~Sampled!Before(q[j], q[i]) /\ q[i] # q[j]
    BY <1>4, <2>1, <2>2
  <2> QED
    BY <1>1, <2>1, <2>3
<1> QED
  BY <1>8, <1>9, <1>10 DEF q, T

-----------------------------------------------------------------------------
\* Tokens by their probability o before the filters.
MoreProbable(o, u) == {t \in 1..Vocabulary : o[t] > o[u]}
AsProbable(o, u) == {t \in 1..Vocabulary : o[t] >= o[u]} \ {u}

\* Why each filter may drop a token.
ByTopK(p, o, u) == p.top_k > 0 /\ Cardinality(MoreProbable(o, u)) >= p.top_k
ByTopP(p, o, u, mass) == SumOf(o, AsProbable(o, u)) * Whole > p.top_p * mass
ByMinP(p, o, u) == o[u] * Whole < p.min_p * 8

Lost(o, w) == {u \in 1..Vocabulary : w[u] = 0 /\ o[u] > 0}

\* What is left of the weights o is closed upwards and has a greatest one.
Left(o, w) ==
  /\ \A t \in 1..Vocabulary : w[t] = 0 \/ w[t] = o[t]
  /\ \E t \in 1..Vocabulary : w[t] = 8
  /\ \A t, u \in 1..Vocabulary : w[t] > 0 /\ o[u] > o[t] => w[u] > 0

Weighs == [1..Vocabulary -> 0..8]

LEMMA TopKKeeps ==
  ASSUME Vocabulary \in Nat \ {0}, weights \in Weighs, NEW o, o = weights,
         Left(o, weights), params.top_k \in Nat, Sampled!apply_top_k
  PROVE  /\ Left(o, weights')
         /\ \A u \in Lost(o, weights') : ByTopK(params, o, u)
<1> DEFINE k == params.top_k
           q == Sampled!Indexed
           thr == Sampled!TopKThreshold
<1>0. k \in Nat
  OBVIOUS
<1>1. CASE k = 0 \/ k >= Vocabulary
  <2>1. weights' = weights
    BY <1>1 DEF Sampled!apply_top_k
  <2>2. Lost(o, weights) = {}
    BY DEF Lost, Weighs
  <2> QED
    BY <2>1, <2>2
<1>2. CASE ~(k = 0 \/ k >= Vocabulary)
  <2>0. weights' = [t \in 1..Vocabulary |-> IF weights[t] < thr THEN 0 ELSE weights[t]]
    BY <1>2 DEF Sampled!apply_top_k, Sampled!Token
  <2>1. weights \in [1..Vocabulary -> Nat] /\ \A t \in 1..Vocabulary : weights[t] \in 0..8
    BY DEF Weighs
  <2>2. /\ q \in [1..Vocabulary -> 1..Vocabulary]
        /\ \A i, j \in 1..Vocabulary : i < j => q[i] # q[j] /\ weights[q[i]] >= weights[q[j]]
    BY <2>1, IndexedSorts
  <2>3. thr = weights[q[k + 1]]
    BY DEF Sampled!TopKThreshold
  <2> HIDE DEF q, thr, k
  <2>4. k + 1 \in 1..Vocabulary
    BY <1>0, <1>2
  <2>5. thr \in 0..8
    BY <2>1, <2>2, <2>3, <2>4
  <2>6. Left(o, weights')
    <3>1. \A t \in 1..Vocabulary :
            /\ weights'[t] = 0 \/ (weights'[t] = o[t] /\ o[t] >= thr)
            /\ o[t] >= thr => weights'[t] = o[t]
            /\ o[t] \in 0..8
      BY <2>0, <2>1, <2>5
    <3>2. PICK t \in 1..Vocabulary : o[t] = 8
      BY DEF Left
    <3>3. weights'[t] = 8
      BY <2>5, <3>1, <3>2
    <3>4. ASSUME NEW x \in 1..Vocabulary, NEW y \in 1..Vocabulary, weights'[x] > 0, o[y] > o[x]
          PROVE  weights'[y] > 0
      BY <2>5, <3>1, <3>4
    <3> QED
      BY <3>1, <3>3, <3>4 DEF Left
  <2>7. ASSUME NEW u \in Lost(o, weights') PROVE ByTopK(params, o, u)
    <3> DEFINE S == 1..(k + 1)
               T == MoreProbable(o, u)
               f == [i \in S |-> q[i]]
    <3>1. u \in 1..Vocabulary /\ o[u] < thr
      BY <2>0, <2>1, <2>5, <2>7 DEF Lost
    <3>2. ASSUME NEW i \in S PROVE q[i] \in T
      <4>1. i \in 1..Vocabulary /\ (i < k + 1 \/ i = k + 1)
        BY <1>0, <2>4
      <4>2. q[i] \in 1..Vocabulary /\ weights[q[i]] >= thr
        <5>1. q[i] \in 1..Vocabulary /\ q[k + 1] \in 1..Vocabulary
          BY <2>2, <2>4, <4>1
        <5>2. CASE i < k + 1
          BY <2>2, <2>3, <2>4, <4>1, <5>1, <5>2
        <5>3. CASE i = k + 1
          BY <2>3, <2>5, <5>1, <5>3
        <5> QED
          BY <4>1, <5>2, <5>3
      <4>3. weights[q[i]] \in 0..8 /\ o[u] \in 0..8
        BY <2>1, <3>1, <4>2
      <4> QED
        BY <2>5, <3>1, <4>2, <4>3 DEF MoreProbable
    <3>3. \A i, j \in S : q[i] = q[j] => i = j
      <4> SUFFICES ASSUME NEW i \in S, NEW j \in S, i # j PROVE q[i] # q[j]
        OBVIOUS
      <4>1. i \in 1..Vocabulary /\ j \in 1..Vocabulary /\ (i < j \/ j < i)
        BY <1>0, <2>4
      <4> QED
        BY <2>2, <4>1
    <3>4. f \in Injection(S, T)
      <4> HIDE DEF S, T
      <4>1. f \in [S -> T]
        BY <3>2
      <4> QED
        BY <3>3, <4>1 DEF Injection, IsInjective
    <3>5. IsFiniteSet(T) /\ Cardinality(T) \in Nat
      <4>1. T \in SUBSET (1..Vocabulary)
        BY DEF MoreProbable
      <4> HIDE DEF T
      <4> QED
        BY <4>1, TokensCount
    <3>6. Cardinality(S) <= Cardinality(T)
      <4> HIDE DEF S, T, f
      <4> QED
        BY <3>4, <3>5, FS_Injection
    <3>7. Cardinality(S) = k + 1
      BY <1>0, FS_Interval
    <3> HIDE DEF S, T
    <3>8. k > 0 /\ Cardinality(T) >= k
      BY <1>0, <1>2, <3>5, <3>6, <3>7
    <3> QED
      BY <3>8 DEF ByTopK, k, T
  <2> QED
    BY <2>6, <2>7
<1> QED
  BY <1>1, <1>2

LEMMA TopPKeeps ==
  ASSUME Vocabulary \in Nat \ {0}, Whole \in Nat \ {0}, weights \in Weighs, NEW o \in Weighs,
         Left(o, weights), params.top_p \in Nat, totalMass \in Nat, Sampled!apply_top_p
  PROVE  /\ Left(o, weights')
         /\ \A u \in Lost(o, weights') : u \in Lost(o, weights) \/ ByTopP(params, o, u, totalMass)
<1> DEFINE q == Sampled!Indexed
           c == Sampled!Cutoff
           kept == Sampled!First(c)
           over == {n \in 1..Vocabulary : Sampled!Mass(n) * Whole > params.top_p * totalMass}
<1>0. /\ weights \in [1..Vocabulary -> Nat] /\ o \in [1..Vocabulary -> Nat]
      /\ \A t \in 1..Vocabulary : weights[t] \in 0..8 /\ o[t] \in 0..8
  BY SMTT(30) DEF Weighs
<1>1. CASE params.top_p >= Whole
  <2>1. weights' = weights
    BY <1>1 DEF Sampled!apply_top_p
  <2> QED
    BY <2>1
<1>2. CASE ~(params.top_p >= Whole)
  <2>1. weights' = [t \in 1..Vocabulary |-> IF t \in kept THEN weights[t] ELSE 0]
    BY <1>2 DEF Sampled!apply_top_p, Sampled!Token
  <2>2. /\ q \in [1..Vocabulary -> 1..Vocabulary]
        /\ \A t \in 1..Vocabulary : \E i \in 1..Vocabulary : q[i] = t
        /\ \A i, j \in 1..Vocabulary : i < j => q[i] # q[j] /\ weights[q[i]] >= weights[q[j]]
    BY <1>0, IndexedSorts
  <2>3. kept = {q[i] : i \in 1..c}
    BY DEF Sampled!First
  <2>4. /\ over = {} => c = Vocabulary
        /\ over # {} => c \in over
    <3>1. c = IF over = {} THEN Vocabulary ELSE Sampled!Min(over)
      BY DEF Sampled!Cutoff, Sampled!Token
    <3>2. over \in SUBSET Nat
      OBVIOUS
    <3> HIDE DEF over, c
    <3>3. over # {} => Sampled!Min(over) \in over
      BY <3>2, MinIsLeast
    <3> QED
      BY <3>1, <3>3
  <2>5. c \in 1..Vocabulary
    BY <2>4
  <2>6. c # Vocabulary => Sampled!Mass(c) * Whole > params.top_p * totalMass
    BY <2>4
  <2>7. Sampled!Mass(c) = SumOf(weights, kept)
    BY SumIsSumOf DEF Sampled!Mass
  <2> HIDE DEF q, c, kept, over
  <2>8. \A i \in 1..c : i \in 1..Vocabulary /\ q[i] \in 1..Vocabulary /\ q[i] \in kept
    <3>1. \A i \in 1..c : i \in 1..Vocabulary
      BY <2>5
    <3>2. \A i \in 1..c : q[i] \in kept
      BY <2>3
    <3> QED
      BY <2>2, <3>1, <3>2
  <2>9. ASSUME NEW t \in kept, NEW u \in (1..Vocabulary) \ kept
        PROVE  t \in 1..Vocabulary /\ weights[t] >= weights[u]
    <3>1. PICK i \in 1..c : t = q[i]
      BY <2>3
    <3>2. PICK j \in 1..Vocabulary : q[j] = u
      BY <2>2
    <3>3. ~(j \in 1..c)
      BY <2>9, <3>2, <2>8
    <3>4. i < j /\ i \in 1..Vocabulary
      BY <2>5, <3>3
    <3> QED
      BY <2>2, <2>8, <3>1, <3>2, <3>4
  <2>10. Left(o, weights')
    <3>1. \A t \in 1..Vocabulary :
            /\ weights[t] = 0 \/ weights[t] = o[t]
            /\ t \in kept => weights'[t] = weights[t]
            /\ t \notin kept => weights'[t] = 0
      BY <2>1 DEF Left
    <3>2. \E t \in 1..Vocabulary : weights'[t] = 8
      <4>1. PICK t \in 1..Vocabulary : weights[t] = 8
        BY DEF Left
      <4>2. CASE t \in kept
        BY <3>1, <4>1, <4>2
      <4>3. CASE t \notin kept
        <5>1. 1 \in 1..c
          BY <2>5
        <5>2. q[1] \in kept /\ q[1] \in 1..Vocabulary
          BY <2>8, <5>1
        <5>3. weights[q[1]] >= 8 /\ weights[q[1]] \in 0..8
          BY <1>0, <2>9, <4>1, <4>3, <5>2
        <5>4. weights'[q[1]] = 8
          BY <3>1, <5>2, <5>3
        <5> QED
          BY <5>2, <5>4
      <4> QED
        BY <4>2, <4>3
    <3>3. ASSUME NEW x \in 1..Vocabulary, NEW y \in 1..Vocabulary, weights'[x] > 0, o[y] > o[x]
          PROVE  weights'[y] > 0
      <4>0. x \in kept
        BY <3>1, <3>3
      <4>1. x \in kept /\ weights[x] > 0 /\ weights[x] = o[x]
        <5>1. weights'[x] = weights[x] /\ (weights[x] = 0 \/ weights[x] = o[x])
          BY <3>1, <4>0
        <5> QED
          BY <3>3, <4>0, <5>1
      <4>2. weights[y] > 0
        BY <3>3, <4>1 DEF Left
      <4>3. weights[y] = o[y] /\ weights[x] \in 0..8 /\ weights[y] \in 0..8
        BY <1>0, <3>1, <4>2
      <4>4. y \in kept
        BY <2>9, <3>3, <4>1, <4>3
      <4> QED
        BY <3>1, <4>2, <4>4
    <3>4. \A t \in 1..Vocabulary : weights'[t] = 0 \/ weights'[t] = o[t]
      BY <3>1
    <3> QED
      BY <3>2, <3>3, <3>4 DEF Left
  <2>11. ASSUME NEW u \in Lost(o, weights'), u \notin Lost(o, weights)
         PROVE  ByTopP(params, o, u, totalMass)
    <3> DEFINE S == AsProbable(o, u)
    <3>1. u \in 1..Vocabulary /\ o[u] > 0 /\ weights'[u] = 0 /\ weights[u] # 0
      BY <2>11 DEF Lost
    <3>2. u \notin kept /\ weights[u] = o[u] /\ weights[u] > 0
      BY <1>0, <2>1, <3>1 DEF Left
    <3>3. ASSUME NEW t \in kept PROVE t \in S /\ weights[t] = o[t]
      <4>1. t \in 1..Vocabulary /\ weights[t] >= weights[u] /\ t # u
        BY <2>9, <3>1, <3>2
      <4>2. weights[t] \in 0..8 /\ weights[u] \in 0..8
        BY <1>0, <3>1, <4>1
      <4>3. weights[t] = o[t]
        BY <3>2, <4>1, <4>2 DEF Left
      <4> QED
        BY <3>2, <4>1, <4>3 DEF AsProbable
    <3>4. kept \in SUBSET S /\ S \in SUBSET (1..Vocabulary)
      BY <3>3 DEF AsProbable
    <3>5. c # Vocabulary
      <4> SUFFICES ASSUME c = Vocabulary PROVE FALSE
        OBVIOUS
      <4>1. PICK i \in 1..Vocabulary : q[i] = u
        BY <2>2, <3>1
      <4> QED
        BY <2>8, <3>2, <4>1
    <3>6. NatValued(o, 1..Vocabulary) /\ IntValued(o, 1..Vocabulary) /\ IntValued(weights, 1..Vocabulary)
      <4>1. IsFiniteSet(1..Vocabulary)
        BY FS_Interval
      <4>2. o \in [1..Vocabulary -> Int] /\ weights \in [1..Vocabulary -> Int]
        BY <1>0
      <4> QED
        BY <1>0, <4>1, <4>2 DEF NatValued, IntValued
    <3> HIDE DEF S
    <3>7. SumOf(weights, kept) = SumOf(o, kept)
      <4> DEFINE V == 1..Vocabulary
      <4>1. IntValued(o, V) /\ IntValued(weights, V) /\ kept \in SUBSET (V \cap V)
            /\ \A t \in kept : weights[t] = o[t]
        BY <3>3, <3>4, <3>6
      <4> HIDE DEF V
      <4> QED
        BY <4>1, SumSame
    <3>8. SumOf(o, kept) \in Nat /\ SumOf(o, S) \in Nat /\ SumOf(o, kept) <= SumOf(o, S)
      BY <3>4, <3>6, SumGrows
    <3> DEFINE a == SumOf(o, kept)
               b == SumOf(o, S)
               m == params.top_p * totalMass
    <3>9. a * Whole > m
      BY <2>6, <2>7, <3>5, <3>7
    <3>10. m \in Nat
      BY DEF m
    <3>11. a \in Nat /\ b \in Nat /\ a <= b
      BY <3>8
    <3> HIDE DEF a, b, m
    <3>12. Whole * a <= Whole * b /\ Whole * a = a * Whole /\ Whole * b = b * Whole
           /\ a * Whole \in Nat /\ b * Whole \in Nat
      BY <3>11, TimesGrows
    <3>13. b * Whole > m
      BY <3>9, <3>10, <3>12
    <3> QED
      BY <3>13 DEF ByTopP, b, m, S
  <2> QED
    BY <2>10, <2>11
<1> QED
  BY <1>1, <1>2

LEMMA MinPKeeps ==
  ASSUME Vocabulary \in Nat \ {0}, Whole \in Nat \ {0}, weights \in Weighs, NEW o \in Weighs,
         Left(o, weights), params.min_p \in Nat, params.min_p <= Whole, Sampled!apply_min_p
  PROVE  /\ Left(o, weights')
         /\ \A u \in Lost(o, weights') : u \in Lost(o, weights) \/ ByMinP(params, o, u)
<1> DEFINE L == {weights[u] : u \in 1..Vocabulary}
           m == params.min_p
<1>0. \A t \in 1..Vocabulary : weights[t] \in 0..8 /\ o[t] \in 0..8
  BY DEF Weighs
<1>1. PICK g \in 1..Vocabulary : weights[g] = 8
  BY DEF Left
<1>2. Sampled!Max(L) = 8
  <2>1. 8 \in L /\ \A y \in L : 8 >= y /\ y \in 0..8
    BY <1>0, <1>1
  <2>2. Sampled!Max(L) \in L /\ \A y \in L : Sampled!Max(L) >= y
    <3> HIDE DEF L
    <3> QED
      BY <2>1 DEF Sampled!Max
  <2>3. Sampled!Max(L) >= 8 /\ 8 >= Sampled!Max(L) /\ Sampled!Max(L) \in 0..8
    <3> HIDE DEF L
    <3> QED
      BY <2>1, <2>2
  <2> QED
    BY <2>3
<1>3. weights' = [t \in 1..Vocabulary |-> IF weights[t] * Whole >= m * 8 THEN weights[t] ELSE 0]
  BY <1>2 DEF Sampled!apply_min_p, Sampled!MinPKeeps, Sampled!Token
<1>4. m \in Nat /\ m <= Whole
  OBVIOUS
<1> HIDE DEF m
<1>5. \A t \in 1..Vocabulary :
        /\ weights[t] = 0 \/ weights[t] = o[t]
        /\ weights[t] * Whole >= m * 8 => weights'[t] = weights[t]
        /\ ~(weights[t] * Whole >= m * 8) => weights'[t] = 0
  BY <1>3 DEF Left
<1>6. Left(o, weights')
  <2>1. weights'[g] = 8
    <3>1. 8 * Whole >= m * 8
      BY <1>4
    <3> QED
      BY <1>1, <1>5, <3>1
  <2>2. ASSUME NEW x \in 1..Vocabulary, NEW y \in 1..Vocabulary, weights'[x] > 0, o[y] > o[x]
        PROVE  weights'[y] > 0
    <3>1. weights[x] * Whole >= m * 8 /\ weights[x] = o[x] /\ weights[x] > 0
      BY <1>5, <2>2
    <3>2. weights[y] > 0
      BY <2>2, <3>1 DEF Left
    <3>3. weights[y] = o[y] /\ weights[x] \in 0..8 /\ weights[y] \in 0..8
      BY <1>0, <1>5, <3>2
    <3> DEFINE a == weights[x]
               b == weights[y]
    <3>4. a \in Nat /\ b \in Nat /\ a <= b
      BY <2>2, <3>1, <3>3
    <3> HIDE DEF a, b
    <3>5. Whole * a <= Whole * b
      BY <3>4, TimesGrows
    <3>6. b * Whole >= m * 8
      BY <1>4, <3>1, <3>4, <3>5 DEF a
    <3> QED
      BY <1>5, <3>2, <3>6 DEF b
  <2>3. \A t \in 1..Vocabulary : weights'[t] = 0 \/ weights'[t] = o[t]
    BY <1>5
  <2> QED
    BY <2>1, <2>2, <2>3 DEF Left
<1>7. ASSUME NEW u \in Lost(o, weights'), u \notin Lost(o, weights)
      PROVE  ByMinP(params, o, u)
  <2>1. u \in 1..Vocabulary /\ o[u] > 0 /\ weights'[u] = 0 /\ weights[u] # 0
    BY <1>7 DEF Lost
  <2>2. weights[u] = o[u] /\ ~(weights[u] * Whole >= m * 8)
    BY <1>5, <2>1
  <2>3. o[u] * Whole < m * 8
    <3> DEFINE a == o[u]
    <3>1. a \in Nat /\ ~(a * Whole >= m * 8)
      BY <1>0, <2>1, <2>2
    <3> HIDE DEF a
    <3>2. a * Whole < m * 8
      BY <1>4, <3>1
    <3> QED
      BY <3>2 DEF a
  <2> QED
    BY <2>3 DEF ByMinP, m
<1> QED
  BY <1>6, <1>7

\* The greatest logit has the greatest weight.
LEMMA SoftmaxGreatest ==
  ASSUME Vocabulary \in Nat \ {0}, NEW l \in [1..Vocabulary -> Int]
  PROVE  \E t \in 1..Vocabulary : Sampled!Softmax(l)[t] = 8
<1> DEFINE L == {l[t] : t \in 1..Vocabulary}
<1>1. PICK t \in 1..Vocabulary : \A u \in 1..Vocabulary : l[u] <= l[t]
  BY GreatestLogit
<1>2. l[t] \in L /\ l[t] \in Int /\ \A y \in L : y \in Int /\ l[t] >= y
  BY <1>1
<1>3. Sampled!Max(L) = l[t]
  <2> DEFINE m == l[t]
  <2> HIDE DEF L, m
  <2>1. m \in L /\ m \in Int /\ \A y \in L : y \in Int /\ m >= y
    BY <1>2 DEF m
  <2>2. Sampled!Max(L) \in L /\ \A y \in L : Sampled!Max(L) >= y
    BY <2>1 DEF Sampled!Max
  <2>3. Sampled!Max(L) = m
    <3> DEFINE x == Sampled!Max(L)
    <3>1. x \in Int /\ m \in Int /\ m >= x /\ x >= m
      BY <2>1, <2>2
    <3> HIDE DEF x
    <3>2. x = m
      BY <3>1
    <3> QED
      BY <3>2 DEF x
  <2> QED
    BY <2>3 DEF m
<1>4. Sampled!Softmax(l)[t] = IF l[t] - l[t] > 3 THEN 0 ELSE 2^(3 - (l[t] - l[t]))
  BY <1>3 DEF Sampled!Softmax, Sampled!Token
<1>5. ~(l[t] - l[t] > 3) /\ 3 - (l[t] - l[t]) = 3
  BY <1>2
<1>6. 2^3 = 8
  OBVIOUS
<1>7. Sampled!Softmax(l)[t] = 8
  BY <1>4, <1>5, <1>6, Zenon
<1> QED
  BY <1>7

-----------------------------------------------------------------------------
Dropped(p, o, u, mass) == ByTopK(p, o, u) \/ ByTopP(p, o, u, mass) \/ ByMinP(p, o, u)

FilterHolds(o, w, here, p, mass) ==
  /\ here = "top_k" => w = o
  /\ here \in {"top_k", "top_p", "min_p"} \/ (here = "draw" /\ p.min_p <= Whole) =>
       Left(o, w) /\ \A u \in Lost(o, w) : Dropped(p, o, u, mass)

FilterInv == FilterHolds(Sampled!Softmax(logits), weights, samplerStage, params, totalMass)

LEMMA FilterInvNext ==
  ASSUME Sampled!SamplerAssumption, SamplerInv, FilterInv,
         [Sampled!SamplerNext]_(Sampled!samplerVars)
  PROVE  FilterInv'
<1> DEFINE o == Sampled!Softmax(logits)
<1>0. /\ Vocabulary \in Nat \ {0} /\ Whole \in Nat \ {0}
      /\ params.top_k \in Nat /\ params.top_p \in Nat /\ params.min_p \in Nat
      /\ totalMass \in Nat /\ weights \in Weighs /\ logits \in [1..Vocabulary -> Int]
  BY DEF SamplerInv, Sampled!SamplerTypeOK, Sampled!SamplerAssumption, Sampled!Params, Weighs,
         Sampled!Token, Sampled!Heaviest
<1>00. o \in Weighs
  BY <1>0, SoftmaxTyped DEF Weighs
<1>1. CASE Sampled!Penalise
  <2>1. samplerStage' \in {"greedy", "softmax"}
    BY <1>1 DEF Sampled!Penalise, Sampled!Goes
  <2> QED
    BY <2>1 DEF FilterInv, FilterHolds
<1>2. CASE Sampled!Greedy
  <2>1. samplerStage' = "done"
    BY <1>2 DEF Sampled!Greedy, Sampled!Goes
  <2> QED
    BY <2>1 DEF FilterInv, FilterHolds
<1>3. CASE Sampled!ToProbabilities
  <2>1. /\ samplerStage' = "top_k" /\ logits' = logits /\ weights' = o
    BY <1>3 DEF Sampled!ToProbabilities, Sampled!Goes
  <2>2. \E t \in 1..Vocabulary : o[t] = 8
    BY <1>0, SoftmaxGreatest
  <2> HIDE DEF o
  <2>3. Left(o, o) /\ Lost(o, o) = {}
    <3>1. \A t \in 1..Vocabulary : o[t] \in 0..8
      BY <1>00 DEF Weighs
    <3> QED
      BY <2>2, <3>1 DEF Left, Lost
  <2>4. FilterHolds(o, o, "top_k", params', totalMass')
    BY <2>3 DEF FilterHolds
  <2> QED
    BY <2>1, <2>4 DEF FilterInv, o
<1>4. CASE Sampled!apply_top_k
  <2>1. /\ samplerStage = "top_k" /\ samplerStage' = "top_p" /\ logits' = logits
        /\ params' = params /\ totalMass' = totalMass
    BY <1>4 DEF Sampled!apply_top_k, Sampled!Goes
  <2>2. weights = o /\ Left(o, weights)
    BY <2>1 DEF FilterInv, FilterHolds
  <2> HIDE DEF o
  <2>3. Left(o, weights') /\ \A u \in Lost(o, weights') : ByTopK(params, o, u)
    BY <1>0, <1>4, <2>2, TopKKeeps
  <2>4. FilterHolds(o, weights', "top_p", params, totalMass)
    BY <2>3 DEF FilterHolds, Dropped
  <2> QED
    BY <2>1, <2>4 DEF FilterInv, o
<1>5. CASE Sampled!apply_top_p
  <2>1. /\ samplerStage = "top_p" /\ samplerStage' = "min_p" /\ logits' = logits
        /\ params' = params /\ totalMass' = totalMass
    BY <1>5 DEF Sampled!apply_top_p, Sampled!Goes
  <2>2. Left(o, weights) /\ \A u \in Lost(o, weights) : Dropped(params, o, u, totalMass)
    BY <2>1 DEF FilterInv, FilterHolds
  <2> HIDE DEF o
  <2>3. /\ Left(o, weights')
        /\ \A u \in Lost(o, weights') : u \in Lost(o, weights) \/ ByTopP(params, o, u, totalMass)
    BY <1>0, <1>00, <1>5, <2>2, TopPKeeps
  <2>4. FilterHolds(o, weights', "min_p", params, totalMass)
    BY <2>2, <2>3 DEF FilterHolds, Dropped
  <2> QED
    BY <2>1, <2>4 DEF FilterInv, o
<1>6. CASE Sampled!apply_min_p
  <2>1. /\ samplerStage = "min_p" /\ samplerStage' = "draw" /\ logits' = logits
        /\ params' = params /\ totalMass' = totalMass
    BY <1>6 DEF Sampled!apply_min_p, Sampled!Goes
  <2>2. Left(o, weights) /\ \A u \in Lost(o, weights) : Dropped(params, o, u, totalMass)
    BY <2>1 DEF FilterInv, FilterHolds
  <2> HIDE DEF o
  <2>3. params.min_p <= Whole =>
          /\ Left(o, weights')
          /\ \A u \in Lost(o, weights') : u \in Lost(o, weights) \/ ByMinP(params, o, u)
    BY <1>0, <1>00, <1>6, <2>2, MinPKeeps
  <2>4. FilterHolds(o, weights', "draw", params, totalMass)
    BY <2>2, <2>3 DEF FilterHolds, Dropped
  <2> QED
    BY <2>1, <2>4 DEF FilterInv, o
<1>7. ASSUME NEW r \in 0..(Sampled!Heaviest * Vocabulary), Sampled!Sample(r) PROVE FilterInv'
  <2>1. samplerStage' = "done"
    BY <1>7 DEF Sampled!Sample, Sampled!Goes
  <2> QED
    BY <2>1 DEF FilterInv, FilterHolds
<1>8. CASE UNCHANGED Sampled!samplerVars
  BY <1>8 DEF FilterInv, Sampled!samplerVars
<1> QED
  BY <1>1, <1>2, <1>3, <1>4, <1>5, <1>6, <1>7, <1>8 DEF Sampled!SamplerNext

\* The three filters in a row behave as one, for any vocabulary and any parameters: what is
\* left is closed upwards in the probabilities before them, has a token of the greatest one,
\* and a token was dropped only for a reason that one of the filters has
\* (apply_top_k, apply_top_p, apply_min_p, inference/sampler.rs).
THEOREM CandidatesAlwaysSound ==
  Sampled!SamplerAssumption => (Sampled!SamplerSpec => []Sampled!CandidatesSound)
<1> SUFFICES ASSUME Sampled!SamplerAssumption
             PROVE  Sampled!SamplerSpec => []Sampled!CandidatesSound
  OBVIOUS
<1>1. Sampled!SamplerInit => FilterInv
  BY DEF Sampled!SamplerInit, FilterInv, FilterHolds
<1>2. SamplerInv /\ FilterInv => Sampled!CandidatesSound
  <2> SUFFICES ASSUME SamplerInv, FilterInv, samplerStage = "draw", params.min_p <= Whole
               PROVE  Sampled!CandidatesSound
    BY DEF Sampled!CandidatesSound
  <2> DEFINE o == Sampled!Softmax(logits)
             T == 1..Vocabulary
  <2>1. Left(o, weights) /\ \A u \in Lost(o, weights) : Dropped(params, o, u, totalMass)
    BY DEF FilterInv, FilterHolds
  <2>2. /\ Vocabulary \in Nat \ {0} /\ weights \in Weighs /\ o \in Weighs
    BY SoftmaxTyped DEF SamplerInv, Sampled!SamplerTypeOK, Sampled!SamplerAssumption, Weighs,
       Sampled!Token, Sampled!Heaviest
  <2>3. Sampled!Original = o /\ Sampled!Token = T /\ Sampled!Heaviest = 8
        /\ Sampled!Candidates = {t \in T : weights[t] > 0}
    BY DEF Sampled!Original, Sampled!Token, Sampled!Heaviest, Sampled!Candidates
  <2>4. \A t \in T : weights[t] \in 0..8 /\ o[t] \in 0..8 /\ (weights[t] = 0 \/ weights[t] = o[t])
    BY <2>1, <2>2 DEF Weighs, Left
  <2> HIDE DEF o, T
  <2>5. \E t \in Sampled!Candidates : o[t] = 8
    <3>1. PICK t \in T : weights[t] = 8
      BY <2>1 DEF Left, T
    <3>2. o[t] = 8
      BY <2>4, <3>1
    <3> QED
      BY <2>3, <3>1, <3>2
  <2>6. ASSUME NEW t \in Sampled!Candidates, NEW u \in T, o[u] > o[t]
        PROVE  u \in Sampled!Candidates
    <3>1. t \in T /\ weights[t] > 0
      BY <2>3
    <3>2. weights[u] > 0
      BY <2>1, <2>6, <3>1 DEF Left, T
    <3> QED
      BY <2>3, <3>2
  <2>7. ASSUME NEW u \in T \ Sampled!Candidates, o[u] > 0
        PROVE  \/ params.top_k > 0 /\ Sampled!Cardinality({t \in T : o[t] > o[u]}) >= params.top_k
               \/ Sampled!SumOver(o, {t \in T : o[t] >= o[u]} \ {u}) * Whole
                    > params.top_p * totalMass
               \/ o[u] * Whole < params.min_p * 8
    <3>1. weights[u] = 0
      BY <2>3, <2>4
    <3>2. u \in Lost(o, weights)
      BY <2>7, <3>1 DEF Lost, T
    <3>3. Dropped(params, o, u, totalMass)
      BY <2>1, <3>2
    <3>4. Sampled!Cardinality(MoreProbable(o, u)) = Cardinality(MoreProbable(o, u))
      BY <2>2, TokensCount DEF MoreProbable
    <3>5. Sampled!SumOver(o, AsProbable(o, u)) = SumOf(o, AsProbable(o, u))
      BY SumIsSumOf
    <3>6. MoreProbable(o, u) = {t \in T : o[t] > o[u]} /\ AsProbable(o, u) = {t \in T : o[t] >= o[u]} \ {u}
      BY DEF MoreProbable, AsProbable, T
    <3> QED
      BY <3>3, <3>4, <3>5, <3>6, Zenon DEF Dropped, ByTopK, ByTopP, ByMinP
  <2> QED
    BY <2>3, <2>5, <2>6, <2>7, Zenon DEF Sampled!CandidatesSound
<1>3. Sampled!SamplerInit => SamplerInv
  BY SamplerInvInit
<1> QED
  BY <1>1, <1>2, <1>3, SamplerInvNext, FilterInvNext, PTL DEF Sampled!SamplerSpec

-----------------------------------------------------------------------------
(***************************************************************************)
(* The grammar of JSON.  Along a document the tracker is outside of        *)
(* strings, in one, or after a backslash in one, at some depth.            *)
(***************************************************************************)
Chars == Grammar!Outside \cup {"other"}

Places == [at : {"outside", "string", "escape"}, depth : Int]

Out(d) == [at |-> "outside", depth |-> d]

\* The variables of the tracker at a place.
TrackerAt(x) ==
  [depth |-> x.depth, inString |-> x.at # "outside", escaped |-> x.at = "escape"]

\* The place one character further on.
Onward(x, c) ==
  IF x.at = "outside"
  THEN [at    |-> IF c = "quote" THEN "string" ELSE "outside",
        depth |-> IF c \in {"lbrace", "lbracket"} THEN x.depth + 1
                  ELSE IF c \in {"rbrace", "rbracket"} THEN x.depth - 1 ELSE x.depth]
  ELSE [at    |-> IF x.at = "escape" THEN "string"
                  ELSE IF c = "backslash" THEN "escape"
                  ELSE IF c = "quote" THEN "outside" ELSE "string",
        depth |-> x.depth]

LEMMA OnwardTracks ==
  ASSUME NEW x \in Places, NEW c
  PROVE  Onward(x, c) \in Places /\ Grammar!Tracked(TrackerAt(x), c) = TrackerAt(Onward(x, c))
<1>0. x = [at |-> x.at, depth |-> x.depth] /\ x.depth \in Int
  BY DEF Places
<1>1. Onward(x, c) \in Places
  BY DEF Onward, Places
<1>2. CASE x.at = "outside"
  BY <1>0, <1>1, <1>2 DEF Onward, TrackerAt, Grammar!Tracked, Grammar!Q, Grammar!B
<1>3. CASE x.at = "string"
  BY <1>0, <1>1, <1>3 DEF Onward, TrackerAt, Grammar!Tracked, Grammar!Q, Grammar!B
<1>4. CASE x.at = "escape"
  BY <1>0, <1>1, <1>4 DEF Onward, TrackerAt, Grammar!Tracked, Grammar!Q, Grammar!B
<1> QED
  BY <1>1, <1>2, <1>3, <1>4 DEF Places

\* The places along a text that comes back to its depth and never goes below it;
\* outside of strings it has no character that JSON has in strings only.
Walk(text, d, p) ==
  /\ text \in Seq(Chars)
  /\ p \in [0..Len(text) -> Places]
  /\ p[0] = Out(d) /\ p[Len(text)] = Out(d)
  /\ \A i \in 1..Len(text) : /\ p[i] = Onward(p[i - 1], text[i])
                             /\ p[i - 1].at = "outside" => text[i] \in Grammar!Outside
                             /\ p[i].depth >= d

Level(text) == \A d \in Int : \E p : Walk(text, d, p)

\* Of a value, everything between its ends is in a string or deeper.
Within(text, d, p) ==
  \A i \in 1..(Len(text) - 1) : p[i].at # "outside" \/ p[i].depth > d

Starts(text) == text[1] \in {"lbrace", "lbracket", "quote"}

Tight(text) ==
  /\ \A d \in Int : \E p : Walk(text, d, p) /\ Within(text, d, p)
  /\ Len(text) >= 1
  /\ \A i \in DOMAIN text : text[i] # "blank"
  /\ text = <<"word">> \/ Starts(text)

LEMMA TightIsLevel == ASSUME NEW text, Tight(text) PROVE Level(text)
  BY DEF Tight, Level

LEMMA JoinedWalk ==
  ASSUME NEW s, NEW u, NEW d \in Int, NEW p, NEW q, Walk(s, d, p), Walk(u, d, q)
  PROVE  \E r : Walk(s \o u, d, r)
<1> DEFINE n == Len(s)
           m == Len(u)
           c == s \o u
           r == [i \in 0..(n + m) |-> IF i <= n THEN p[i] ELSE q[i - n]]
<1>1. s \in Seq(Chars) /\ u \in Seq(Chars)
  BY DEF Walk
<1>2. /\ n \in Nat /\ m \in Nat /\ c \in Seq(Chars) /\ Len(c) = n + m
      /\ \A i \in 1..(n + m) : c[i] = IF i <= n THEN s[i] ELSE u[i - n]
  BY <1>1
<1>3. /\ p \in [0..n -> Places] /\ p[0] = Out(d) /\ p[n] = Out(d)
      /\ \A i \in 1..n : /\ p[i] = Onward(p[i - 1], s[i])
                         /\ p[i - 1].at = "outside" => s[i] \in Grammar!Outside
                         /\ p[i].depth >= d
  BY DEF Walk
<1>4. /\ q \in [0..m -> Places] /\ q[0] = Out(d) /\ q[m] = Out(d)
      /\ \A i \in 1..m : /\ q[i] = Onward(q[i - 1], u[i])
                         /\ q[i - 1].at = "outside" => u[i] \in Grammar!Outside
                         /\ q[i].depth >= d
  BY DEF Walk
<1> HIDE DEF n, m, c
<1>5. r \in [0..(n + m) -> Places]
  <2>1. ASSUME NEW i \in 0..(n + m) PROVE IF i <= n THEN i \in 0..n ELSE i - n \in 0..m
    BY <1>2
  <2> QED
    BY <1>3, <1>4, <2>1
<1>6. \A i \in 0..n : r[i] = p[i]
  BY <1>2
<1>7. \A i \in 0..m : r[i + n] = q[i]
  <2> SUFFICES ASSUME NEW i \in 0..m PROVE r[i + n] = q[i]
    OBVIOUS
  <2>1. i + n \in 0..(n + m) /\ (i + n) - n = i /\ (i + n <= n => i = 0 /\ i + n = n)
    BY <1>2
  <2> QED
    BY <1>3, <1>4, <2>1
<1> HIDE DEF r
<1>8. ASSUME NEW i \in 1..(n + m)
      PROVE  /\ r[i] = Onward(r[i - 1], c[i])
             /\ r[i - 1].at = "outside" => c[i] \in Grammar!Outside
             /\ r[i].depth >= d
  <2>1. CASE i <= n
    <3>1. i \in 1..n /\ i \in 0..n /\ i - 1 \in 0..n
      BY <1>2, <2>1
    <3>2. r[i] = p[i] /\ r[i - 1] = p[i - 1] /\ c[i] = s[i]
      BY <1>2, <1>6, <2>1, <3>1
    <3> QED
      BY <1>3, <3>1, <3>2
  <2>2. CASE ~(i <= n)
    <3> DEFINE j == i - n
    <3>1. j \in 1..m /\ j \in 0..m /\ j - 1 \in 0..m /\ j + n = i /\ (j - 1) + n = i - 1
      BY <1>2, <2>2
    <3>2. c[i] = u[j]
      BY <1>2, <2>2
    <3> HIDE DEF j
    <3>3. r[i] = q[j] /\ r[i - 1] = q[j - 1]
      BY <1>7, <3>1
    <3> QED
      BY <1>4, <3>1, <3>2, <3>3
  <2> QED
    BY <2>1, <2>2
<1>9. r[0] = Out(d) /\ r[n + m] = Out(d)
  <2>1. 0 \in 0..n /\ m \in 0..m /\ n + m = m + n
    BY <1>2
  <2> QED
    BY <1>3, <1>4, <1>6, <1>7, <2>1
<1>10. Walk(c, d, r)
  BY <1>2, <1>5, <1>8, <1>9 DEF Walk
<1> QED
  BY <1>10 DEF c

LEMMA JoinedLevel == ASSUME NEW s, NEW u, Level(s), Level(u) PROVE Level(s \o u)
<1> SUFFICES ASSUME NEW d \in Int PROVE \E r : Walk(s \o u, d, r)
  BY DEF Level
<1>1. PICK p : Walk(s, d, p)
  BY DEF Level
<1>2. PICK q : Walk(u, d, q)
  BY DEF Level
<1> QED
  BY <1>1, <1>2, JoinedWalk

\* A character that changes nothing.
LEMMA MarkIsLevel == ASSUME NEW c \in {"comma", "colon", "word", "blank"} PROVE Level(<<c>>)
<1> SUFFICES ASSUME NEW d \in Int PROVE \E p : Walk(<<c>>, d, p)
  BY DEF Level
<1> DEFINE p == [i \in 0..1 |-> Out(d)]
<1>1. c \in Grammar!Outside /\ <<c>> \in Seq(Chars) /\ Len(<<c>>) = 1 /\ <<c>>[1] = c
  BY DEF Chars, Grammar!Outside
<1>2. Out(d) \in Places /\ Onward(Out(d), c) = Out(d) /\ Out(d).depth = d
  BY DEF Out, Onward, Places
<1>3. p \in [0..1 -> Places] /\ \A i \in 0..1 : p[i] = Out(d)
  BY <1>2
<1> HIDE DEF p
<1>4. Walk(<<c>>, d, p)
  <2>1. \A i \in 1..1 : i = 1 /\ i \in 0..1 /\ i - 1 \in 0..1
    OBVIOUS
  <2> QED
    BY <1>1, <1>2, <1>3, <2>1 DEF Walk
<1> QED
  BY <1>4

LEMMA NothingIsLevel == Level(<<>>)
<1> SUFFICES ASSUME NEW d \in Int PROVE \E p : Walk(<<>>, d, p)
  BY DEF Level
<1> DEFINE p == [i \in 0..0 |-> Out(d)]
<1>1. <<>> \in Seq(Chars) /\ Len(<<>>) = 0
  OBVIOUS
<1>2. Out(d) \in Places
  BY DEF Out, Places
<1>3. p \in [0..0 -> Places] /\ p[0] = Out(d)
  BY <1>2
<1> HIDE DEF p
<1>4. Walk(<<>>, d, p)
  BY <1>1, <1>2, <1>3 DEF Walk
<1> QED
  BY <1>4

LEMMA OneMoreAtEnd ==
  ASSUME NEW T, NEW y \in Seq(T), NEW e \in T
  PROVE  /\ y \o <<e>> \in Seq(T) /\ Len(y \o <<e>>) = Len(y) + 1
         /\ (y \o <<e>>)[Len(y) + 1] = e
         /\ \A i \in 1..Len(y) : (y \o <<e>>)[i] = y[i]
  OBVIOUS

\* A text between two characters.
LEMMA EnclosedText ==
  ASSUME NEW x \in Seq(Chars), NEW o \in Chars, NEW e \in Chars
  PROVE  LET t == Grammar!Enclosed(o, x, e)
             n == Len(x)
         IN  /\ n \in Nat /\ t \in Seq(Chars) /\ Len(t) = n + 2
             /\ DOMAIN t = 1..(n + 2) /\ DOMAIN x = 1..n
             /\ t[1] = o /\ t[n + 2] = e
             /\ \A i \in 2..(n + 1) : t[i] = x[i - 1]
<1> DEFINE n == Len(x)
           y == <<o>> \o x
           t == Grammar!Enclosed(o, x, e)
<1>1. n \in Nat /\ <<o>> \o x \in Seq(Chars) /\ Len(<<o>> \o x) = n + 1 /\ DOMAIN x = 1..n
  OBVIOUS
<1>2. (<<o>> \o x)[1] = o /\ \A i \in 2..(n + 1) : (<<o>> \o x)[i] = x[i - 1]
  OBVIOUS
<1>3. t = y \o <<e>>
  BY DEF Grammar!Enclosed
<1> HIDE DEF y, t, n
<1>4. /\ Len(y \o <<e>>) = (n + 1) + 1 /\ y \o <<e>> \in Seq(Chars)
      /\ \A i \in 1..(n + 1) : (y \o <<e>>)[i] = y[i]
      /\ (y \o <<e>>)[(n + 1) + 1] = e
  <2>1. y \in Seq(Chars) /\ Len(y) = n + 1
    BY <1>1 DEF y
  <2> QED
    BY <2>1, OneMoreAtEnd
<1>5. y[1] = o /\ \A i \in 2..(n + 1) : y[i] = x[i - 1]
  BY <1>2 DEF y
<1>6. (n + 1) + 1 = n + 2 /\ DOMAIN t = 1..Len(t) /\ 1 \in 1..(n + 1) /\ \A i \in 2..(n + 1) : i \in 1..(n + 1)
  BY <1>1, <1>3, <1>4
<1>7. /\ n \in Nat /\ t \in Seq(Chars) /\ Len(t) = n + 2
      /\ DOMAIN t = 1..(n + 2) /\ DOMAIN x = 1..n
      /\ t[1] = o /\ t[n + 2] = e
      /\ \A i \in 2..(n + 1) : t[i] = x[i - 1]
  BY <1>1, <1>3, <1>4, <1>5, <1>6
<1> QED
  BY <1>7 DEF t, n

\* The walk along it, where the text itself is walked along at depth k.
AroundWalk(x, d, p) ==
  [i \in 0..(Len(x) + 2) |-> IF i = 0 \/ i = Len(x) + 2 THEN Out(d) ELSE p[i - 1]]

LEMMA WalkAround ==
  ASSUME NEW d \in Int, NEW k \in Int, k >= d, NEW x, NEW p, Walk(x, k, p),
         NEW o \in Grammar!Outside, NEW e \in Grammar!Outside,
         Onward(Out(d), o) = Out(k), Onward(Out(k), e) = Out(d)
  PROVE  /\ Walk(Grammar!Enclosed(o, x, e), d, AroundWalk(x, d, p))
         /\ \A i \in 1..(Len(x) + 1) : /\ AroundWalk(x, d, p)[i] = p[i - 1]
                                       /\ p[i - 1] \in Places /\ p[i - 1].depth >= k
<1> DEFINE t == Grammar!Enclosed(o, x, e)
           n == Len(x)
           r == AroundWalk(x, d, p)
<1>1. x \in Seq(Chars) /\ o \in Chars /\ e \in Chars
  BY DEF Walk, Chars
<1>2. /\ n \in Nat /\ t \in Seq(Chars) /\ Len(t) = n + 2 /\ DOMAIN t = 1..(n + 2) /\ DOMAIN x = 1..n
      /\ t[1] = o /\ t[n + 2] = e
      /\ \A i \in 2..(n + 1) : t[i] = x[i - 1]
  BY <1>1, EnclosedText
<1>3. /\ p \in [0..n -> Places] /\ p[0] = Out(k) /\ p[n] = Out(k)
      /\ \A i \in 1..n : /\ p[i] = Onward(p[i - 1], x[i])
                         /\ p[i - 1].at = "outside" => x[i] \in Grammar!Outside
                         /\ p[i].depth >= k
  BY DEF Walk
<1>4. r = [i \in 0..(n + 2) |-> IF i = 0 \/ i = n + 2 THEN Out(d) ELSE p[i - 1]]
  BY DEF AroundWalk
<1>5. /\ Out(d) \in Places /\ Out(d).depth = d /\ Out(k).depth = k /\ Out(d).at = "outside"
  BY DEF Out, Places
<1> HIDE DEF r, t, n
<1>6. ASSUME NEW i \in 1..(n + 1)
      PROVE  /\ i \in 0..(n + 2) /\ i - 1 \in 0..n /\ r[i] = p[i - 1]
             /\ p[i - 1] \in Places /\ p[i - 1].depth >= k
  <2>1. i \in 0..(n + 2) /\ i # 0 /\ i # n + 2 /\ i - 1 \in 0..n /\ (i - 1 = 0 \/ i - 1 \in 1..n)
    BY <1>2
  <2>2. k >= k
    OBVIOUS
  <2> QED
    BY <1>3, <1>4, <1>5, <2>1, <2>2
<1>7. r[0] = Out(d) /\ r[n + 2] = Out(d)
  BY <1>2, <1>4
<1>8. r \in [0..(n + 2) -> Places]
  <2>1. \A i \in 0..(n + 2) : i = 0 \/ i = n + 2 \/ i \in 1..(n + 1)
    BY <1>2
  <2> QED
    BY <1>4, <1>5, <1>6, <1>7, <2>1
<1>9. ASSUME NEW i \in 1..(n + 2)
      PROVE  /\ r[i] = Onward(r[i - 1], t[i])
             /\ r[i - 1].at = "outside" => t[i] \in Grammar!Outside
             /\ r[i].depth >= d
  <2>1. CASE i = 1
    <3>1. 1 \in 1..(n + 1) /\ 1 - 1 = 0
      BY <1>2
    <3>2. r[1] = Out(k) /\ r[0] = Out(d) /\ t[1] = o
      BY <1>2, <1>3, <1>6, <1>7, <3>1
    <3> QED
      BY <1>5, <2>1, <3>1, <3>2
  <2>2. CASE i = n + 2
    <3>1. n + 1 \in 1..(n + 1) /\ (n + 1) - 1 = n /\ i - 1 = n + 1
      BY <1>2, <2>2
    <3>2. r[n + 1] = Out(k)
      BY <1>3, <1>6, <3>1
    <3>3. r[i - 1] = Out(k) /\ r[i] = Out(d) /\ t[i] = e
      BY <1>2, <1>7, <2>2, <3>1, <3>2
    <3>4. d >= d
      OBVIOUS
    <3> QED
      BY <1>5, <3>3, <3>4
  <2>3. CASE i # 1 /\ i # n + 2
    <3>1. i \in 2..(n + 1) /\ i \in 1..(n + 1) /\ i - 1 \in 1..(n + 1) /\ i - 1 \in 1..n
      BY <1>2, <2>3
    <3> DEFINE j == i - 1
    <3>2. r[i] = p[j] /\ r[j] = p[j - 1] /\ t[i] = x[j] /\ j \in 1..n
      BY <1>2, <1>6, <3>1
    <3>3. p[j].depth \in Int /\ p[j].depth >= k
      BY <1>6, <3>1 DEF Places
    <3>4. p[j].depth >= d
      BY <3>3
    <3> QED
      BY <1>3, <3>2, <3>4
  <2> QED
    BY <2>1, <2>2, <2>3
<1>10. Walk(t, d, r)
  BY <1>2, <1>7, <1>8, <1>9 DEF Walk
<1> QED
  BY <1>6, <1>10 DEF r, t, n

NoBlanks(x) == \A i \in DOMAIN x : x[i] # "blank"

\* An array or an object of such a text, one level deeper.
LEMMA EnclosedIsTight ==
  ASSUME NEW o \in {"lbrace", "lbracket"}, NEW x, NEW e \in {"rbrace", "rbracket"},
         Level(x), NoBlanks(x)
  PROVE  Tight(Grammar!Enclosed(o, x, e))
<1> DEFINE t == Grammar!Enclosed(o, x, e)
           n == Len(x)
<1>1. x \in Seq(Chars)
  BY DEF Level, Walk
<1>2. o \in Grammar!Outside /\ e \in Grammar!Outside /\ o \in Chars /\ e \in Chars
  BY DEF Chars, Grammar!Outside
<1>3. /\ n \in Nat /\ t \in Seq(Chars) /\ Len(t) = n + 2 /\ DOMAIN t = 1..(n + 2) /\ DOMAIN x = 1..n
      /\ t[1] = o /\ t[n + 2] = e
      /\ \A i \in 2..(n + 1) : t[i] = x[i - 1]
  BY <1>1, <1>2, EnclosedText
<1> HIDE DEF t, n
<1>4. ASSUME NEW d \in Int PROVE \E p : Walk(t, d, p) /\ Within(t, d, p)
  <2>1. d + 1 \in Int /\ d + 1 >= d
    OBVIOUS
  <2>2. PICK p : Walk(x, d + 1, p)
    BY <2>1 DEF Level
  <2> DEFINE r == AroundWalk(x, d, p)
  <2>4. Onward(Out(d), o) = Out(d + 1) /\ Onward(Out(d + 1), e) = Out(d)
    BY DEF Out, Onward
  <2>5. /\ Walk(t, d, r)
        /\ \A i \in 1..(n + 1) : r[i] = p[i - 1] /\ p[i - 1] \in Places /\ p[i - 1].depth >= d + 1
    BY <1>2, <2>1, <2>2, <2>4, WalkAround DEF t, n
  <2> HIDE DEF r
  <2>6. Within(t, d, r)
    <3> SUFFICES ASSUME NEW i \in 1..(n + 1) PROVE r[i].depth > d
      BY <1>3 DEF Within
    <3>1. r[i].depth \in Int /\ r[i].depth >= d + 1
      BY <2>5 DEF Places
    <3> QED
      BY <3>1
  <2> QED
    BY <2>5, <2>6
<1>5. \A i \in DOMAIN t : t[i] # "blank"
  <2>1. ASSUME NEW i \in 1..(n + 2) PROVE i = 1 \/ i = n + 2 \/ (i \in 2..(n + 1) /\ i - 1 \in 1..n)
    BY <1>3
  <2> QED
    BY <1>3, <2>1 DEF NoBlanks
<1> QED
  BY <1>3, <1>4, <1>5 DEF Tight, Starts, t

\* A string with an escape after the positions in E.
LEMMA QuotedIsTight ==
  ASSUME NEW t \in Seq(Chars), NEW n, Len(t) = n, n >= 2, NEW E, 1 \notin E, n - 1 \notin E,
         t[1] = "quote", t[n] = "quote", NoBlanks(t),
         \A i \in 2..(n - 1) : IF i - 1 \in E THEN i \notin E
                               ELSE t[i] # "quote" /\ (i \in E <=> t[i] = "backslash")
  PROVE  Tight(t)
<1> SUFFICES ASSUME NEW d \in Int PROVE \E p : Walk(t, d, p) /\ Within(t, d, p)
  BY DEF Tight, Starts, NoBlanks
<1> DEFINE In(i) == [at |-> IF i \in E THEN "escape" ELSE "string", depth |-> d]
           r == [i \in 0..n |-> IF i = 0 \/ i = n THEN Out(d) ELSE In(i)]
<1>1. n \in Nat /\ DOMAIN t = 1..n /\ "quote" \in Grammar!Outside
  BY DEF Grammar!Outside, Grammar!Q
<1>2. /\ Out(d) \in Places /\ Out(d).depth = d /\ Out(d).at = "outside"
      /\ \A i : In(i) \in Places /\ In(i).depth = d /\ In(i).at # "outside"
  BY DEF Out, Places
<1>3. /\ r \in [0..n -> Places] /\ r[0] = Out(d) /\ r[n] = Out(d)
      /\ \A i \in 1..(n - 1) : r[i] = In(i)
  BY <1>1, <1>2
<1>4. ASSUME NEW i \in 1..n
      PROVE  /\ r[i] = Onward(r[i - 1], t[i])
             /\ r[i - 1].at = "outside" => t[i] \in Grammar!Outside
             /\ r[i].depth >= d
  <2> HIDE DEF r
  <2>1. CASE i = 1
    <3>1. r[1] = In(1) /\ r[0] = Out(d) /\ 1 - 1 = 0
      BY <1>1, <1>3
    <3>2. Onward(Out(d), "quote") = In(1)
      BY DEF Onward, Out
    <3> QED
      BY <1>1, <1>2, <2>1, <3>1, <3>2
  <2>2. CASE i = n
    <3>1. n - 1 \in 1..(n - 1) /\ r[n - 1] = In(n - 1)
      BY <1>1, <1>3
    <3>2. Onward(In(n - 1), "quote") = Out(d)
      BY DEF Onward, Out
    <3> QED
      BY <1>1, <1>2, <1>3, <2>2, <3>1, <3>2
  <2>3. CASE i # 1 /\ i # n
    <3>1. i \in 1..(n - 1) /\ i - 1 \in 1..(n - 1) /\ i \in 2..(n - 1)
      BY <1>1, <2>3
    <3>2. r[i] = In(i) /\ r[i - 1] = In(i - 1)
      BY <1>3, <3>1
    <3>3. IF i - 1 \in E THEN i \notin E ELSE t[i] # "quote" /\ (i \in E <=> t[i] = "backslash")
      BY <3>1
    <3>4. Onward(In(i - 1), t[i]) = In(i)
      BY <3>3 DEF Onward
    <3> QED
      BY <1>2, <3>2, <3>4
  <2> QED
    BY <2>1, <2>2, <2>3
<1>5. Walk(t, d, r)
  BY <1>1, <1>3, <1>4 DEF Walk
<1>6. Within(t, d, r)
  BY <1>2, <1>3 DEF Within
<1> QED
  BY <1>5, <1>6

LEMMA EmptyIsTight == Tight(<<"quote", "quote">>)
<1> DEFINE t == <<"quote", "quote">>
<1>1. "quote" \in Chars
  BY DEF Chars, Grammar!Outside, Grammar!Q
<1>2. t \in Seq(Chars) /\ Len(t) = 2 /\ t[1] = "quote" /\ t[2] = "quote" /\ DOMAIN t = 1..2
  BY <1>1
<1> HIDE DEF t
<1>3. NoBlanks(t)
  BY <1>2 DEF NoBlanks
<1>4. 2 >= 2 /\ 1 \notin {0} /\ 2 - 1 \notin {0} /\ \A i \in 2..(2 - 1) : FALSE
  OBVIOUS
<1>5. \A i \in 2..(2 - 1) : IF i - 1 \in {0} THEN i \notin {0}
                            ELSE t[i] # "quote" /\ (i \in {0} <=> t[i] = "backslash")
  BY <1>4
<1>6. Tight(t)
  BY <1>2, <1>3, <1>4, <1>5, QuotedIsTight
<1> QED
  BY <1>6 DEF t

LEMMA PlainIsTight ==
  ASSUME NEW c \in Chars, c \notin {"quote", "backslash", "blank"}
  PROVE  Tight(<<"quote", c, "quote">>)
<1> DEFINE t == <<"quote", c, "quote">>
<1>1. "quote" \in Chars
  BY DEF Chars, Grammar!Outside, Grammar!Q
<1>2. /\ t \in Seq(Chars) /\ Len(t) = 3 /\ t[1] = "quote" /\ t[2] = c /\ t[3] = "quote"
      /\ DOMAIN t = 1..3
  BY <1>1
<1> HIDE DEF t
<1>3. NoBlanks(t)
  BY <1>2 DEF NoBlanks
<1>4. 3 >= 2 /\ 1 \notin {0} /\ 3 - 1 \notin {0} /\ \A i \in 2..(3 - 1) : i = 2
  OBVIOUS
<1>5. \A i \in 2..(3 - 1) : IF i - 1 \in {0} THEN i \notin {0}
                            ELSE t[i] # "quote" /\ (i \in {0} <=> t[i] = "backslash")
  BY <1>2, <1>4
<1>6. Tight(t)
  BY <1>2, <1>3, <1>4, <1>5, QuotedIsTight
<1> QED
  BY <1>6 DEF t

LEMMA EscapedIsTight ==
  ASSUME NEW c \in {"quote", "backslash"}
  PROVE  Tight(<<"quote", "backslash", c, "quote">>)
<1> DEFINE t == <<"quote", "backslash", c, "quote">>
<1>1. "quote" \in Chars /\ "backslash" \in Chars /\ c \in Chars
  BY DEF Chars, Grammar!Outside, Grammar!Q, Grammar!B
<1>2. /\ t \in Seq(Chars) /\ Len(t) = 4 /\ t[1] = "quote" /\ t[2] = "backslash" /\ t[3] = c
      /\ t[4] = "quote" /\ DOMAIN t = 1..4
  BY <1>1
<1> HIDE DEF t
<1>3. NoBlanks(t)
  BY <1>2 DEF NoBlanks
<1>4. /\ 4 >= 2 /\ 1 \notin {2} /\ 4 - 1 \notin {2} /\ 2 - 1 = 1 /\ 3 - 1 = 2
      /\ \A i \in 2..(4 - 1) : i = 2 \/ i = 3
  OBVIOUS
<1>5. \A i \in 2..(4 - 1) : IF i - 1 \in {2} THEN i \notin {2}
                            ELSE t[i] # "quote" /\ (i \in {2} <=> t[i] = "backslash")
  BY <1>2, <1>4
<1>6. Tight(t)
  BY <1>2, <1>3, <1>4, <1>5, QuotedIsTight
<1> QED
  BY <1>6 DEF t

LEMMA StringsAreTight == ASSUME NEW s \in Grammar!Strings PROVE Tight(s)
<1>1. "lbrace" \in Chars /\ "other" \in Chars
  BY DEF Chars, Grammar!Outside
<1>2. /\ Tight(<<"quote", "quote">>)
      /\ Tight(<<"quote", "lbrace", "quote">>) /\ Tight(<<"quote", "other", "quote">>)
      /\ Tight(<<"quote", "backslash", "quote", "quote">>)
      /\ Tight(<<"quote", "backslash", "backslash", "quote">>)
  BY <1>1, EmptyIsTight, PlainIsTight, EscapedIsTight
<1>3. s \in {<<"quote", "quote">>, <<"quote", "lbrace", "quote">>, <<"quote", "other", "quote">>,
             <<"quote", "backslash", "quote", "quote">>,
             <<"quote", "backslash", "backslash", "quote">>}
  BY DEF Grammar!Strings, Grammar!Q, Grammar!B
<1> QED
  BY Zenon, <1>2, <1>3

LEMMA WordIsTight == Tight(<<"word">>)
<1> DEFINE t == <<"word">>
<1>1. t \in Seq(Chars) /\ Len(t) = 1 /\ t[1] = "word" /\ DOMAIN t = 1..1
  BY DEF Chars, Grammar!Outside
<1>2. Level(t)
  BY MarkIsLevel
<1>3. \A p, d : Within(t, d, p)
  BY <1>1 DEF Within
<1> QED
  BY <1>1, <1>2, <1>3 DEF Tight, Level

\* Texts without blanks that come back to their depth, one after the other.
LEMMA JoinedSolid ==
  ASSUME NEW s, NEW u, Level(s), Level(u), NoBlanks(s), NoBlanks(u)
  PROVE  Level(s \o u) /\ NoBlanks(s \o u)
<1>1. s \in Seq(Chars) /\ u \in Seq(Chars)
  BY DEF Level, Walk
<1> DEFINE n == Len(s)
           m == Len(u)
           c == s \o u
<1>2. /\ n \in Nat /\ m \in Nat /\ DOMAIN s = 1..n /\ DOMAIN u = 1..m /\ DOMAIN c = 1..(n + m)
      /\ \A i \in 1..(n + m) : c[i] = IF i <= n THEN s[i] ELSE u[i - n]
  BY <1>1
<1> HIDE DEF n, m, c
<1>3. \A i \in 1..(n + m) : IF i <= n THEN i \in 1..n ELSE i - n \in 1..m
  BY <1>2
<1>4. NoBlanks(c)
  BY <1>2, <1>3 DEF NoBlanks
<1> QED
  BY <1>4, JoinedLevel DEF c

Solid(x) == Level(x) /\ NoBlanks(x)

LEMMA AroundIsTight ==
  ASSUME NEW V, \A v \in V : Tight(v), NEW x \in Grammar!Around(V)
  PROVE  Tight(x)
<1>1. \A v : Tight(v) => Solid(v)
  BY TightIsLevel DEF Solid, Tight, NoBlanks
<1>2. \A s, u : Solid(s) /\ Solid(u) => Solid(s \o u)
  BY JoinedSolid DEF Solid
<1>3. Solid(<<>>)
  BY NothingIsLevel DEF Solid, NoBlanks
<1>4. \A c \in {"comma", "colon"} : Solid(<<c>>)
  <2> SUFFICES ASSUME NEW c \in {"comma", "colon"} PROVE Solid(<<c>>)
    OBVIOUS
  <2>1. NoBlanks(<<c>>)
    <3>1. DOMAIN <<c>> = 1..1 /\ <<c>>[1] = c /\ c # "blank"
      OBVIOUS
    <3> QED
      BY <3>1 DEF NoBlanks
  <2> QED
    BY <2>1, MarkIsLevel DEF Solid
<1>5. \A y : Solid(y) => /\ Tight(Grammar!Enclosed("lbracket", y, "rbracket"))
                         /\ Tight(Grammar!Enclosed("lbrace", y, "rbrace"))
  BY EnclosedIsTight DEF Solid
<1>6. \A s \in Grammar!Strings : Solid(s)
  BY <1>1, StringsAreTight
<1>7. \A v \in V : Solid(v)
  BY <1>1
<1> HIDE DEF Solid
<1>8. CASE x \in {Grammar!Enclosed("lbracket", <<>>, "rbracket"), Grammar!Enclosed("lbrace", <<>>, "rbrace")}
  BY Zenon, <1>3, <1>5, <1>8
<1>9. CASE x \in {Grammar!Enclosed("lbracket", v, "rbracket") : v \in V}
  BY Zenon, <1>5, <1>7, <1>9
<1>10. CASE x \in {Grammar!Enclosed("lbracket", v \o <<"comma">> \o s, "rbracket") : v \in V, s \in Grammar!Strings}
  <2>1. PICK v \in V, s \in Grammar!Strings : x = Grammar!Enclosed("lbracket", v \o <<"comma">> \o s, "rbracket")
    BY <1>10
  <2>2. Solid(v \o <<"comma">> \o s)
    BY Zenon, <1>2, <1>4, <1>6, <1>7
  <2> QED
    BY Zenon, <1>5, <2>1, <2>2
<1>11. CASE x \in {Grammar!Enclosed("lbrace", s \o <<"colon">> \o v, "rbrace") : v \in V, s \in Grammar!Strings}
  <2>1. PICK v \in V, s \in Grammar!Strings : x = Grammar!Enclosed("lbrace", s \o <<"colon">> \o v, "rbrace")
    BY <1>11
  <2>2. Solid(s \o <<"colon">> \o v)
    BY Zenon, <1>2, <1>4, <1>6, <1>7
  <2> QED
    BY Zenon, <1>5, <2>1, <2>2
<1> QED
  BY <1>8, <1>9, <1>10, <1>11 DEF Grammar!Around

-----------------------------------------------------------------------------
\* t[n] are the values up to nesting n.
Nested(t) ==
  t = [n \in 0..Nesting |->
         IF n = 0 THEN Grammar!Strings \cup {<<"word">>} ELSE t[n - 1] \cup Grammar!Around(t[n - 1])]

LEMMA NestedExist == ASSUME Nesting \in Nat PROVE \E t : Nested(t)
<1> DEFINE Next(t) == [n \in 0..Nesting |->
              IF n = 0 THEN Grammar!Strings \cup {<<"word">>} ELSE t[n - 1] \cup Grammar!Around(t[n - 1])]
           Filled(t, n) == t = [k \in 0..Nesting |-> t[k]] /\
                         \A k \in 0..Nesting : k <= n => t[k] = Next(t)[k]
           A == {n \in Nat : \E t : Filled(t, n)}
<1>1. 0 \in A
  <2> DEFINE first == [k \in 0..Nesting |-> Grammar!Strings \cup {<<"word">>}]
  <2>1. Filled(first, 0)
    OBVIOUS
  <2> HIDE DEF Filled
  <2> QED
    BY <2>1
<1>2. ASSUME NEW n \in Nat, n \in A PROVE n + 1 \in A
  <2>1. PICK t : Filled(t, n)
    BY <1>2
  <2>2. Filled(Next(t), n + 1)
    <3>1. ASSUME NEW k \in 0..Nesting, k <= n + 1, k # 0 PROVE Next(t)[k - 1] = t[k - 1]
      <4>1. k - 1 \in 0..Nesting /\ k - 1 <= n
        BY <3>1
      <4> HIDE DEF Next
      <4> QED
        BY <2>1, <4>1
    <3> SUFFICES ASSUME NEW k \in 0..Nesting, k <= n + 1 PROVE Next(t)[k] = Next(Next(t))[k]
      OBVIOUS
    <3> QED
      BY <3>1
  <2> HIDE DEF Filled, Next
  <2> QED
    BY <2>2
<1>3. Nat \subseteq A
  <2> HIDE DEF A
  <2> QED
    BY <1>1, <1>2, EveryNat
<1>4. PICK t : Filled(t, Nesting)
  BY <1>3
<1>5. t = [k \in 0..Nesting |-> t[k]] /\ \A k \in 0..Nesting : t[k] = Next(t)[k]
  BY <1>4
<1>6. Next(t) = [k \in 0..Nesting |-> Next(t)[k]]
  OBVIOUS
<1> HIDE DEF Next
<1>7. t = Next(t)
  BY <1>5, <1>6
<1> QED
  BY <1>7 DEF Nested, Next

LEMMA ValuesAreTight ==
  ASSUME Nesting \in Nat, NEW v \in Grammar!Values[Nesting] PROVE Tight(v)
<1> DEFINE t == CHOOSE it : Nested(it)
           A == {n \in Nat : n <= Nesting => \A x \in t[n] : Tight(x)}
<1>1. Grammar!Values = t
  BY Zenon DEF Grammar!Values, Nested
<1>2. Nested(t)
  BY NestedExist
<1> HIDE DEF t
<1>3. 0 \in A
  <2>1. t[0] = Grammar!Strings \cup {<<"word">>}
    BY <1>2 DEF Nested
  <2>2. \A x \in t[0] : Tight(x)
    BY Zenon, <2>1, StringsAreTight, WordIsTight
  <2> QED
    BY <2>2
<1>4. ASSUME NEW n \in Nat, n \in A PROVE n + 1 \in A
  <2> SUFFICES ASSUME n + 1 <= Nesting PROVE \A x \in t[n + 1] : Tight(x)
    OBVIOUS
  <2>1. n + 1 \in 0..Nesting /\ n + 1 # 0 /\ (n + 1) - 1 = n /\ \A x \in t[n] : Tight(x)
    BY <1>4
  <2> HIDE DEF A
  <2>2. t[n + 1] = t[n] \cup Grammar!Around(t[n])
    BY <1>2, <2>1 DEF Nested
  <2> QED
    BY Zenon, <2>1, <2>2, AroundIsTight
<1>5. Nat \subseteq A
  <2> HIDE DEF A
  <2> QED
    BY <1>3, <1>4, EveryNat
<1> QED
  BY <1>1, <1>5

-----------------------------------------------------------------------------
\* A document has a value of length m behind a blanks and before as many.
Stands(doc, a, m, p) ==
  /\ Walk(doc, 0, p)
  /\ a \in Nat /\ m \in Nat /\ m >= 1 /\ Len(doc) = a + m + a
  /\ \A i \in 1..Len(doc) : doc[i] = "blank" <=> i <= a \/ i > a + m
  /\ doc[a + 1] \in {"lbrace", "lbracket", "quote"}
  /\ \A i \in (a + 1)..(a + m - 1) : p[i].at # "outside" \/ p[i].depth > 0
  /\ \A i \in (a + m)..Len(doc) : p[i] = Out(0)

LEMMA DocumentStands ==
  ASSUME Nesting \in Nat, NEW doc \in Grammar!Documents
  PROVE  \E a, m, p : Stands(doc, a, m, p)
<1>1. PICK v \in Grammar!Values[Nesting] \ {<<"word">>}, space \in {<<>>, <<"blank">>} :
        doc = space \o v \o space
  BY DEF Grammar!Documents
<1>2. Tight(v) /\ Starts(v)
  BY <1>1, ValuesAreTight DEF Tight
<1>3. PICK q : Walk(v, 0, q) /\ Within(v, 0, q)
  BY <1>2 DEF Tight
<1> DEFINE m == Len(v)
<1>4. /\ v \in Seq(Chars) /\ m \in Nat /\ m >= 1 /\ DOMAIN v = 1..m
      /\ \A i \in 1..m : v[i] # "blank"
      /\ v[1] \in {"lbrace", "lbracket", "quote"}
  <2>1. v \in Seq(Chars)
    BY <1>3 DEF Walk
  <2>2. DOMAIN v = 1..Len(v) /\ Len(v) \in Nat
    BY <2>1
  <2> QED
    BY <1>2, <2>1, <2>2 DEF Tight, Starts
<1>5. q[0] = Out(0) /\ q[m] = Out(0) /\ \A i \in 1..(m - 1) : q[i].at # "outside" \/ q[i].depth > 0
  BY <1>3 DEF Walk, Within
<1>6. CASE space = <<>>
  <2>1. doc = v
    BY <1>1, <1>4, <1>6
  <2>2. Len(doc) = m /\ doc[1] = v[1] /\ \A i \in 1..m : doc[i] = v[i]
    BY <2>1
  <2> HIDE DEF m
  <2>3. Stands(doc, 0, m, q)
    <3>1. m = 0 + m + 0 /\ 0 + 1 = 1 /\ 0 + m = m /\ 0 + m - 1 = m - 1 /\ 0 \in Nat
      BY <1>4
    <3>2. \A i \in 1..m : ~(i <= 0) /\ ~(i > 0 + m)
      BY <1>4
    <3>3. \A i \in (0 + m)..m : i = m
      BY <1>4
    <3>4. Walk(doc, 0, q)
      BY <1>3, <2>1
    <3> QED
      BY <1>4, <1>5, <2>2, <3>1, <3>2, <3>3, <3>4 DEF Stands
  <2> QED
    BY <2>3
<1>7. CASE space = <<"blank">>
  <2> DEFINE r == AroundWalk(v, 0, q)
  <2>1. doc = Grammar!Enclosed("blank", v, "blank")
    BY <1>1, <1>7 DEF Grammar!Enclosed
  <2>2. "blank" \in Grammar!Outside /\ "blank" \in Chars
    BY DEF Grammar!Outside, Chars
  <2>3. /\ Len(doc) = m + 2 /\ doc[1] = "blank" /\ doc[m + 2] = "blank"
        /\ \A i \in 2..(m + 1) : doc[i] = v[i - 1]
    <3> DEFINE t == Grammar!Enclosed("blank", v, "blank")
    <3>1. /\ Len(t) = Len(v) + 2 /\ t[1] = "blank" /\ t[Len(v) + 2] = "blank"
          /\ \A i \in 2..(Len(v) + 1) : t[i] = v[i - 1]
      <4>1. v \in Seq(Chars)
        BY <1>4
      <4> HIDE DEF m
      <4> QED
        BY <2>2, <4>1, EnclosedText
    <3> QED
      BY <2>1, <3>1
  <2>4. Onward(Out(0), "blank") = Out(0) /\ 0 \in Int /\ 0 >= 0
    BY DEF Onward, Out
  <2>5. Walk(doc, 0, r) /\ \A i \in 1..(m + 1) : r[i] = q[i - 1]
    BY <1>3, <2>1, <2>2, <2>4, WalkAround
  <2> HIDE DEF m, r
  <2>6. r[m + 2] = Out(0)
    BY <2>3, <2>5 DEF Walk
  <2>7. /\ m + 2 = 1 + m + 1 /\ 1 + 1 = 2 /\ 1 + m = m + 1 /\ 1 + m - 1 = m /\ 1 \in Nat
    BY <1>4
  <2>8. \A i \in 1..(m + 2) : doc[i] = "blank" <=> i <= 1 \/ i > 1 + m
    <3>1. \A i \in 1..(m + 2) : i = 1 \/ i = m + 2 \/ (i \in 2..(m + 1) /\ i - 1 \in 1..m)
      BY <1>4
    <3> QED
      BY <1>4, <2>3, <3>1
  <2>9. \A i \in 2..m : r[i].at # "outside" \/ r[i].depth > 0
    <3>1. \A i \in 2..m : i \in 1..(m + 1) /\ i - 1 \in 1..(m - 1)
      BY <1>4
    <3> QED
      BY <1>5, <2>5, <3>1
  <2>10. \A i \in (1 + m)..(m + 2) : r[i] = Out(0)
    <3>1. \A i \in (1 + m)..(m + 2) : i = m + 1 \/ i = m + 2
      BY <1>4
    <3>2. m + 1 \in 1..(m + 1) /\ (m + 1) - 1 = m
      BY <1>4
    <3> QED
      BY <1>5, <2>5, <2>6, <3>1, <3>2
  <2>11. doc[1 + 1] \in {"lbrace", "lbracket", "quote"}
    <3>1. 2 \in 2..(m + 1) /\ 2 - 1 = 1
      BY <1>4
    <3> QED
      BY <1>4, <2>3, <3>1
  <2>12. Stands(doc, 1, m, r)
    BY <1>4, <2>3, <2>5, <2>7, <2>8, <2>9, <2>10, <2>11 DEF Stands
  <2> QED
    BY <2>12
<1> QED
  BY <1>6, <1>7

-----------------------------------------------------------------------------
\* The tracker follows the places of the document, however it is cut into tokens.
RunTable(s, text, t) ==
  t = [i \in 0..Len(text) |-> IF i = 0 THEN s ELSE Grammar!Tracked(t[i - 1], text[i])]

LEMMA RunFollows ==
  ASSUME NEW doc, NEW p, Walk(doc, 0, p), NEW n \in Nat, NEW k \in Nat, n + k <= Len(doc),
         NEW text, Len(text) = k, \A i \in 1..k : text[i] = doc[n + i]
  PROVE  Grammar!Run(TrackerAt(p[n]), text)[k] = TrackerAt(p[n + k])
<1> DEFINE s == TrackerAt(p[n])
           w == [i \in 0..k |-> TrackerAt(p[n + i])]
           t == CHOOSE it : RunTable(s, text, it)
           A == {i \in Nat : i <= k => t[i] = TrackerAt(p[n + i])}
           N == Len(doc)
<1>1. /\ N \in Nat /\ p \in [0..N -> Places]
      /\ \A i \in 1..N : p[i] = Onward(p[i - 1], doc[i])
  <2>1. doc \in Seq(Chars)
    BY DEF Walk
  <2> QED
    BY <2>1 DEF Walk
<1>2. ASSUME NEW i \in 1..k
      PROVE  TrackerAt(p[n + i]) = Grammar!Tracked(TrackerAt(p[n + (i - 1)]), text[i])
  <2>1. n + i \in 1..N /\ (n + i) - 1 = n + (i - 1) /\ n + (i - 1) \in 0..N
    BY <1>1
  <2> HIDE DEF N
  <2>2. p[n + i] = Onward(p[n + (i - 1)], text[i]) /\ p[n + (i - 1)] \in Places
    BY <1>1, <2>1
  <2> QED
    BY <2>2, OnwardTracks
<1>3. RunTable(s, text, w)
  <2>1. ASSUME NEW i \in 0..k, i # 0 PROVE w[i] = Grammar!Tracked(w[i - 1], text[i])
    <3>1. i \in 1..k /\ i - 1 \in 0..k
      BY <2>1
    <3>2. w[i] = TrackerAt(p[n + i]) /\ w[i - 1] = TrackerAt(p[n + (i - 1)])
      BY <3>1
    <3> HIDE DEF w
    <3> QED
      BY <1>2, <3>1, <3>2
  <2>2. w[0] = s
    <3>1. n + 0 = n /\ 0 \in 0..k
      OBVIOUS
    <3> QED
      BY <3>1
  <2>3. w = [i \in 0..k |-> w[i]]
    OBVIOUS
  <2> HIDE DEF w, s
  <2> QED
    BY <2>1, <2>2, <2>3 DEF RunTable
<1> HIDE DEF w
<1>4. RunTable(s, text, t)
  BY <1>3
<1>5. Grammar!Run(s, text) = t
  BY Zenon DEF Grammar!Run, RunTable
<1> HIDE DEF t, s
<1>6. 0 \in A
  <2>1. t[0] = s /\ n + 0 = n
    BY <1>4 DEF RunTable
  <2> QED
    BY <2>1 DEF s
<1>7. ASSUME NEW i \in Nat, i \in A PROVE i + 1 \in A
  <2> SUFFICES ASSUME i + 1 <= k PROVE t[i + 1] = TrackerAt(p[n + (i + 1)])
    OBVIOUS
  <2>1. i + 1 \in 0..k /\ i + 1 # 0 /\ (i + 1) - 1 = i /\ i + 1 \in 1..k /\ t[i] = TrackerAt(p[n + i])
    BY <1>7
  <2> HIDE DEF A
  <2>2. t[i + 1] = Grammar!Tracked(t[i], text[i + 1])
    BY <1>4, <2>1 DEF RunTable
  <2> QED
    BY <1>2, <2>1, <2>2
<1>8. Nat \subseteq A
  <2> HIDE DEF A
  <2> QED
    BY <1>6, <1>7, EveryNat
<1> QED
  BY <1>5, <1>8 DEF s

\* So much of the document is written, and the tracker is where that ends.
GrInv ==
  /\ Nesting \in Nat /\ MaxToken \in Nat
  /\ document \in Grammar!Documents
  /\ Len(outputSoFar) \in 0..Len(document)
  /\ outputSoFar = SubSeq(document, 1, Len(outputSoFar))
  /\ \A a, m, p : Stands(document, a, m, p) =>
       Grammar!Tracker = TrackerAt(p[Len(outputSoFar)])

LEMMA DocumentText ==
  ASSUME GrInv PROVE document \in Seq(Chars) /\ Len(document) \in Nat
<1>1. PICK a, m, p : Stands(document, a, m, p)
  BY DocumentStands DEF GrInv
<1>2. document \in Seq(Chars)
  BY <1>1 DEF Stands, Walk
<1> QED
  BY <1>2

LEMMA GrInvInit == Grammar!GrammarAssumption /\ Grammar!GrammarInit => GrInv
<1> SUFFICES ASSUME Grammar!GrammarAssumption, Grammar!GrammarInit PROVE GrInv
  OBVIOUS
<1>1. /\ Nesting \in Nat /\ MaxToken \in Nat /\ document \in Grammar!Documents
      /\ outputSoFar = <<>> /\ depth = 0 /\ inString = FALSE /\ escaped = FALSE
  BY DEF Grammar!GrammarAssumption, Grammar!GrammarInit
<1>2. PICK a, m, p : Stands(document, a, m, p)
  BY <1>1, DocumentStands
<1>3. document \in Seq(Chars) /\ Len(document) \in Nat
  <2>1. document \in Seq(Chars)
    BY <1>2 DEF Stands, Walk
  <2> QED
    BY <2>1
<1>4. Len(outputSoFar) = 0 /\ outputSoFar = SubSeq(document, 1, 0) /\ 0 \in 0..Len(document)
  BY <1>1, <1>3
<1>5. Grammar!Tracker = TrackerAt(Out(0))
  BY <1>1 DEF Grammar!Tracker, TrackerAt, Out
<1>6. ASSUME NEW b, NEW l, NEW q, Stands(document, b, l, q) PROVE q[0] = Out(0)
  BY <1>6 DEF Stands, Walk
<1> QED
  BY <1>1, <1>4, <1>5, <1>6 DEF GrInv

\* What a token is made of.
LEMMA TokenOf ==
  ASSUME GrInv, NEW piece \in Grammar!NextTokens
  PROVE  LET n == Len(outputSoFar)
             k == Len(piece)
         IN  /\ n \in Nat /\ k \in Nat /\ k >= 1 /\ n + k <= Len(document)
             /\ piece \in Seq(Chars) /\ DOMAIN piece = 1..k
             /\ \A i \in 1..k : piece[i] = document[n + i]
<1> DEFINE n == Len(outputSoFar)
           N == Len(document)
           rest == SubSeq(document, n + 1, N)
<1>1. document \in Seq(Chars) /\ N \in Nat /\ n \in 0..N
  BY DocumentText DEF GrInv
<1>2. PICK k \in {j \in 1..MaxToken : j <= Len(Grammar!Rest)} : piece = SubSeq(Grammar!Rest, 1, k)
  BY DEF Grammar!NextTokens
<1>3. Grammar!Rest = rest
  BY DEF Grammar!Rest
<1> HIDE DEF n, N
<1>4. /\ rest \in Seq(Chars) /\ Len(rest) = N - n
      /\ \A i \in 1..(N - n) : rest[i] = document[n + i]
  <2>1. n + 1 \in Int /\ n + 1 >= 1
    BY <1>1
  <2>2. rest \in Seq(Chars)
    BY <1>1, <2>1 DEF N
  <2>3. Len(rest) = N - n
    BY <1>1, <2>1 DEF N
  <2>4. ASSUME NEW i \in 1..(N - n) PROVE rest[i] = document[n + i]
    <3>1. (n + 1) + i - 1 = n + i
      BY <1>1
    <3>2. rest[i] = document[(n + 1) + i - 1]
      BY <1>1, <2>1 DEF N
    <3> QED
      BY <3>1, <3>2
  <2> QED
    BY <2>2, <2>3, <2>4
<1> HIDE DEF rest
<1>5. MaxToken \in Nat /\ k \in Nat /\ k >= 1 /\ k <= N - n
  BY <1>1, <1>2, <1>3, <1>4 DEF GrInv
<1>6. /\ piece \in Seq(Chars) /\ Len(piece) = k /\ DOMAIN piece = 1..k
      /\ \A i \in 1..k : piece[i] = rest[i]
  BY <1>2, <1>3, <1>4, <1>5
<1>7. n + k <= N /\ \A i \in 1..k : i \in 1..(N - n)
  BY <1>1, <1>5
<1>8. \A i \in 1..k : piece[i] = document[n + i]
  BY <1>4, <1>6, <1>7
<1> QED
  BY <1>1, <1>5, <1>6, <1>7, <1>8 DEF n, N

LEMMA GrInvNext == GrInv /\ [Grammar!GrammarNext]_(Grammar!grammarVars) => GrInv'
<1> SUFFICES ASSUME GrInv, [Grammar!GrammarNext]_(Grammar!grammarVars) PROVE GrInv'
  OBVIOUS
<1>1. CASE UNCHANGED Grammar!grammarVars
  BY <1>1 DEF GrInv, Grammar!grammarVars, Grammar!Tracker
<1>2. CASE Grammar!GrammarNext
  <2> DEFINE n == Len(outputSoFar)
             N == Len(document)
  <2>1. PICK piece \in Grammar!NextTokens :
          /\ outputSoFar' = outputSoFar \o piece
          /\ LET s == Grammar!Run(Grammar!Tracker, piece)[Len(piece)]
             IN  depth' = s.depth /\ inString' = s.inString /\ escaped' = s.escaped
          /\ UNCHANGED document
    BY <1>2 DEF Grammar!GrammarNext, Grammar!advance
  <2> DEFINE k == Len(piece)
  <2>2. /\ n \in Nat /\ k \in Nat /\ k >= 1 /\ n + k <= N
        /\ piece \in Seq(Chars) /\ DOMAIN piece = 1..k
        /\ \A i \in 1..k : piece[i] = document[n + i]
    BY TokenOf
  <2>3. document \in Seq(Chars) /\ N \in Nat /\ outputSoFar = SubSeq(document, 1, n) /\ n \in 0..N
    BY DocumentText DEF GrInv
  <2>4. outputSoFar' = SubSeq(document, 1, n + k) /\ Len(outputSoFar') = n + k
    <3>1. outputSoFar \in Seq(Chars) /\ \A i \in 1..n : outputSoFar[i] = document[i]
      BY <2>3
    <3> DEFINE o == outputSoFar \o piece
               z == SubSeq(document, 1, n + k)
    <3>2. o \in Seq(Chars) /\ Len(o) = n + k
      BY <2>2, <3>1
    <3>3. \A i \in 1..(n + k) : o[i] = IF i <= n THEN outputSoFar[i] ELSE piece[i - n]
      BY <2>2, <3>1
    <3>4. n + k \in Nat /\ n + k <= N
      BY <2>2
    <3>5. z \in Seq(Chars) /\ Len(z) = n + k /\ \A i \in 1..(n + k) : z[i] = document[i]
      BY <2>3, <3>4
    <3> HIDE DEF o, z, n, k
    <3>6. ASSUME NEW i \in 1..(n + k) PROVE o[i] = z[i]
      <4>1. CASE i <= n
        <5>1. i \in 1..n
          BY <2>2, <4>1
        <5> QED
          BY <3>1, <3>3, <3>5, <4>1, <5>1
      <4>2. CASE ~(i <= n)
        <5>1. i - n \in 1..k /\ n + (i - n) = i
          BY <2>2, <4>2
        <5> QED
          BY <2>2, <3>3, <3>5, <4>2, <5>1
      <4> QED
        BY <4>1, <4>2
    <3>7. o = z
      BY <3>2, <3>5, <3>6
    <3>8. outputSoFar' = o
      BY <2>1 DEF o
    <3> QED
      BY <3>2, <3>7, <3>8 DEF z
  <2>5. ASSUME NEW a, NEW m, NEW p, Stands(document, a, m, p)
        PROVE  Grammar!Tracker' = TrackerAt(p[n + k])
    <3>1. Grammar!Tracker = TrackerAt(p[n])
      BY <2>5 DEF GrInv
    <3>2. Walk(document, 0, p)
      BY <2>5 DEF Stands
    <3>3. /\ n \in Nat /\ k \in Nat /\ n + k <= Len(document) /\ Len(piece) = k
          /\ \A i \in 1..k : piece[i] = document[n + i]
      BY <2>2
    <3> HIDE DEF n, k
    <3>4. Grammar!Run(TrackerAt(p[n]), piece)[k] = TrackerAt(p[n + k])
      BY ONLY <3>2, <3>3, RunFollows, SMTT(60)
    <3>5. Grammar!Run(Grammar!Tracker, piece)[k] = TrackerAt(p[n + k])
      BY <3>1, <3>4
    <3> QED
      BY <2>1, <3>5 DEF Grammar!Tracker, TrackerAt, k
  <2>6. Len(outputSoFar') \in 0..Len(document')
    BY <2>1, <2>2, <2>3, <2>4
  <2> HIDE DEF n, k
  <2> QED
    BY <2>1, <2>4, <2>5, <2>6 DEF GrInv
<1> QED
  BY <1>1, <1>2 DEF Grammar!GrammarNext

LEMMA FirstOfText ==
  ASSUME NEW s, NEW k \in Nat, DOMAIN s = 1..k, NEW c \in 1..k, s[c] # "blank",
         \A j \in 1..(c - 1) : s[j] = "blank"
  PROVE  Grammar!FirstOf(s) = s[c]
<1> DEFINE First(i) == s[i] # "blank" /\ \A j \in 1..(i - 1) : s[j] = "blank"
           it == CHOOSE i \in DOMAIN s : First(i)
<1>1. ASSUME NEW i \in 1..k, First(i) PROVE i = c
  <2>1. CASE i < c
    <3>1. i \in 1..(c - 1)
      BY <2>1
    <3> QED
      BY <1>1, <3>1
  <2>2. CASE c < i
    <3>1. c \in 1..(i - 1)
      BY <2>2
    <3> QED
      BY <1>1, <3>1
  <2> QED
    BY <2>1, <2>2
<1>2. First(c)
  OBVIOUS
<1> HIDE DEF First
<1>3. it = c
  BY <1>1, <1>2
<1> QED
  BY <1>3 DEF Grammar!FirstOf, First

LEMMA GrInvSound == GrInv => Grammar!GrammarTypeOK /\ Grammar!GrammarSound
<1> SUFFICES ASSUME GrInv PROVE Grammar!GrammarTypeOK /\ Grammar!GrammarSound
  OBVIOUS
<1> DEFINE n == Len(outputSoFar)
           N == Len(document)
<1>1. PICK a, m, p : Stands(document, a, m, p)
  BY DocumentStands DEF GrInv
<1>2. /\ document \in Seq(Chars) /\ N \in Nat /\ n \in 0..N /\ DOMAIN document = 1..N
      /\ outputSoFar = SubSeq(document, 1, n)
  BY DocumentText DEF GrInv
<1>3. /\ a \in Nat /\ m \in Nat /\ m >= 1 /\ N = a + m + a
      /\ \A i \in 1..N : document[i] = "blank" <=> i <= a \/ i > a + m
      /\ document[a + 1] \in {"lbrace", "lbracket", "quote"}
      /\ \A i \in (a + 1)..(a + m - 1) : p[i].at # "outside" \/ p[i].depth > 0
      /\ \A i \in (a + m)..N : p[i] = Out(0)
  BY <1>1 DEF Stands
<1>4. /\ p \in [0..N -> Places] /\ p[0] = Out(0)
      /\ \A i \in 1..N : p[i - 1].at = "outside" => document[i] \in Grammar!Outside
  BY <1>1 DEF Stands, Walk
<1>5. Grammar!Tracker = TrackerAt(p[n])
  BY <1>1 DEF GrInv
<1> HIDE DEF n, N
<1>6. p[n] \in Places
  BY <1>2, <1>4
<1>7. /\ depth = p[n].depth /\ (inString <=> p[n].at # "outside") /\ (escaped <=> p[n].at = "escape")
      /\ inString \in BOOLEAN /\ escaped \in BOOLEAN
  <2>1. /\ [depth |-> depth, inString |-> inString, escaped |-> escaped].depth = depth
        /\ [depth |-> depth, inString |-> inString, escaped |-> escaped].inString = inString
        /\ [depth |-> depth, inString |-> inString, escaped |-> escaped].escaped = escaped
    BY Zenon
  <2>2. /\ TrackerAt(p[n]).depth = p[n].depth
        /\ TrackerAt(p[n]).inString = (p[n].at # "outside")
        /\ TrackerAt(p[n]).escaped = (p[n].at = "escape")
    BY DEF TrackerAt
  <2>3. depth = p[n].depth /\ inString = (p[n].at # "outside") /\ escaped = (p[n].at = "escape")
    BY Zenon, <1>5, <2>1, <2>2 DEF Grammar!Tracker
  <2> QED
    BY Zenon, <2>3
<1>8. depth \in Int
  BY <1>6, <1>7 DEF Places
<1>9. Grammar!GrammarTypeOK
  BY <1>2, <1>7, <1>8 DEF Grammar!GrammarTypeOK, Chars, n
<1>10. Grammar!Blank(outputSoFar) <=> n <= a
  <2>1. DOMAIN outputSoFar = 1..n /\ \A i \in 1..n : outputSoFar[i] = document[i]
    BY <1>2
  <2>2. CASE n <= a
    <3>0. n \in Int /\ N \in Int /\ a \in Int /\ n <= N
      BY <1>2, <1>3
    <3>1. \A i \in 1..n : i \in 1..N /\ i <= a
      BY <2>2, <3>0
    <3> QED
      BY <1>3, <2>1, <2>2, <3>1 DEF Grammar!Blank
  <2>3. CASE ~(n <= a)
    <3>1. a + 1 \in 1..n /\ a + 1 \in 1..N /\ ~(a + 1 <= a) /\ ~(a + 1 > a + m)
      BY <1>2, <1>3, <2>3
    <3> QED
      BY <1>3, <2>1, <2>3, <3>1 DEF Grammar!Blank
  <2> QED
    BY <2>2, <2>3
<1>11. Grammar!Blank(Grammar!Rest) <=> n >= a + m
  <2> DEFINE rest == SubSeq(document, n + 1, N)
  <2>1. Grammar!Rest = rest
    BY DEF Grammar!Rest, n, N
  <2>2. DOMAIN rest = 1..(N - n) /\ \A i \in 1..(N - n) : rest[i] = document[n + i]
    <3>1. n + 1 \in Int /\ n + 1 >= 1
      BY <1>2
    <3>2. DOMAIN rest = 1..(N - n)
      BY <1>2, <3>1 DEF N
    <3>3. ASSUME NEW i \in 1..(N - n) PROVE rest[i] = document[n + i]
      <4>1. (n + 1) + i - 1 = n + i
        BY <1>2
      <4>2. rest[i] = document[(n + 1) + i - 1]
        BY <1>2, <3>1 DEF N
      <4> QED
        BY <4>1, <4>2
    <3> QED
      BY <3>2, <3>3
  <2> HIDE DEF rest
  <2>3. CASE n >= a + m
    <3>0. n \in Int /\ N \in Int /\ a \in Int /\ m \in Int
      BY <1>2, <1>3
    <3>1. \A i \in 1..(N - n) : n + i \in 1..N /\ n + i > a + m
      BY <1>2, <2>3, <3>0
    <3> QED
      BY <1>3, <2>1, <2>2, <2>3, <3>1 DEF Grammar!Blank
  <2>4. CASE ~(n >= a + m)
    <3>1. /\ a + m - n \in 1..(N - n) /\ n + (a + m - n) = a + m /\ a + m \in 1..N
          /\ ~(a + m <= a) /\ ~(a + m > a + m)
      <4>0. n \in Int /\ N \in Int /\ a \in Int /\ m \in Int /\ n <= N
        BY <1>2, <1>3
      <4>1. a >= 0 /\ m >= 1 /\ a + m <= N /\ n >= 0
        BY <1>2, <1>3
      <4> QED
        BY <2>4, <4>0, <4>1
    <3> QED
      BY <1>3, <2>1, <2>2, <2>4, <3>1 DEF Grammar!Blank
  <2> QED
    BY <2>3, <2>4
<1>12. Grammar!CompleteWhenWhole
  <2>1. CASE n <= a
    BY <1>10, <2>1 DEF Grammar!CompleteWhenWhole, Grammar!is_complete
  <2>2. CASE n > a /\ n < a + m
    <3>1. n \in (a + 1)..(a + m - 1)
      BY <1>2, <1>3, <2>2
    <3>2. p[n].at # "outside" \/ p[n].depth > 0
      BY <1>3, <3>1
    <3>3. ~(n >= a + m) /\ (inString \/ depth # 0)
      BY <1>2, <1>3, <1>7, <1>8, <2>2, <3>2
    <3> QED
      BY <1>11, <3>3 DEF Grammar!CompleteWhenWhole, Grammar!is_complete
  <2>3. CASE n >= a + m
    <3>1. n \in (a + m)..N /\ ~(n <= a)
      BY <1>2, <1>3, <2>3
    <3>2. ~inString /\ depth = 0
      BY <1>3, <1>7, <3>1 DEF Out
    <3> QED
      BY <1>10, <1>11, <2>3, <3>1, <3>2 DEF Grammar!CompleteWhenWhole, Grammar!is_complete
  <2> QED
    BY <1>2, <1>3, <2>1, <2>2, <2>3
<1>13. Grammar!NeverStuck
  <2> SUFFICES ASSUME NEW piece \in Grammar!NextTokens, ~inString, ~Grammar!Blank(piece)
               PROVE  \/ IF Grammar!Blank(outputSoFar)
                         THEN Grammar!FirstOf(piece) \in {"lbrace", "lbracket", "quote"}
                         ELSE Grammar!ToSet(piece) \subseteq Grammar!Outside
                      \/ Len(piece) > 1 /\ ~inString /\ "other" \in Grammar!ToSet(piece)
    BY DEF Grammar!NeverStuck, Grammar!is_token_allowed, Grammar!Q
  <2> DEFINE k == Len(piece)
  <2>1. /\ k \in Nat /\ k >= 1 /\ n + k <= N
        /\ piece \in Seq(Chars) /\ DOMAIN piece = 1..k
        /\ \A i \in 1..k : piece[i] = document[n + i]
    BY TokenOf DEF n, N
  <2> HIDE DEF k
  <2>2. CASE n <= a
    <3> DEFINE c == a + 1 - n
    <3>1. PICK i \in 1..k : piece[i] # "blank"
      BY <2>1 DEF Grammar!Blank
    <3>2. n + i \in 1..N /\ document[n + i] # "blank"
      BY <1>2, <2>1, <3>1
    <3>3. ~(n + i <= a)
      BY <1>3, <3>2
    <3>4. c \in 1..k /\ n + c = a + 1 /\ \A j \in 1..(c - 1) : j \in 1..k /\ n + j \in 1..N /\ n + j <= a
      BY <1>2, <1>3, <2>1, <2>2, <3>3, SMTT(30)
    <3> HIDE DEF c
    <3>5. piece[c] \in {"lbrace", "lbracket", "quote"} /\ piece[c] # "blank"
      BY <1>3, <2>1, <3>4
    <3>6. \A j \in 1..(c - 1) : piece[j] = "blank"
      BY <1>3, <2>1, <3>4
    <3>7. Grammar!FirstOf(piece) = piece[c]
      BY <2>1, <3>4, <3>5, <3>6, FirstOfText
    <3> QED
      BY <1>10, <2>2, <3>5, <3>7
  <2>3. CASE ~(n <= a)
    <3>1. Grammar!ToSet(piece) = {piece[i] : i \in 1..k}
      BY <2>1 DEF Grammar!ToSet
    <3> SUFFICES ASSUME NEW i \in 1..k, piece[i] \notin Grammar!Outside
                 PROVE  k > 1 /\ "other" \in Grammar!ToSet(piece)
      BY <1>10, <2>3, <3>1 DEF k
    <3>2. piece[i] = "other"
      BY <2>1 DEF Chars
    <3>3. i # 1
      <4>1. 1 \in 1..k /\ n + 1 \in 1..N /\ (n + 1) - 1 = n
        BY <1>2, <2>1
      <4>2. piece[1] = document[n + 1] /\ document[n + 1] \in Grammar!Outside
        BY <1>4, <1>7, <2>1, <4>1
      <4> QED
        BY <4>2
    <3>4. k > 1
      BY <2>1, <3>3
    <3> QED
      BY <3>1, <3>2, <3>4
  <2> QED
    BY <2>2, <2>3
<1> QED
  BY <1>9, <1>12, <1>13 DEF Grammar!GrammarSound

\* Every document of JSON can be written to its end and is taken for complete exactly
\* when all of it is there (GrammarState in its JSON modes).
THEOREM DocumentsAlwaysWritten ==
  Grammar!GrammarAssumption =>
    (Grammar!GrammarSpec => [](Grammar!GrammarTypeOK /\ Grammar!GrammarSound))
<1> SUFFICES ASSUME Grammar!GrammarAssumption
             PROVE  Grammar!GrammarSpec => [](Grammar!GrammarTypeOK /\ Grammar!GrammarSound)
  OBVIOUS
<1>1. Grammar!GrammarInit => GrInv
  BY GrInvInit
<1> QED
  BY <1>1, GrInvNext, GrInvSound, PTL DEF Grammar!GrammarSpec

-----------------------------------------------------------------------------
(***************************************************************************)
(* The types of every part.  Most are conjuncts of the invariants above;   *)
(* what follows completes them.                                            *)
(***************************************************************************)
LEMMA ProxyTypeInit == ProxyAssumption /\ ProxyInit => ProxyTypeOK
  BY DEF ProxyAssumption, ProxyInit, ProxyTypeOK

LEMMA ProxyTypeNext ==
  ASSUME PInv, ProxyTypeOK, [ProxyNext]_proxyVars
  PROVE  ProxyTypeOK'
<1>1. PTyped'
  BY PInvNext DEF PInv
<1>2. /\ ProxyAssumption /\ endpoint \in {"absent", "enabled", "disabled"}
      /\ backoff \in [Calls -> Nat]
  BY DEF PInv, PTyped, ProxyTypeOK
<1>3. endpoint' \in {"absent", "enabled", "disabled"} /\ backoff' \in [Calls -> Nat]
  <2>1. CASE AddEndpoint \/ RemoveEndpoint \/ SetEnabled
    BY <1>2, <2>1 DEF AddEndpoint, RemoveEndpoint, SetEnabled
  <2>2. ASSUME NEW c \in Calls, ForwardRequest(c) \/ Send(c) \/ ReceiveAnswer(c) \/ GiveUp(c)
        PROVE  endpoint' = endpoint /\ backoff' = backoff
    BY <2>2 DEF ForwardRequest, Send, ReceiveAnswer, GiveUp
  <2>3. ASSUME NEW c \in Calls, PauseEnds(c)
        PROVE  endpoint' = endpoint /\ backoff' \in [Calls -> Nat]
    BY <1>2, <2>3 DEF PauseEnds, Lesser, ProxyAssumption
  <2>4. CASE Execute \/ Lose \/ UNCHANGED proxyVars
    BY <1>2, <2>4 DEF Execute, Lose, proxyVars
  <2> QED
    BY <1>2, <2>1, <2>2, <2>3, <2>4 DEF ProxyNext, CallStep
<1> QED
  BY <1>1, <1>3 DEF PTyped, Stages, ProxyTypeOK

LEMMA WidgetTypeInit == WidgetInit => WidgetTypeOK
<1> SUFFICES ASSUME WidgetInit PROVE WidgetTypeOK
  OBVIOUS
<1>1. connected \in BOOLEAN
  BY Zenon DEF WidgetInit
<1>2. /\ session \in [Sessions -> {"none", "active", "expired"}] /\ pending \in Seq(Sessions)
      /\ handling \in [Handlers -> Sessions \cup {Nobody}] /\ revived \subseteq Active
  BY DEF WidgetInit
<1> QED
  BY <1>1, <1>2, Zenon DEF WidgetTypeOK

LEMMA WidgetTypeNext ==
  ASSUME WInv, WidgetTypeOK, [WidgetNext]_widgetVars
  PROVE  WidgetTypeOK'
<1>1. /\ session' \in [Sessions -> {"none", "active", "expired"}]
      /\ revived' \subseteq Active'
  BY WInvNext DEF WInv
<1>2. /\ connected \in BOOLEAN /\ pending \in Seq(Sessions)
      /\ handling \in [Handlers -> Sessions \cup {Nobody}]
  BY DEF WidgetTypeOK
<1>3. connected' \in BOOLEAN
  <2>1. connected' \in {TRUE, FALSE, connected}
    BY DEF WidgetNext, Connect, Disconnect, ReceiveMessages, EvictExpired, RegisterSession,
           RemoveSession, Expires, TouchSession, QueueMessage, widgetVars
  <2> QED
    BY <1>2, <2>1
<1>4. pending' \in Seq(Sessions) /\ handling' \in [Handlers -> Sessions \cup {Nobody}]
  <2>1. ASSUME Connect \/ Disconnect \/ ReceiveMessages \/ EvictExpired \/ UNCHANGED widgetVars
        PROVE  pending' \in {<<>>, pending} /\ handling' = handling
    BY <2>1, Zenon DEF Connect, Disconnect, ReceiveMessages, EvictExpired, widgetVars
  <2>2. ASSUME NEW s \in Sessions, RegisterSession(s) \/ RemoveSession(s) \/ Expires(s)
        PROVE  pending' = pending /\ handling' = handling
    BY <2>2 DEF RegisterSession, RemoveSession, Expires
  <2>3. ASSUME NEW s \in Sessions, NEW h \in Handlers, TouchSession(h, s)
        PROVE  pending' = pending /\ handling' \in [Handlers -> Sessions \cup {Nobody}]
    BY <1>2, <2>3 DEF TouchSession
  <2>4. ASSUME NEW h \in Handlers, QueueMessage(h)
        PROVE  pending' \in Seq(Sessions) /\ handling' \in [Handlers -> Sessions \cup {Nobody}]
    BY <1>2, <2>4 DEF QueueMessage
  <2>5. pending \in Seq(Sessions) /\ <<>> \in Seq(Sessions)
    BY <1>2
  <2> QED
    BY <1>2, <2>1, <2>2, <2>3, <2>4, <2>5, Zenon DEF WidgetNext
<1> QED
  BY <1>1, <1>3, <1>4 DEF WidgetTypeOK

\* A request is counted for one of the variants, so that neither exceeds the
\* bound on all of them.
RouterTypes ==
  /\ Router!RouterTypeOK
  /\ routed["A"] + routed["B"] = requestCount

LEMMA RouterTypesInit ==
  ASSUME Router!RouterAssumption, Router!RouterInit PROVE RouterTypes
<1>1. /\ MaxRequests \in Nat /\ percentageA \in Shares /\ enabled \in BOOLEAN
      /\ requestCount = 0
      /\ routed = [v \in {"A", "B"} |-> 0] /\ metrics = [v \in {"A", "B"} |-> <<>>]
      /\ verdict \in {"A", "B"} \cup {"none", ""}
  BY Zenon DEF Router!RouterAssumption, Router!RouterInit, Router!Variants
<1>2. /\ MaxRequests \in Nat /\ requestCount = 0
      /\ routed = [v \in {"A", "B"} |-> 0] /\ metrics = [v \in {"A", "B"} |-> <<>>]
  BY <1>1, Zenon
<1>3. /\ requestCount \in 0..MaxRequests /\ routed["A"] + routed["B"] = requestCount
      /\ routed \in [{"A", "B"} -> 0..MaxRequests]
      /\ metrics \in [{"A", "B"} -> Seq(Speeds)]
  BY ONLY <1>2
<1> QED
  BY <1>1, <1>3, Zenon DEF RouterTypes, Router!RouterTypeOK, Router!Variants

LEMMA RouterTypesNext ==
  ASSUME Router!RouterAssumption, RouterTypes, [Router!RouterNext]_(Router!routerVars)
  PROVE  RouterTypes'
<1> DEFINE Counted == /\ requestCount \in 0..MaxRequests
                      /\ routed \in [{"A", "B"} -> 0..MaxRequests]
                      /\ routed["A"] + routed["B"] = requestCount
           Named == enabled \in BOOLEAN /\ verdict \in {"A", "B"} \cup {"none", ""}
           Measured == metrics \in [{"A", "B"} -> Seq(Speeds)]
<1>0. MaxRequests \in Nat
  BY DEF Router!RouterAssumption
<1>1. RouterTypes <=> percentageA \in Shares /\ Counted /\ Named /\ Measured
  BY Zenon DEF RouterTypes, Router!RouterTypeOK, Router!Variants
<1>2. RouterTypes' <=> percentageA' \in Shares /\ Counted' /\ Named' /\ Measured'
  BY Zenon DEF RouterTypes, Router!RouterTypeOK, Router!Variants
<1> HIDE DEF Named
<1>3. percentageA' = percentageA
  BY Zenon DEF Router!RouterNext, Router!Route, Router!RecordMetric, Router!Rollback,
     Router!routerVars
<1>4. Counted'
  <2>1. CASE Router!Route
    <3>1. PICK v \in {"A", "B"} : routed' = [routed EXCEPT ![v] = routed[v] + 1]
      BY <2>1 DEF Router!Route, Router!VariantOf
    <3>2. requestCount' = requestCount + 1 /\ requestCount < MaxRequests
      BY <2>1, Zenon DEF Router!Route
    <3>3. routed["A"] \in 0..MaxRequests /\ routed["B"] \in 0..MaxRequests
      BY <1>1
    <3>4. /\ routed' \in [{"A", "B"} -> Nat]
          /\ routed'["A"] + routed'["B"] = requestCount'
      <4>1. routed' \in [{"A", "B"} -> Nat]
        BY <1>0, <1>1, <3>1
      <4>2. CASE v = "A"
        <5>1. routed'["A"] = routed["A"] + 1 /\ routed'["B"] = routed["B"]
          BY <1>1, <3>1, <4>2
        <5> QED
          BY <1>0, <1>1, <3>2, <3>3, <4>1, <5>1
      <4>3. CASE v = "B"
        <5>1. routed'["B"] = routed["B"] + 1 /\ routed'["A"] = routed["A"]
          BY <1>1, <3>1, <4>3
        <5> QED
          BY <1>0, <1>1, <3>2, <3>3, <4>1, <5>1
      <4> QED
        BY <4>2, <4>3
    <3>5. routed'["A"] \in 0..MaxRequests /\ routed'["B"] \in 0..MaxRequests
          /\ requestCount' \in 0..MaxRequests
      BY <1>0, <1>1, <3>2, <3>4
    <3> QED
      BY <3>4, <3>5
  <2>2. ASSUME \/ \E v \in {"A", "B"}, s \in Speeds : Router!RecordMetric(v, s)
               \/ Router!Rollback \/ UNCHANGED Router!routerVars
        PROVE  requestCount' = requestCount /\ routed' = routed
    BY <2>2, Zenon DEF Router!RecordMetric, Router!Rollback, Router!routerVars
  <2> QED
    BY <1>1, <2>1, <2>2, Zenon DEF Router!RouterNext, Router!Variants
<1>5. Named'
  <2>1. CASE Router!Rollback
    BY <2>1, Zenon DEF Router!Rollback, Router!Better, Named
  <2>2. ASSUME \/ \E v \in {"A", "B"}, s \in Speeds : Router!RecordMetric(v, s)
               \/ Router!Route \/ UNCHANGED Router!routerVars
        PROVE  enabled' = enabled /\ verdict' = verdict
    BY <2>2, Zenon DEF Router!RecordMetric, Router!Route, Router!routerVars
  <2> QED
    BY <1>1, <2>1, <2>2, Zenon DEF Router!RouterNext, Router!Variants, Named
<1>6. Measured'
  <2>1. ASSUME NEW v \in {"A", "B"}, NEW s \in Speeds, Router!RecordMetric(v, s)
        PROVE  Measured'
    <3>1. metrics' = [metrics EXCEPT ![v] = Append(@, s)]
      BY <2>1, Zenon DEF Router!RecordMetric
    <3> QED
      BY <1>1, <3>1
  <2>2. ASSUME Router!Route \/ Router!Rollback \/ UNCHANGED Router!routerVars
        PROVE  metrics' = metrics
    BY <2>2, Zenon DEF Router!Rollback, Router!Route, Router!routerVars
  <2> QED
    BY <1>1, <2>1, <2>2, Zenon DEF Router!RouterNext, Router!Variants
<1> HIDE DEF Counted, Measured
<1> QED
  BY <1>1, <1>2, <1>3, <1>4, <1>5, <1>6

-----------------------------------------------------------------------------
(***************************************************************************)
(* The resource manager.  Every operation takes a model out of the order   *)
(* before it puts it in again, so that the order names each registered     *)
(* model once; and a thread has a victim left when it drops one.           *)
(***************************************************************************)
RegistryOK == registry \in [Models -> Entry \cup {Absent}]

OrderOK ==
  /\ accessOrder \in Seq(Models)
  /\ InSeq(accessOrder) = Registered
  /\ Once(accessOrder)

Phases == {"none", "snapshot", "check", "drop"}

EnforceOK ==
  /\ enforce \in [Callers -> [phase : Phases, victims : Seq(Models)]]
  /\ \A c \in Callers : enforce[c].phase = "drop" => enforce[c].victims # <<>>

MonitorOK == monitor \in [up : BOOLEAN, commands : Seq({"OptimizeMemory", "Shutdown"})]

RMInv == RegistryOK /\ OrderOK /\ EnforceOK /\ MonitorOK

LEMMA RMInvTypes == RMInv => RMTypeOK
<1> SUFFICES ASSUME RMInv PROVE RMTypeOK
  OBVIOUS
<1>1. Len(accessOrder) = Cardinality(InSeq(accessOrder))
  BY OnceCounts DEF RMInv, OrderOK
<1>2. Len(accessOrder) = Cardinality(Registered)
  BY <1>1 DEF RMInv, OrderOK
<1> QED
  BY <1>2, Zenon DEF RMInv, RegistryOK, OrderOK, EnforceOK, MonitorOK, RMTypeOK, InSeq, Phases

LEMMA KeepAtKeeps == \A q, K : KeepAt(q, K) = KeptAt(q, K)
  BY DEF KeepAt, KeptAt

\* What is left of the order without a model, and the model at its end.
LEMMA OrderWithout ==
  ASSUME OrderOK, NEW m \in Models
  PROVE  /\ Without(accessOrder, m) \in Seq(Models)
         /\ InSeq(Without(accessOrder, m)) = Registered \ {m}
         /\ Once(Without(accessOrder, m))
         /\ Append(Without(accessOrder, m), m) \in Seq(Models)
         /\ InSeq(Append(Without(accessOrder, m), m)) = Registered \cup {m}
         /\ Once(Append(Without(accessOrder, m), m))
<1> DEFINE K == {i \in DOMAIN accessOrder : accessOrder[i] # m}
           q == Without(accessOrder, m)
<1>1. q = KeptAt(accessOrder, K)
  BY KeepAtKeeps DEF Without
<1>2. /\ accessOrder \in Seq(Models) /\ InSeq(accessOrder) = Registered /\ Once(accessOrder)
  BY DEF OrderOK
<1> HIDE DEF q
<1>3. q \in Seq(Models) /\ InSeq(q) = {accessOrder[i] : i \in K \cap DOMAIN accessOrder} /\ Once(q)
  BY <1>1, <1>2, KeptAtSeq, KeptAtElements
<1>4. {accessOrder[i] : i \in K \cap DOMAIN accessOrder} = InSeq(accessOrder) \ {m}
  BY DEF InSeq
<1>5. InSeq(q) = Registered \ {m} /\ m \notin InSeq(q)
  BY <1>2, <1>3, <1>4
<1>6. /\ Append(q, m) \in Seq(Models) /\ InSeq(Append(q, m)) = InSeq(q) \cup {m}
      /\ Once(Append(q, m))
  BY <1>3, <1>5, AppendedElements
<1>7. InSeq(Append(q, m)) = Registered \cup {m}
  BY <1>5, <1>6
<1> QED
  BY <1>3, <1>5, <1>6, <1>7 DEF q

\* An operation on one model leaves the others alone and lists the model by
\* whether it is registered afterwards.
LEMMA OneModelKeeps ==
  ASSUME RMInv, NEW m \in Models, NEW e \in Entry \cup {Absent},
         registry' = [registry EXCEPT ![m] = e],
         \/ e # Absent /\ accessOrder' = Append(Without(accessOrder, m), m)
         \/ e = Absent /\ accessOrder' = Without(accessOrder, m)
         \/ e # Absent /\ registry[m] # Absent /\ accessOrder' = accessOrder
  PROVE  RegistryOK' /\ OrderOK'
<1>1. RegistryOK' /\ Registered' = IF e = Absent THEN Registered \ {m} ELSE Registered \cup {m}
  BY DEF RMInv, RegistryOK, Registered
<1>2. OrderOK
  BY DEF RMInv
<1>3. CASE e # Absent /\ accessOrder' = Append(Without(accessOrder, m), m)
  BY <1>1, <1>2, <1>3, OrderWithout DEF OrderOK
<1>4. CASE e = Absent /\ accessOrder' = Without(accessOrder, m)
  BY <1>1, <1>2, <1>4, OrderWithout DEF OrderOK
<1>5. CASE e # Absent /\ registry[m] # Absent /\ accessOrder' = accessOrder
  <2>1. Registered' = Registered
    BY <1>1, <1>5 DEF Registered
  <2> QED
    BY <1>1, <1>2, <1>5, <2>1 DEF OrderOK
<1> QED
  BY <1>1, <1>3, <1>4, <1>5

LEMMA RegisteredEntry ==
  ASSUME RMInv, NEW m \in Models
  PROVE  /\ registry[m] \in Entry \cup {Absent}
         /\ registry[m] # Absent => registry[m] \in Entry
         /\ registry[m].state \in States => registry[m] \in Entry /\ registry[m] # Absent
  BY DEF RMInv, RegistryOK, Absent, Entry, States

LEMMA EntryIsNotAbsent == \A e \in Entry : e # Absent
  BY DEF Entry, Absent, States

\* The estimate of a model that was optimised shrinks.
LEMMA ShrunkIsEntry ==
  ASSUME RMInv, NEW m \in Models, NEW state \in States, NEW tenths \in Nat,
         registry[m].state \in States
  PROVE  /\ Shrunk(m, state, tenths)[m] \in Entry
         /\ Shrunk(m, state, tenths) = [registry EXCEPT ![m] = Shrunk(m, state, tenths)[m]]
<1>1. registry[m] \in Entry
  BY RegisteredEntry
<1>2. (registry[m].mem * tenths) \div 10 \in Nat
  BY <1>1 DEF Entry
<1> QED
  BY <1>1, <1>2 DEF RMInv, RegistryOK, Shrunk, Entry

LEMMA ManagerModelKeeps ==
  ASSUME RMInv, NEW m \in Models,
         \/ Register(m) \/ Unregister(m) \/ MarkActive(m)
         \/ registry[m].state = "Active" /\ MarkRequestComplete(m)
         \/ OptimizeModel(m) \/ MonitorTick(m)
  PROVE  RegistryOK' /\ OrderOK' /\ UNCHANGED enforce /\ UNCHANGED monitor
<1>0. /\ registry \in [Models -> Entry \cup {Absent}] /\ FileSize[m] \in Nat
  BY PolicyAssumption DEF RMInv, RegistryOK
<1>1. CASE Register(m)
  <2> DEFINE e == [state |-> "Active", active |-> 0, mem |-> FileSize[m]]
  <2>1. e \in Entry
    BY <1>0 DEF Entry, States
  <2>2. /\ registry' = [registry EXCEPT ![m] = e]
        /\ accessOrder' = Append(Without(accessOrder, m), m)
        /\ enforce' = enforce /\ monitor' = monitor
    BY <1>1, Zenon DEF Register
  <2> HIDE DEF e
  <2> QED
    BY <2>1, <2>2, EntryIsNotAbsent, OneModelKeeps
<1>2. CASE Unregister(m)
  <2>1. /\ registry' = [registry EXCEPT ![m] = Absent]
        /\ accessOrder' = Without(accessOrder, m)
        /\ enforce' = enforce /\ monitor' = monitor
    BY <1>2, Zenon DEF Unregister, Drop
  <2> QED
    BY <2>1, OneModelKeeps
<1>3. CASE MarkActive(m)
  <2>1. CASE m \in Registered
    <3> DEFINE e == [registry[m] EXCEPT !.state = "Active", !.active = registry[m].active + 1]
    <3>1. e \in Entry
      <4>1. registry[m] \in Entry
        BY <2>1, RegisteredEntry DEF Registered
      <4>2. registry[m].active + 1 \in Nat
        BY <4>1 DEF Entry
      <4> QED
        BY <4>1, <4>2 DEF Entry, States
    <3>2. registry' = [registry EXCEPT ![m] = e]
      BY <1>0, <1>3, <2>1 DEF MarkActive
    <3>3. /\ accessOrder' = Append(Without(accessOrder, m), m)
          /\ enforce' = enforce /\ monitor' = monitor
      BY <1>3, <2>1, Zenon DEF MarkActive
    <3> HIDE DEF e
    <3> QED
      BY <3>1, <3>2, <3>3, EntryIsNotAbsent, OneModelKeeps
  <2>2. CASE m \notin Registered
    BY <1>3, <2>2 DEF MarkActive, RMInv, RegistryOK, OrderOK, Registered
  <2> QED
    BY <2>1, <2>2
<1>4. CASE registry[m].state = "Active" /\ MarkRequestComplete(m)
  <2> DEFINE left == IF registry[m].active = 0 THEN 0 ELSE registry[m].active - 1
             e == [registry[m] EXCEPT !.active = left, !.state = IF left = 0 THEN "Idle" ELSE @]
  <2>1. registry[m] \in Entry /\ registry[m] # Absent /\ m \in Registered
    BY <1>4, RegisteredEntry DEF States, Registered
  <2>2. left \in Nat
    BY <2>1 DEF Entry
  <2>3. registry' = [registry EXCEPT ![m] = e]
    BY <1>0, <1>4, <2>1 DEF MarkRequestComplete
  <2>4. e \in Entry
    <3> HIDE DEF left
    <3> QED
      BY <2>1, <2>2 DEF Entry, States
  <2>5. accessOrder' = accessOrder /\ enforce' = enforce /\ monitor' = monitor
    BY <1>4, Zenon DEF MarkRequestComplete
  <2> HIDE DEF e
  <2> QED
    BY <2>1, <2>3, <2>4, <2>5, EntryIsNotAbsent, OneModelKeeps
<1>5. CASE OptimizeModel(m) \/ MonitorTick(m)
  <2>1. registry[m].state \in States /\ registry[m] # Absent
    BY <1>5, RegisteredEntry DEF OptimizeModel, MonitorTick, States
  <2>2. PICK state \in States, tenths \in Nat : registry' = Shrunk(m, state, tenths)
    BY <1>5 DEF OptimizeModel, MonitorTick, States
  <2>3. accessOrder' = accessOrder /\ enforce' = enforce /\ monitor' = monitor
    BY <1>5, Zenon DEF OptimizeModel, MonitorTick
  <2> DEFINE e == Shrunk(m, state, tenths)[m]
  <2>4. e \in Entry /\ registry' = [registry EXCEPT ![m] = e]
    BY <2>1, <2>2, ShrunkIsEntry
  <2> HIDE DEF e
  <2> QED
    BY <2>1, <2>3, <2>4, EntryIsNotAbsent, OneModelKeeps
<1> QED
  BY <1>1, <1>2, <1>3, <1>4, <1>5

\* A thread drops only what it has collected and not dropped yet.
LEMMA EnforcementKeeps ==
  ASSUME RMInv, NEW c \in Callers, EnforceBegin(c) \/ Enforcement(c)
  PROVE  RMInv'
<1>0. /\ accessOrder \in Seq(Models)
      /\ enforce \in [Callers -> [phase : Phases, victims : Seq(Models)]]
      /\ \A d \in Callers : enforce[d].phase = "drop" => enforce[d].victims # <<>>
  BY DEF RMInv, OrderOK, EnforceOK
<1>1. ASSUME NEW e \in [phase : Phases, victims : Seq(Models)],
             enforce' = [enforce EXCEPT ![c] = e], e.phase = "drop" => e.victims # <<>>
      PROVE  EnforceOK'
  BY <1>0, <1>1 DEF EnforceOK
<1>2. ASSUME UNCHANGED <<registry, accessOrder, monitor>>, EnforceOK' PROVE RMInv'
  BY <1>2 DEF RMInv, RegistryOK, OrderOK, Registered, MonitorOK
<1>3. CASE EnforceBegin(c)
  <2> DEFINE e == [enforce[c] EXCEPT !.phase = "snapshot"]
  <2>1. e \in [phase : Phases, victims : Seq(Models)] /\ e.phase = "snapshot"
    BY <1>0 DEF Phases
  <2>2. enforce' = [enforce EXCEPT ![c] = e]
    BY <1>0, <1>3 DEF EnforceBegin
  <2>3. UNCHANGED <<registry, accessOrder, monitor>>
    BY <1>3, Zenon DEF EnforceBegin
  <2> HIDE DEF e
  <2> QED
    BY <1>1, <1>2, <2>1, <2>2, <2>3
<1>4. CASE EnforceSnapshot(c)
  <2> DEFINE K == {i \in DOMAIN accessOrder : registry[accessOrder[i]].active = 0}
             e == [phase |-> "check", victims |-> KeptAt(accessOrder, K)]
  <2>1. enforce' = [enforce EXCEPT ![c] = e] /\ UNCHANGED <<registry, accessOrder, monitor>>
    BY <1>4, KeepAtKeeps, Zenon DEF EnforceSnapshot
  <2> HIDE DEF K
  <2>2. KeptAt(accessOrder, K) \in Seq(Models)
    BY <1>0, KeptAtSeq
  <2>3. e \in [phase : Phases, victims : Seq(Models)] /\ e.phase = "check"
    BY <2>2 DEF Phases
  <2> HIDE DEF e
  <2> QED
    BY <1>1, <1>2, <2>1, <2>3
<1>5. CASE EnforceCheck(c)
  <2> DEFINE e == IF enforce[c].victims = <<>> \/ ~IsOverLimit THEN NotEnforcing
                  ELSE [enforce[c] EXCEPT !.phase = "drop"]
  <2>1. enforce' = [enforce EXCEPT ![c] = e] /\ UNCHANGED <<registry, accessOrder, monitor>>
    BY <1>5, <1>0 DEF EnforceCheck
  <2>2. e \in [phase : Phases, victims : Seq(Models)] /\ (e.phase = "drop" => e.victims # <<>>)
    <3>1. CASE enforce[c].victims = <<>> \/ ~IsOverLimit
      BY <3>1 DEF NotEnforcing, Phases
    <3>2. CASE ~(enforce[c].victims = <<>> \/ ~IsOverLimit)
      BY <1>0, <3>2 DEF Phases
    <3> QED
      BY <3>1, <3>2
  <2> HIDE DEF e
  <2> QED
    BY <1>1, <1>2, <2>1, <2>2
<1>6. CASE EnforceDrop(c)
  <2> DEFINE v == enforce[c].victims
             e == [phase |-> "check", victims |-> Tail(v)]
  <2>1. v \in Seq(Models) /\ v # <<>>
    BY <1>0, <1>6 DEF EnforceDrop
  <2>2. Head(v) \in Models /\ Tail(v) \in Seq(Models)
    BY <2>1
  <2>3. enforce' = [enforce EXCEPT ![c] = e] /\ UNCHANGED monitor
    BY <1>0, <1>6 DEF EnforceDrop
  <2>4. e \in [phase : Phases, victims : Seq(Models)] /\ e.phase = "check"
    BY <2>2 DEF Phases
  <2>5. \/ registry' = [registry EXCEPT ![Head(v)] = Absent]
           /\ accessOrder' = Without(accessOrder, Head(v))
        \/ registry' = registry /\ accessOrder' = accessOrder
    BY <1>6, Zenon DEF EnforceDrop, Drop
  <2> HIDE DEF v, e
  <2>6. RegistryOK' /\ OrderOK'
    <3>1. CASE registry' = registry /\ accessOrder' = accessOrder
      BY <3>1 DEF RMInv, RegistryOK, OrderOK, Registered
    <3>2. CASE registry' = [registry EXCEPT ![Head(v)] = Absent]
               /\ accessOrder' = Without(accessOrder, Head(v))
      BY <2>2, <3>2, OneModelKeeps
    <3> QED
      BY <2>5, <3>1, <3>2
  <2>7. EnforceOK'
    BY <1>1, <2>3, <2>4
  <2> QED
    BY <2>3, <2>6, <2>7 DEF RMInv, MonitorOK
<1> QED
  BY <1>3, <1>4, <1>5, <1>6 DEF Enforcement

\* The commands of the background task.
LEMMA MonitorKeeps ==
  ASSUME RMInv, (\E cmd \in {"OptimizeMemory", "Shutdown"} : SendCommand(cmd)) \/ Receive
  PROVE  RMInv'
<1>0. /\ monitor \in [up : BOOLEAN, commands : Seq({"OptimizeMemory", "Shutdown"})]
      /\ registry \in [Models -> Entry \cup {Absent}]
  BY DEF RMInv, MonitorOK, RegistryOK
<1>1. ASSUME UNCHANGED <<registry, accessOrder, enforce>>, MonitorOK' PROVE RMInv'
  BY <1>1 DEF RMInv, RegistryOK, OrderOK, Registered, EnforceOK
<1>2. ASSUME NEW cmd \in {"OptimizeMemory", "Shutdown"}, SendCommand(cmd) PROVE RMInv'
  <2>1. Append(monitor.commands, cmd) \in Seq({"OptimizeMemory", "Shutdown"})
    BY <1>0
  <2>2. MonitorOK' /\ UNCHANGED <<registry, accessOrder, enforce>>
    BY <1>0, <1>2, <2>1 DEF SendCommand, MonitorOK
  <2> QED
    BY <1>1, <2>2
<1>3. CASE ReceiveShutdown
  <2>1. MonitorOK'
    BY <1>3 DEF ReceiveShutdown, MonitorOK
  <2>2. UNCHANGED <<registry, accessOrder, enforce>>
    BY <1>3, Zenon DEF ReceiveShutdown
  <2> QED
    BY <1>1, <2>1, <2>2
<1>4. CASE ReceiveOptimize
  <2>1. Tail(monitor.commands) \in Seq({"OptimizeMemory", "Shutdown"})
    BY <1>0, <1>4 DEF ReceiveOptimize
  <2>2. MonitorOK' /\ accessOrder' = accessOrder /\ enforce' = enforce
    BY <1>0, <1>4, <2>1 DEF ReceiveOptimize, MonitorOK
  <2> DEFINE Chosen(m) == OptimizeIdleMemory /\ registry[m].state = "Idle" /\ registry[m].active = 0
  <2>3. registry' = [m \in Models |-> IF Chosen(m) THEN Shrunk(m, "Optimized", 8)[m] ELSE registry[m]]
    BY <1>4, Zenon DEF ReceiveOptimize
  <2>4. ASSUME NEW m \in Models
        PROVE  /\ registry'[m] \in Entry \cup {Absent}
               /\ registry'[m] # Absent <=> registry[m] # Absent
    <3>1. CASE Chosen(m)
      <4>1. registry'[m] = Shrunk(m, "Optimized", 8)[m]
        BY <2>3, <3>1
      <4>2. registry[m].state \in States /\ registry[m] # Absent
        BY <3>1, RegisteredEntry DEF States
      <4>3. registry'[m] \in Entry
        BY <4>1, <4>2, ShrunkIsEntry DEF States
      <4> QED
        BY <4>2, <4>3, EntryIsNotAbsent
    <3>2. CASE ~Chosen(m)
      BY <2>3, <3>2, <1>0
    <3> QED
      BY <3>1, <3>2
  <2> HIDE DEF Chosen
  <2>5. RegistryOK' /\ Registered' = Registered
    BY <2>3, <2>4 DEF RegistryOK, Registered
  <2> QED
    BY <2>2, <2>5 DEF RMInv, OrderOK, EnforceOK
<1> QED
  BY <1>2, <1>3, <1>4 DEF Receive

LEMMA RMInvInit == RMInit => RMInv
<1> SUFFICES ASSUME RMInit PROVE RMInv
  OBVIOUS
<1>1. RegistryOK /\ Registered = {}
  BY DEF RMInit, RegistryOK, Registered
<1>2. OrderOK
  BY <1>1 DEF RMInit, OrderOK, InSeq, Once
<1>3. EnforceOK
  BY DEF RMInit, EnforceOK, NotEnforcing, Phases
<1>4. MonitorOK
  BY DEF RMInit, MonitorOK
<1> QED
  BY <1>1, <1>2, <1>3, <1>4 DEF RMInv

LEMMA RMInvNext == RMInv /\ [RMNext]_rmVars => RMInv'
<1> SUFFICES ASSUME RMInv, [RMNext]_rmVars PROVE RMInv'
  OBVIOUS
<1>1. ASSUME NEW m \in Models,
             \/ Register(m) \/ Unregister(m) \/ MarkActive(m)
             \/ registry[m].state = "Active" /\ MarkRequestComplete(m)
             \/ OptimizeModel(m) \/ MonitorTick(m)
      PROVE  RMInv'
  <2>1. RegistryOK' /\ OrderOK' /\ enforce' = enforce /\ monitor' = monitor
    BY <1>1, ManagerModelKeeps
  <2> QED
    BY <2>1 DEF RMInv, EnforceOK, MonitorOK
<1>2. CASE UNCHANGED rmVars
  BY <1>2 DEF rmVars, RMInv, RegistryOK, OrderOK, Registered, EnforceOK, MonitorOK
<1> QED
  BY <1>1, <1>2, EnforcementKeeps, MonitorKeeps DEF RMNext

-----------------------------------------------------------------------------
(***************************************************************************)
(* The parts together.  A step of one leaves the others alone, so that     *)
(* every part behaves as it does on its own.                               *)
(***************************************************************************)
LEMMA StaysManager == Stays("manager") => UNCHANGED rmVars
  BY DEF Stays
LEMMA StaysConnections == Stays("connections") => UNCHANGED poolVars
  BY DEF Stays
LEMMA StaysInstances == Stays("instances") => UNCHANGED mpVars
  BY DEF Stays
LEMMA StaysLimiter == Stays("limiter") => UNCHANGED limiterVars
  BY DEF Stays
LEMMA StaysProxy == Stays("proxy") => UNCHANGED proxyVars
  BY DEF Stays
LEMMA StaysWidget == Stays("widget") => UNCHANGED widgetVars
  BY DEF Stays
LEMMA StaysRouter == Stays("router") => UNCHANGED routerVars
  BY DEF Stays
LEMMA StaysSampler == Stays("sampler") => UNCHANGED samplerVars
  BY DEF Stays
LEMMA StaysGrammar == Stays("grammar") => UNCHANGED grammarVars
  BY DEF Stays

LEMMA StepOfParts ==
  ASSUME [RationingNext]_mcVars
  PROVE  /\ [RMNext]_rmVars /\ [PoolNext]_poolVars /\ [MpNext]_mpVars
         /\ [LimiterNext]_limiterVars /\ [ProxyNext]_proxyVars /\ [WidgetNext]_widgetVars
         /\ [Router!RouterNext]_(Router!routerVars) /\ [Sampled!SamplerNext]_(Sampled!samplerVars)
         /\ [Grammar!GrammarNext]_(Grammar!grammarVars)
<1>1. /\ routerVars = Router!routerVars /\ samplerVars = Sampled!samplerVars
      /\ grammarVars = Grammar!grammarVars
      /\ routerVars' = (Router!routerVars)' /\ samplerVars' = (Sampled!samplerVars)'
      /\ grammarVars' = (Grammar!grammarVars)'
  BY DEF routerVars, Router!routerVars, samplerVars, Sampled!samplerVars,
         grammarVars, Grammar!grammarVars
<1> DEFINE Moves(p) ==
             CASE p = "manager" -> RMNext
               [] p = "connections" -> PoolNext
               [] p = "instances" -> MpNext
               [] p = "limiter" -> LimiterNext
               [] p = "proxy" -> ProxyNext
               [] p = "widget" -> WidgetNext
               [] p = "router" -> Router!RouterNext
               [] p = "sampler" -> Sampled!SamplerNext
               [] p = "grammar" -> Grammar!GrammarNext
<1>2. CASE UNCHANGED mcVars
  BY <1>1, <1>2, Zenon DEF mcVars
<1>3. CASE RationingNext
  <2>1. PICK p \in PartNames : Moves(p) /\ \A q \in PartNames \ {p} : Stays(q)
    BY <1>3, Zenon DEF RationingNext, Of, PartNames
  <2>2. \A q \in PartNames : Moves(q) \/ Stays(q)
    BY <2>1
  <2>3. /\ Moves("manager") \/ Stays("manager")
        /\ Moves("connections") \/ Stays("connections")
        /\ Moves("instances") \/ Stays("instances")
        /\ Moves("limiter") \/ Stays("limiter")
        /\ Moves("proxy") \/ Stays("proxy")
        /\ Moves("widget") \/ Stays("widget")
        /\ Moves("router") \/ Stays("router")
        /\ Moves("sampler") \/ Stays("sampler")
        /\ Moves("grammar") \/ Stays("grammar")
    <3> HIDE DEF Moves
    <3> QED
      BY <2>2, Zenon DEF PartNames
  <2> QED
    BY <1>1, <2>3, StaysManager, StaysConnections, StaysInstances, StaysLimiter, StaysProxy,
       StaysWidget, StaysRouter, StaysSampler, StaysGrammar
<1> QED
  BY <1>2, <1>3

\* Composing the parts adds nothing to what each of them does: the composition
\* implements every part (their state is not shared, see the heads of the modules).
THEOREM PartsBehaveAsAlone ==
  FairSpec =>
    /\ RMInit /\ [][RMNext]_rmVars
    /\ PoolSpec /\ MpSpec /\ LimiterSpec /\ ProxySpec /\ WidgetSpec
    /\ Router!RouterSpec /\ Sampled!SamplerSpec /\ Grammar!GrammarSpec
<1>1. RationingInit =>
        /\ RMInit /\ PoolInit /\ MpInit /\ LimiterInit /\ ProxyInit /\ WidgetInit
        /\ Router!RouterInit /\ Sampled!SamplerInit /\ Grammar!GrammarInit
  BY Zenon DEF RationingInit
<1> QED
  BY <1>1, StepOfParts, PTL DEF FairSpec, PoolSpec, MpSpec, LimiterSpec, ProxySpec, WidgetSpec,
     Router!RouterSpec, Sampled!SamplerSpec, Grammar!GrammarSpec

\* A request goes to the model its number selects however long a test runs, a token is
\* drawn from what the filters left, in proportion, and every JSON document can be
\* written to its end (inference/ab_testing.rs, sampler.rs, grammar.rs).
THEOREM ChoicesAlwaysSound == FairSpec => []ChoicesSound
<1>1. Router!RouterSpec => []Router!SplitIsKept
  BY RationingAssumption, SplitAlwaysKept
<1>2. Sampled!SamplerSpec => []Sampled!CandidatesSound
  BY RationingAssumption, CandidatesAlwaysSound
<1>3. Sampled!SamplerSpec =>
        [](Sampled!SamplerTypeOK /\ Sampled!DrawsInProportion /\ Sampled!SampledIsCandidate)
  BY RationingAssumption, DrawsAlwaysInProportion
<1>4. Grammar!GrammarSpec => [](Grammar!GrammarTypeOK /\ Grammar!GrammarSound)
  BY RationingAssumption, DocumentsAlwaysWritten
<1>5. /\ Router!SplitIsKept /\ Sampled!CandidatesSound
      /\ Sampled!SamplerTypeOK /\ Sampled!DrawsInProportion /\ Sampled!SampledIsCandidate
      /\ Grammar!GrammarTypeOK /\ Grammar!GrammarSound
      => ChoicesSound
  BY DEF ChoicesSound, Sampled!SamplingSound
<1> QED
  BY <1>1, <1>2, <1>3, <1>4, <1>5, PartsBehaveAsAlone, PTL

\* Every value keeps to its type, whatever the parts do: the order in which models may
\* be dropped names each registered model once and no other (resource_manager.rs), and
\* counters, buckets, sessions and handles stay within their bounds.
THEOREM TypesAlwaysOK == FairSpec => []TypesOK
<1> DEFINE Rest == /\ PoolInv /\ MpInv /\ IInv /\ PInv /\ ProxyTypeOK /\ WInv /\ WidgetTypeOK
                   /\ RouterTypes
           Steps == /\ [PoolNext]_poolVars /\ [MpNext]_mpVars
                    /\ [LimiterNext]_limiterVars /\ [ProxyNext]_proxyVars /\ [WidgetNext]_widgetVars
                    /\ [Router!RouterNext]_(Router!routerVars)
<1>1. RationingInit => RMInv /\ Rest
  <2> SUFFICES ASSUME RationingInit PROVE RMInv /\ Rest
    OBVIOUS
  <2>1. /\ RMInit /\ PoolInit /\ MpInit /\ LimiterInit /\ ProxyInit /\ WidgetInit
        /\ Router!RouterInit
    BY Zenon DEF RationingInit
  <2>2. /\ Router!RouterAssumption /\ LimiterAssumption /\ ProxyAssumption /\ WidgetAssumption
        /\ PoolAssumption
    BY RationingAssumption
  <2> QED
    BY <2>1, <2>2, RMInvInit, PoolInvInit, MpInvInit, InitTyped, PInvInit, ProxyTypeInit, WInvInit,
       WidgetTypeInit, RouterTypesInit, Zenon
<1>2. Rest /\ [RationingNext]_mcVars => Rest'
  <2> SUFFICES ASSUME Rest, [RationingNext]_mcVars PROVE Rest'
    OBVIOUS
  <2>1. Steps
    BY StepOfParts
  <2>2. Router!RouterAssumption
    BY RationingAssumption
  <2> QED
    BY <2>1, <2>2, PoolInvNext, MpInvNext, Inductive, PInvNext, ProxyTypeNext, WInvNext,
       WidgetTypeNext, RouterTypesNext, Zenon
<1>3. RMInv /\ [RationingNext]_mcVars => RMInv'
  BY StepOfParts, RMInvNext, Zenon
<1>4. Sampled!SamplerSpec =>
        [](Sampled!SamplerTypeOK /\ Sampled!DrawsInProportion /\ Sampled!SampledIsCandidate)
  BY RationingAssumption, DrawsAlwaysInProportion
<1>5. Grammar!GrammarSpec => [](Grammar!GrammarTypeOK /\ Grammar!GrammarSound)
  BY RationingAssumption, DocumentsAlwaysWritten
<1>6. IInv => LimiterTypeOK
  BY DEF IInv, BucketsTyped, Buckets, LimiterTypeOK
<1>7. RMInv /\ Rest /\ Sampled!SamplerTypeOK /\ Grammar!GrammarTypeOK => TypesOK
  BY <1>6, RMInvTypes, Zenon DEF TypesOK, PoolInv, MpInv, RouterTypes
<1> HIDE DEF Rest
<1> QED
  BY <1>1, <1>2, <1>3, <1>4, <1>5, <1>7, PartsBehaveAsAlone, PTL DEF FairSpec
=============================================================================
