-------------------------- MODULE Activity_proofs --------------------------
(***************************************************************************)
(* What holds of an execution for every workflow of any number of steps,   *)
(* also one with cycles, repeated ids and unknown dependencies, every      *)
(* limit of concurrent steps, and every order in which the tasks finish,   *)
(* fail and are joined.                                                    *)
(***************************************************************************)
EXTENDS Activity, Records_proofs, FiniteSetTheorems, SequenceTheorems, TLAPS

USE OrchestratorAssumption

-----------------------------------------------------------------------------
\* What the operations on the queue of pending steps do to its elements.

LEMMA SubsetsFinite ==
  ASSUME NEW S \in SUBSET Steps
  PROVE  IsFiniteSet(S) /\ Cardinality(S) \in Nat
<1>1. IsFiniteSet(Steps)
  BY FS_Interval DEF Steps
<1> QED
  BY <1>1, FS_Subset, FS_CardinalityType

\* A sequence of n distinct elements out of n has them all.
LEMMA OrderedProperties ==
  ASSUME NEW S \in SUBSET Steps, NEW q \in Ordered(S)
  PROVE  q \in Seq(Steps) /\ IsInjective(q) /\ ToSet(q) = S
<1> DEFINE n == Cardinality(S)
<1>1. IsFiniteSet(S) /\ n \in Nat
  BY SubsetsFinite
<1>2. q \in [1..n -> S] /\ \A i, j \in 1..n : i < j => q[i] < q[j]
  BY DEF Ordered
<1>3. IsInjective(q)
  <2> SUFFICES ASSUME NEW i \in 1..n, NEW j \in 1..n, q[i] = q[j], i # j PROVE FALSE
    BY <1>2 DEF IsInjective
  <2>1. q[i] \in Steps /\ q[j] \in Steps
    BY <1>2
  <2>2. i < j \/ j < i
    BY <1>1
  <2>3. q[i] < q[j] \/ q[j] < q[i]
    BY <1>2, <2>2
  <2> QED
    BY <2>1, <2>3 DEF Steps
<1>4. q \in Injection(1..n, S)
  BY <1>2, <1>3 DEF Injection
<1>5. IsFiniteSet(1..n) /\ Cardinality(1..n) = n
  <2>1. 1 \in Int /\ n \in Int /\ (IF 1 > n THEN 0 ELSE n - 1 + 1) = n
    BY <1>1
  <2> QED
    BY <2>1, FS_Interval
<1>6. q \in Surjection(1..n, S)
  BY <1>1, <1>4, <1>5, FS_Injection
<1>7. ToSet(q) = S
  BY <1>2, <1>6 DEF Surjection, ToSet
<1>8. q \in Seq(Steps)
  BY <1>1, <1>2
<1> QED
  BY <1>3, <1>7, <1>8

LEMMA AppendedSteps ==
  ASSUME NEW p \in Seq(Steps), NEW q \in Seq(Steps),
         IsInjective(p), IsInjective(q), ToSet(p) \cap ToSet(q) = {}
  PROVE  /\ p \o q \in Seq(Steps) /\ IsInjective(p \o q)
         /\ ToSet(p \o q) = ToSet(p) \cup ToSet(q)
<1> DEFINE m == Len(p)
           n == Len(q)
<1>1. /\ m \in Nat /\ n \in Nat /\ DOMAIN p = 1..m /\ DOMAIN q = 1..n
      /\ p \o q \in Seq(Steps) /\ Len(p \o q) = m + n /\ DOMAIN (p \o q) = 1..(m + n)
  BY ConcatProperties, LenProperties
<1>2. \A i \in 1..(m + n) : (p \o q)[i] = IF i <= m THEN p[i] ELSE q[i - m]
  BY ConcatProperties
<1> HIDE DEF m, n
<1>3. ToSet(p \o q) = ToSet(p) \cup ToSet(q)
  <2>1. ASSUME NEW i \in 1..m PROVE p[i] \in ToSet(p \o q)
    <3>1. i \in 1..(m + n) /\ (p \o q)[i] = p[i]
      BY <1>1, <1>2
    <3> QED
      BY <3>1, <1>1 DEF ToSet
  <2>2. ASSUME NEW i \in 1..n PROVE q[i] \in ToSet(p \o q)
    <3>1. m + i \in 1..(m + n) /\ ~(m + i <= m) /\ (m + i) - m = i
      BY <1>1
    <3>2. (p \o q)[m + i] = q[i]
      BY <3>1, <1>2
    <3> QED
      BY <3>1, <3>2, <1>1 DEF ToSet
  <2>3. ASSUME NEW i \in 1..(m + n) PROVE (p \o q)[i] \in ToSet(p) \cup ToSet(q)
    <3>1. CASE i <= m
      BY <3>1, <1>1, <1>2 DEF ToSet
    <3>2. CASE ~(i <= m)
      <4>1. i - m \in 1..n
        BY <3>2, <1>1
      <4> QED
        BY <3>2, <4>1, <1>1, <1>2 DEF ToSet
    <3> QED
      BY <3>1, <3>2
  <2> QED
    BY <2>1, <2>2, <2>3, <1>1 DEF ToSet
<1>4. IsInjective(p \o q)
  <2> DEFINE r == p \o q
  <2>0. ASSUME \A i, j \in 1..(m + n) : r[i] = r[j] => i = j PROVE IsInjective(r)
    <3>1. DOMAIN r = 1..(m + n)
      BY <1>1
    <3> HIDE DEF r
    <3> QED
      BY <2>0, <3>1 DEF IsInjective
  <2> SUFFICES ASSUME NEW i \in 1..(m + n), NEW j \in 1..(m + n), r[i] = r[j] PROVE i = j
    BY <2>0, Zenon
  <2>1. CASE i <= m /\ j <= m
    <3>1. i \in 1..m /\ j \in 1..m
      BY <2>1, <1>1
    <3>2. p[i] = p[j]
      BY <2>1, <1>2
    <3> QED
      BY <3>1, <3>2, <1>1 DEF IsInjective
  <2>2. CASE ~(i <= m) /\ ~(j <= m)
    <3>1. i - m \in 1..n /\ j - m \in 1..n
      BY <2>2, <1>1
    <3>2. q[i - m] = q[j - m]
      BY <2>2, <1>2
    <3>3. i - m = j - m
      BY <3>1, <3>2, <1>1 DEF IsInjective
    <3> QED
      BY <3>3, <1>1
  <2>3. CASE i <= m /\ ~(j <= m)
    <3>1. i \in 1..m /\ j - m \in 1..n
      BY <2>3, <1>1
    <3>2. p[i] = q[j - m]
      BY <2>3, <1>2
    <3> QED
      BY <3>1, <3>2, <1>1 DEF ToSet
  <2>4. CASE ~(i <= m) /\ j <= m
    <3>1. j \in 1..m /\ i - m \in 1..n
      BY <2>4, <1>1
    <3>2. p[j] = q[i - m]
      BY <2>4, <1>2
    <3> QED
      BY <3>1, <3>2, <1>1 DEF ToSet
  <2> QED
    BY <2>1, <2>2, <2>3, <2>4
<1> QED
  BY <1>1, <1>3, <1>4

\* A set of steps has a first one.
LEMMA LeastStep ==
  ASSUME NEW S \in SUBSET Steps, S # {}
  PROVE  \E s \in S : \A t \in S : s <= t
<1> DEFINE A == {n \in Nat : \A T \in SUBSET Steps :
                      (\E t \in T : t <= n) => \E s \in T : \A t \in T : s <= t}
<1>1. 0 \in A
  BY DEF Steps
<1>2. ASSUME NEW n \in Nat, n \in A PROVE n + 1 \in A
  <2> SUFFICES ASSUME NEW T \in SUBSET Steps, NEW t \in T, t <= n + 1
               PROVE  \E s \in T : \A u \in T : s <= u
    OBVIOUS
  <2>1. CASE \E u \in T : u <= n
    BY <1>2, <2>1
  <2>2. CASE ~\E u \in T : u <= n
    <3>1. \A u \in T : t <= u
      BY <2>2 DEF Steps
    <3> QED
      BY <3>1
  <2> QED
    BY <2>1, <2>2
<1>3. Nat \subseteq A
  <2> HIDE DEF A
  <2> QED
    BY <1>1, <1>2, EveryNat
<1>4. PICK s \in S : TRUE
  OBVIOUS
<1>5. s \in Nat /\ s <= s
  BY DEF Steps
<1> QED
  BY <1>3, <1>5

\* The first of a queue and the rest share out its elements.
LEMMA TailSteps ==
  ASSUME NEW p \in Seq(Steps), IsInjective(p), p # <<>>
  PROVE  /\ Head(p) \in Steps /\ Tail(p) \in Seq(Steps) /\ IsInjective(Tail(p))
         /\ ToSet(p) = {Head(p)} \cup ToSet(Tail(p)) /\ Head(p) \notin ToSet(Tail(p))
<1> DEFINE n == Len(p)
           q == Tail(p)
<1>1. /\ n \in Nat \ {0} /\ DOMAIN p = 1..n /\ Head(p) = p[1] /\ Head(p) \in Steps
      /\ q \in Seq(Steps) /\ Len(q) = n - 1 /\ DOMAIN q = 1..(n - 1)
      /\ \A i \in 1..(n - 1) : q[i] = p[i + 1]
  <2>1. /\ Head(p) \in Steps /\ q \in Seq(Steps) /\ Len(q) = Len(p) - 1
        /\ \A i \in 1..Len(q) : q[i] = p[i + 1]
    BY HeadTailProperties
  <2>2. n \in Nat \ {0} /\ DOMAIN p = 1..n /\ DOMAIN q = 1..Len(q) /\ Head(p) = p[1]
    BY <2>1, EmptySeq, LenProperties
  <2> QED
    BY <2>1, <2>2
<1> HIDE DEF n, q
<1>2. IsInjective(q)
  <2> SUFFICES ASSUME NEW i \in 1..(n - 1), NEW j \in 1..(n - 1), q[i] = q[j] PROVE i = j
    BY <1>1 DEF IsInjective
  <2>1. i + 1 \in 1..n /\ j + 1 \in 1..n /\ p[i + 1] = p[j + 1]
    BY <1>1
  <2>2. i + 1 = j + 1
    BY <1>1, <2>1 DEF IsInjective
  <2> QED
    BY <2>2
<1>3. ToSet(p) \subseteq {Head(p)} \cup ToSet(q)
  <2> SUFFICES ASSUME NEW i \in 1..n PROVE p[i] \in {Head(p)} \cup ToSet(q)
    BY <1>1 DEF ToSet
  <2>1. CASE i = 1
    BY <1>1, <2>1
  <2>2. CASE i # 1
    <3>1. i - 1 \in 1..(n - 1) /\ (i - 1) + 1 = i
      BY <1>1, <2>2
    <3>2. q[i - 1] = p[i]
      BY <1>1, <3>1
    <3> QED
      BY <1>1, <3>1, <3>2 DEF ToSet
  <2> QED
    BY <2>1, <2>2
<1>4. {Head(p)} \cup ToSet(q) \subseteq ToSet(p)
  <2>1. 1 \in 1..n /\ \A i \in 1..(n - 1) : i + 1 \in 1..n /\ q[i] = p[i + 1]
    BY <1>1
  <2> QED
    BY <1>1, <2>1 DEF ToSet
<1>5. Head(p) \notin ToSet(q)
  <2> SUFFICES ASSUME NEW i \in 1..(n - 1), q[i] = p[1] PROVE FALSE
    BY <1>1 DEF ToSet
  <2>1. i + 1 \in 1..n /\ 1 \in 1..n /\ p[i + 1] = p[1] /\ i + 1 # 1
    BY <1>1
  <2> QED
    BY <1>1, <2>1 DEF IsInjective
<1> QED
  BY <1>1, <1>2, <1>3, <1>4, <1>5 DEF q

-----------------------------------------------------------------------------
\* The strengthening.  Nothing has happened before the loop begins.
Fresh ==
  phase \in {"start", "initialized"} =>
    pending = <<>> /\ Live = {} /\ completed = {} /\ \A s \in Steps : task[s] = "none"

\* The steps that were queued, whether they were spawned since or not.
Queued == ToSet(pending) \cup {s \in Steps : task[s] # "none"}

\* Their dependencies are among the completed steps.
Enabled == \A s \in Queued : dependsOn[s] \subseteq completed

\* What is completed, or about to be joined, has reported.
Reported ==
  /\ \A i \in completed : stepStatus[i] # "Pending"
  /\ \A s \in Steps : task[s] = "ok" => stepStatus[idOf[s]] # "Pending"

\* What is queued was not spawned, and the id of what was spawned runs or is completed.
QueuedUnspawned == \A s \in ToSet(pending) : task[s] = "none"
Accounted == \A s \in Steps : task[s] # "none" => idOf[s] \in Live \cup completed

\* Only steps without dependencies are queued beside another one of their id.
Repeats ==
  \A s, t \in Queued : s # t /\ idOf[s] = idOf[t] => dependsOn[s] = {} /\ dependsOn[t] = {}

\* No step that may be executed is left out, in the loop and after its end.
AllKnown == \A s \in Steps : Unknown \notin dependsOn[s]
Covered ==
  phase = "loop" =>
    /\ AllKnown
    /\ \A s \in Steps : dependsOn[s] \subseteq completed =>
                          idOf[s] \in completed \cup Live \cup Keys(ToSet(pending))
Ended ==
  phase \in {"completing", "completed"} \/ status = "Completed" =>
    /\ AllKnown
    /\ \A s \in Steps : dependsOn[s] \subseteq completed => idOf[s] \in completed

CompletedByPhase == status = "Completed" => phase \in {"completed", "aborted"}

Inv == /\ TypeOK /\ Fresh /\ Enabled /\ Reported /\ QueuedUnspawned /\ Accounted
       /\ Repeats /\ Covered /\ Ended /\ CompletedByPhase

LEMMA NothingQueued == ToSet(<<>>) = {}
  BY DEF ToSet

LEMMA InvInit == Init => Inv
<1> SUFFICES ASSUME Init PROVE Inv
  OBVIOUS
<1>1. Live = {} /\ ToSet(pending) = {} /\ Queued = {}
  BY NothingQueued DEF Init, Live, Queued
<1>2. TypeOK
  <2>1. pending \in Seq(Steps) /\ IsInjective(pending)
    BY DEF Init, IsInjective
  <2>2. Cardinality(Live) <= MaxConcurrent
    BY <1>1, FS_EmptySet
  <2>3. IsWorkflow
    BY DEF Init, IsWorkflow
  <2> QED
    BY <1>1, <2>1, <2>2, <2>3 DEF Init, TypeOK, TaskStates
<1>3. Fresh /\ Covered /\ Ended /\ CompletedByPhase
  BY <1>1 DEF Init, Fresh, Covered, Ended, CompletedByPhase
<1>4. Enabled /\ Reported /\ QueuedUnspawned /\ Accounted /\ Repeats
  BY <1>1 DEF Init, Enabled, Reported, QueuedUnspawned, Accounted, Repeats
<1> QED
  BY <1>2, <1>3, <1>4 DEF Inv

\* Steps that leave the tasks and what is known of them alone.
LEMMA TypesKept ==
  ASSUME TypeOK, UNCHANGED <<workflow, running, completed, task, stepStatus>>,
         phase' \in {"start", "initialized", "loop", "completing", "completed",
                     "failing", "failed", "aborted"},
         pending' \in Seq(Steps), IsInjective(pending'), awaited' \in Live \cup {0},
         status' \in {"Pending", "Running", "Completed", "Failed"}
  PROVE  TypeOK'
<1>1. UNCHANGED idOf /\ UNCHANGED dependsOn /\ Live' = Live
  BY DEF workflow, Live
<1>2. IsWorkflow'
  BY <1>1 DEF TypeOK, IsWorkflow, Keys
<1>3. \A i \in Live' : idOf'[running'[i]] = i /\ task'[running'[i]] # "none"
  BY <1>1 DEF TypeOK
<1> QED
  BY <1>1, <1>2, <1>3 DEF TypeOK

\* The calls of the state manager around the loop.
LEMMA InvManager ==
  ASSUME Inv, Initialize \/ SetRunning \/ Finish
  PROVE  Inv'
<1>1. /\ UNCHANGED <<workflow, running, awaited, completed, task, stepStatus>>
      /\ Live' = Live
  BY DEF Initialize, SetRunning, Finish, Live
<1>2. CASE UNCHANGED pending /\ phase' # "loop"
  <2>1. Queued' = Queued
    BY <1>1, <1>2 DEF Queued
  <2>2. TypeOK'
    <3>1. /\ phase' \in {"start", "initialized", "loop", "completing", "completed",
                         "failing", "failed", "aborted"}
          /\ status' \in {"Pending", "Running", "Completed", "Failed"}
      BY DEF Inv, TypeOK, Initialize, SetRunning, Finish
    <3>2. /\ TypeOK /\ pending' \in Seq(Steps) /\ IsInjective(pending')
          /\ awaited' \in Live \cup {0}
      BY <1>1, <1>2 DEF Inv, TypeOK
    <3> QED
      BY <1>1, <3>1, <3>2, TypesKept
  <2>3. Fresh'
    BY <1>1, <1>2 DEF Inv, Fresh, Initialize, SetRunning, Finish
  <2>4. Enabled' /\ Reported' /\ QueuedUnspawned' /\ Accounted' /\ Repeats'
    BY <1>1, <1>2, <2>1 DEF Inv, workflow, Enabled, Reported, QueuedUnspawned, Accounted, Repeats
  <2>5. Covered'
    BY <1>2 DEF Covered
  <2>6. phase' \in {"completing", "completed"} \/ status' = "Completed" =>
          phase \in {"completing", "completed"} \/ status = "Completed"
    BY DEF Initialize, SetRunning, Finish
  <2>7. Ended'
    BY <1>1, <2>6 DEF Inv, workflow, Ended, AllKnown
  <2>8. CompletedByPhase'
    BY DEF Inv, CompletedByPhase, Initialize, SetRunning, Finish
  <2> QED
    BY <2>2, <2>3, <2>4, <2>5, <2>7, <2>8 DEF Inv
<1>3. CASE SetRunning /\ phase' = "loop"
  <2> DEFINE S == {s \in Steps : dependsOn[s] = {}}
  <2>1. pending' \in Seq(Steps) /\ IsInjective(pending') /\ ToSet(pending') = S
    <3>1. S \in SUBSET Steps /\ pending' \in Ordered(S)
      BY <1>3 DEF SetRunning
    <3> HIDE DEF S
    <3> QED
      BY <3>1, OrderedProperties
  <2>2. Live = {} /\ completed = {} /\ completed' = {} /\ \A s \in Steps : task[s] = "none" /\ task'[s] = "none"
    BY <1>1, <1>3 DEF Inv, Fresh, SetRunning
  <2>3. Queued' = S
    BY <2>1, <2>2 DEF Queued
  <2>4. TypeOK'
    <3>1. phase' = "loop" /\ status' = "Running"
      BY <1>3 DEF SetRunning
    <3>2. TypeOK /\ awaited' \in Live \cup {0}
      BY <1>1 DEF Inv, TypeOK
    <3> QED
      BY <1>1, <2>1, <3>1, <3>2, TypesKept
  <2>5. Fresh' /\ Ended' /\ CompletedByPhase'
    BY <1>3 DEF SetRunning, Fresh, Ended, CompletedByPhase
  <2>6. Enabled' /\ Repeats'
    BY <1>1, <2>3 DEF workflow, Enabled, Repeats
  <2>7. Reported' /\ QueuedUnspawned' /\ Accounted'
    BY <1>1, <2>1, <2>2 DEF Reported, QueuedUnspawned, Accounted
  <2>8. Covered'
    <3>1. AllKnown'
      BY <1>1, <1>3 DEF SetRunning, AllKnown, workflow
    <3>2. \A s \in Steps : dependsOn'[s] \subseteq completed' => idOf'[s] \in Keys(ToSet(pending))'
      BY <1>1, <2>1, <2>2 DEF workflow, Keys
    <3> QED
      BY <3>1, <3>2 DEF Covered
  <2> QED
    BY <2>4, <2>5, <2>6, <2>7, <2>8 DEF Inv
<1> QED
  BY <1>2, <1>3 DEF Initialize, SetRunning, Finish

LEMMA LiveFinite ==
  ASSUME TypeOK PROVE Live \in SUBSET Steps /\ IsFiniteSet(Live) /\ Cardinality(Live) \in Nat
<1>1. Live \in SUBSET Steps
  BY DEF Live
<1> QED
  BY <1>1, SubsetsFinite

LEMMA InvSpawn ==
  ASSUME Inv, Spawn
  PROVE  Inv'
<1> DEFINE s == Head(pending)
           i == idOf[s]
<1>0. TypeOK /\ phase = "loop"
  BY DEF Inv, Spawn
<1>1. /\ s \in Steps /\ pending' \in Seq(Steps) /\ IsInjective(pending')
      /\ ToSet(pending) = {s} \cup ToSet(pending') /\ s \notin ToSet(pending')
  <2>1. pending \in Seq(Steps) /\ IsInjective(pending) /\ pending # <<>> /\ pending' = Tail(pending)
    BY <1>0 DEF TypeOK, Spawn
  <2> QED
    BY <2>1, TailSteps
<1>2. /\ running' = [running EXCEPT ![i] = s] /\ task' = [task EXCEPT ![s] = "spawned"]
      /\ UNCHANGED <<workflow, phase, awaited, completed, status, stepStatus>>
      /\ Cardinality(Live) < MaxConcurrent
  BY DEF Spawn, HasRoom
<1>3. i \in Steps /\ UNCHANGED idOf /\ UNCHANGED dependsOn
  BY <1>0, <1>1, <1>2 DEF TypeOK, IsWorkflow, workflow
<1> HIDE DEF s, i
<1>4. /\ task' \in [Steps -> TaskStates] /\ task'[s] = "spawned" /\ \A t \in Steps \ {s} : task'[t] = task[t]
      /\ running' \in [Steps -> Steps \cup {0}] /\ running'[i] = s /\ \A j \in Steps \ {i} : running'[j] = running[j]
  BY <1>0, <1>1, <1>2, <1>3 DEF TypeOK, TaskStates
<1>5. Live' = Live \cup {i}
  <2>1. s # 0
    BY <1>1 DEF Steps
  <2> QED
    BY <1>3, <1>4, <2>1 DEF Live
<1>6. TypeOK'
  <2>1. Cardinality(Live') <= MaxConcurrent
    <3>1. IsFiniteSet(Live) /\ Cardinality(Live) \in Nat
      BY <1>0, LiveFinite
    <3>2. Cardinality(Live \cup {i}) = IF i \in Live THEN Cardinality(Live) ELSE Cardinality(Live) + 1
      BY <3>1, FS_AddElement
    <3> QED
      BY <1>2, <1>5, <3>1, <3>2, OrchestratorAssumption
  <2>2. \A j \in Live' : idOf'[running'[j]] = j /\ task'[running'[j]] # "none"
    <3> SUFFICES ASSUME NEW j \in Live' PROVE idOf[running'[j]] = j /\ task'[running'[j]] # "none"
      BY <1>3
    <3>1. CASE j = i
      BY <1>4, <3>1 DEF i
    <3>2. CASE j # i
      <4>1. j \in Live /\ j \in Steps
        BY <1>5, <3>2 DEF Live
      <4>2. idOf[running[j]] = j /\ task[running[j]] # "none" /\ running[j] \in Steps
        BY <1>0, <4>1 DEF TypeOK, Live
      <4> QED
        BY <1>4, <3>2, <4>1, <4>2
    <3> QED
      BY <3>1, <3>2
  <2>3. awaited' \in Live' \cup {0}
    BY <1>0, <1>2, <1>5 DEF TypeOK
  <2>4. IsWorkflow'
    BY <1>0, <1>3 DEF TypeOK, IsWorkflow, Keys
  <2> QED
    BY <1>0, <1>1, <1>2, <1>4, <2>1, <2>2, <2>3, <2>4 DEF TypeOK
<1>7. Fresh' /\ Ended' /\ CompletedByPhase'
  <2>1. phase' = "loop" /\ status' = status
    BY <1>0, <1>2
  <2> QED
    BY <1>0, <2>1 DEF Inv, Fresh, Ended, CompletedByPhase
<1>8. Queued' = Queued
  BY <1>1, <1>4 DEF Queued
<1>9. Enabled' /\ Repeats'
  BY <1>2, <1>3, <1>8 DEF Inv, Enabled, Repeats
<1>10. Reported'
  BY <1>2, <1>3, <1>4 DEF Inv, Reported
<1>11. QueuedUnspawned'
  <2>1. \A t \in ToSet(pending') : t \in Steps \ {s} /\ t \in ToSet(pending)
    <3>1. DOMAIN pending' = 1..Len(pending')
      BY <1>1
    <3>2. \A t \in ToSet(pending') : t \in Steps
      BY <1>1, <3>1 DEF ToSet
    <3> QED
      BY <1>1, <3>2
  <2> QED
    BY <1>4, <2>1 DEF Inv, QueuedUnspawned
<1>12. Accounted'
  <2> SUFFICES ASSUME NEW t \in Steps, task'[t] # "none" PROVE idOf[t] \in Live' \cup completed
    BY <1>2, <1>3 DEF Accounted
  <2>1. CASE t = s
    BY <1>5, <2>1 DEF i
  <2>2. CASE t # s
    BY <1>4, <1>5, <2>2 DEF Inv, Accounted
  <2> QED
    BY <2>1, <2>2
<1>13. Covered'
  <2>1. Keys(ToSet(pending)) \subseteq {i} \cup Keys(ToSet(pending))'
    BY <1>1, <1>3 DEF Keys, i
  <2>2. AllKnown /\ AllKnown'
    BY <1>0, <1>3 DEF Inv, Covered, AllKnown
  <2> QED
    BY <1>0, <1>2, <1>3, <1>5, <2>1, <2>2 DEF Inv, Covered
<1> QED
  BY <1>6, <1>7, <1>9, <1>10, <1>11, <1>12, <1>13 DEF Inv

LEMMA InvJoin ==
  ASSUME Inv, Join
  PROVE  Inv'
<1>0. TypeOK
  BY DEF Inv
<1>1. /\ phase = "loop" /\ phase' = "loop" /\ awaited \in Live /\ awaited \in Steps
      /\ task[running[awaited]] = "ok"
      /\ completed' = completed \cup {awaited} /\ running' = [running EXCEPT ![awaited] = 0]
      /\ awaited' = 0
      /\ UNCHANGED <<task, status, stepStatus>> /\ UNCHANGED idOf /\ UNCHANGED dependsOn
  BY <1>0 DEF TypeOK, Live, Join, workflow
<1>2. /\ Live' = Live \ {awaited} /\ running' \in [Steps -> Steps \cup {0}]
      /\ \A i \in Live' : running'[i] = running[i]
  BY <1>0, <1>1 DEF TypeOK, Live
<1> DEFINE R == FirstOfId(Ready(completed', Live'))
<1>3. PICK ready \in Ordered(R) : pending' = pending \o ready
  BY DEF Join
<1>4. /\ R \in SUBSET Steps
      /\ \A s \in R : /\ idOf[s] \notin completed' \cup Live' \cup Keys(ToSet(pending))
                      /\ dependsOn[s] \subseteq completed'
      /\ \A s, t \in R : idOf[s] = idOf[t] => s = t
  <2>1. \A s, t \in R : idOf[s] = idOf[t] => s <= t /\ t <= s /\ s \in Int /\ t \in Int
    BY DEF FirstOfId, Ready, Steps
  <2> QED
    BY <2>1 DEF FirstOfId, Ready
<1>5. ready \in Seq(Steps) /\ IsInjective(ready) /\ ToSet(ready) = R
  <2> HIDE DEF R
  <2> QED
    BY <1>3, <1>4, OrderedProperties
<1>6. pending \in Seq(Steps) /\ IsInjective(pending) /\ ToSet(pending) \cap ToSet(ready) = {}
  <2>1. \A s \in ToSet(pending) : idOf[s] \in Keys(ToSet(pending))
    BY DEF Keys
  <2> QED
    BY <1>0, <1>4, <1>5, <2>1 DEF TypeOK
<1>7. /\ pending' \in Seq(Steps) /\ IsInjective(pending')
      /\ ToSet(pending') = ToSet(pending) \cup R
  BY <1>3, <1>5, <1>6, AppendedSteps
<1>c. \A s \in Steps : dependsOn[s] \subseteq completed' =>
        idOf[s] \in completed' \cup Live' \cup Keys(ToSet(pending)) \cup Keys(R)
  <2> SUFFICES ASSUME NEW s \in Steps, s \in Ready(completed', Live') PROVE idOf[s] \in Keys(R)
    BY DEF Ready
  <2>1. PICK t \in Ready(completed', Live') :
          idOf[t] = idOf[s] /\ \A u \in Ready(completed', Live') : idOf[u] = idOf[s] => t <= u
    <3> DEFINE A == {u \in Ready(completed', Live') : idOf[u] = idOf[s]}
    <3>1. A \subseteq Steps /\ s \in A
      BY DEF Ready
    <3>2. \E t \in A : \A u \in A : t <= u
      <4> HIDE DEF A
      <4> QED
        BY <3>1, LeastStep
    <3> QED
      BY <3>2
  <2>2. t \in R
    BY <2>1 DEF FirstOfId
  <2> QED
    BY <2>1, <2>2 DEF Keys
<1> HIDE DEF R
<1>8. TypeOK'
  <2>1. Cardinality(Live') <= MaxConcurrent
    <3>1. IsFiniteSet(Live) /\ Cardinality(Live) \in Nat /\ Live' \in SUBSET Live
      BY <1>0, <1>2, LiveFinite
    <3>2. Cardinality(Live') <= Cardinality(Live) /\ Cardinality(Live') \in Nat
      BY <3>1, FS_Subset, FS_CardinalityType
    <3> QED
      BY <1>0, <3>1, <3>2, OrchestratorAssumption DEF TypeOK
  <2>2. \A i \in Live' : idOf'[running'[i]] = i /\ task'[running'[i]] # "none"
    BY <1>0, <1>1, <1>2 DEF TypeOK
  <2>3. completed' \subseteq Steps
    BY <1>0, <1>1 DEF TypeOK
  <2>4. IsWorkflow'
    BY <1>0, <1>1 DEF TypeOK, IsWorkflow, Keys
  <2> QED
    BY <1>0, <1>1, <1>2, <1>7, <2>1, <2>2, <2>3, <2>4 DEF TypeOK
<1>9. Fresh' /\ Ended' /\ CompletedByPhase'
  BY <1>1 DEF Inv, Fresh, Ended, CompletedByPhase
<1>10. Queued' = Queued \cup R
  BY <1>1, <1>7 DEF Queued
<1>11. Enabled'
  BY <1>1, <1>4, <1>10 DEF Inv, Enabled
<1>12. Reported'
  <2>1. stepStatus[awaited] # "Pending"
    <3>1. running[awaited] \in Steps /\ idOf[running[awaited]] = awaited
      BY <1>0, <1>1 DEF TypeOK, Live
    <3> QED
      BY <1>1, <3>1 DEF Inv, Reported
  <2> QED
    BY <1>1, <2>1 DEF Inv, Reported
<1>13. Accounted'
  BY <1>1, <1>2 DEF Inv, Accounted
<1>14. \A s \in R : task[s] = "none" /\ \A t \in Queued : idOf[t] # idOf[s]
  <2> SUFFICES ASSUME NEW s \in R, NEW t \in Steps, t \in Queued, idOf[t] = idOf[s] PROVE FALSE
    <3>1. Queued \subseteq Steps
      <4>1. ToSet(pending) \subseteq Steps
        BY <1>6 DEF ToSet
      <4> QED
        BY <4>1 DEF Queued
    <3>2. \A s \in R : task[s] # "none" => s \in Queued
      BY <1>4 DEF Queued
    <3> QED
      BY <1>4, <3>1, <3>2
  <2>1. CASE t \in ToSet(pending)
    BY <1>4, <2>1 DEF Keys
  <2>2. CASE task[t] # "none"
    BY <1>1, <1>4, <1>13, <2>2 DEF Accounted
  <2> QED
    BY <2>1, <2>2 DEF Queued
<1>15. QueuedUnspawned'
  BY <1>1, <1>7, <1>14 DEF Inv, QueuedUnspawned
<1>16. Repeats'
  <2> SUFFICES ASSUME NEW s \in Queued \cup R, NEW t \in Queued \cup R, s # t, idOf[s] = idOf[t]
               PROVE  dependsOn[s] = {} /\ dependsOn[t] = {}
    BY <1>1, <1>10 DEF Repeats
  <2>1. s \in Queued /\ t \in Queued
    BY <1>4, <1>14
  <2> QED
    BY <2>1 DEF Inv, Repeats
<1>17. Covered'
  <2>1. Keys(ToSet(pending))' = Keys(ToSet(pending)) \cup Keys(R)
    BY <1>1, <1>7 DEF Keys
  <2>2. AllKnown'
    BY <1>1 DEF Inv, Covered, AllKnown
  <2> QED
    BY <1>1, <1>c, <2>1, <2>2 DEF Covered
<1> QED
  BY <1>8, <1>9, <1>11, <1>12, <1>13, <1>15, <1>16, <1>17 DEF Inv

\* The other steps of the loop leave the queue and the tasks alone.
LEMMA InvLoopEnds ==
  ASSUME Inv, Await \/ JoinFails \/ LoopEnds \/ TimeOut
  PROVE  Inv'
<1>1. /\ UNCHANGED <<workflow, pending, running, completed, task, status, stepStatus>>
      /\ phase = "loop" /\ phase' \in {"loop", "failing", "completing"}
      /\ awaited' \in Live \cup {0}
  BY DEF Await, JoinFails, LoopEnds, TimeOut, Live
<1>2. Live' = Live /\ Queued' = Queued /\ Keys(ToSet(pending))' = Keys(ToSet(pending))
  BY <1>1 DEF Live, Queued, Keys, workflow
<1>3. TypeOK'
  <2>1. TypeOK /\ pending' \in Seq(Steps) /\ IsInjective(pending')
        /\ status' \in {"Pending", "Running", "Completed", "Failed"}
    BY <1>1 DEF Inv, TypeOK
  <2> QED
    BY <1>1, <2>1, TypesKept
<1>4. Fresh' /\ CompletedByPhase'
  BY <1>1 DEF Inv, Fresh, CompletedByPhase
<1>5. Covered'
  BY <1>1, <1>2 DEF Inv, Covered, AllKnown, workflow
<1>6. Enabled' /\ Reported' /\ QueuedUnspawned' /\ Accounted' /\ Repeats'
  BY <1>1, <1>2 DEF Inv, Enabled, Reported, QueuedUnspawned, Accounted, Repeats, workflow
<1>7. Ended'
  <2>1. CASE phase' = "completing"
    <3>1. Live = {} /\ ToSet(pending) = {} /\ Keys(ToSet(pending)) = {}
      BY <1>1, <2>1, NothingQueued DEF Await, JoinFails, TimeOut, LoopEnds, Done, Keys
    <3> QED
      BY <1>1, <3>1 DEF Inv, Covered, Ended, AllKnown, workflow
  <2>2. CASE phase' # "completing"
    <3>1. status' # "Completed" /\ phase' # "completed"
      BY <1>1 DEF Inv, CompletedByPhase
    <3> QED
      BY <2>2, <3>1 DEF Ended
  <2> QED
    BY <2>1, <2>2
<1> QED
  BY <1>3, <1>4, <1>5, <1>6, <1>7 DEF Inv

LEMMA InvTaskStep ==
  ASSUME Inv, NEW t \in Steps, TaskStep(t)
  PROVE  Inv'
<1>1. /\ UNCHANGED <<workflow, phase, pending, running, awaited, completed, status>>
      /\ task[t] # "none"
      /\ task' \in [Steps -> TaskStates] /\ task'[t] # "none"
      /\ stepStatus' \in [Steps -> {"Pending", "Completed", "Failed"}]
      /\ task'[t] = "ok" => stepStatus'[idOf[t]] # "Pending"
      /\ \A i \in Steps : stepStatus[i] # "Pending" => stepStatus'[i] # "Pending"
      /\ \A s \in Steps \ {t} : task'[s] = task[s]
  <2>1. task \in [Steps -> TaskStates] /\ stepStatus \in [Steps -> {"Pending", "Completed", "Failed"}]
        /\ idOf[t] \in Steps
    BY DEF Inv, TypeOK, IsWorkflow
  <2>2. CASE BeginStep(t)
    BY <2>1, <2>2 DEF BeginStep, TaskGoes, loopVars, TaskStates
  <2>3. CASE Act(t)
    BY <2>1, <2>3 DEF Act, TaskGoes, loopVars, TaskStates
  <2>4. CASE Report(t)
    BY <2>1, <2>4 DEF Report, loopVars, TaskStates
  <2> QED
    BY <2>2, <2>3, <2>4 DEF TaskStep
<1> HIDE DEF TaskStep
<1>2. /\ Live' = Live /\ UNCHANGED idOf /\ UNCHANGED dependsOn
      /\ Keys(ToSet(pending))' = Keys(ToSet(pending)) /\ Queued' = Queued
  BY <1>1 DEF Live, Keys, workflow, Queued
<1>3. TypeOK'
  <2>1. \A i \in Live : running[i] \in Steps /\ task'[running[i]] # "none"
    <3>1. \A i \in Live : running[i] \in Steps /\ task[running[i]] # "none"
      BY DEF Inv, TypeOK, Live
    <3> QED
      BY <1>1, <3>1
  <2>2. IsWorkflow'
    BY <1>2 DEF Inv, TypeOK, IsWorkflow, Keys
  <2> QED
    BY <1>1, <1>2, <2>1, <2>2, Zenon DEF Inv, TypeOK
<1>4. Fresh'
  BY <1>1, <1>2 DEF Inv, Fresh
<1>5. Covered' /\ Ended' /\ CompletedByPhase'
  BY <1>1, <1>2 DEF Inv, Covered, Ended, CompletedByPhase, AllKnown
<1>6. Enabled' /\ Repeats'
  BY <1>1, <1>2 DEF Inv, Enabled, Repeats
<1>7. Reported'
  <2>1. completed \subseteq Steps /\ \A s \in Steps : idOf[s] \in Steps
    BY DEF Inv, TypeOK, IsWorkflow
  <2> QED
    BY <1>1, <1>2, <2>1 DEF Inv, Reported
<1>8. QueuedUnspawned'
  <2>1. ToSet(pending) \subseteq Steps
    BY DEF Inv, TypeOK, ToSet
  <2> QED
    BY <1>1, <2>1 DEF Inv, QueuedUnspawned
<1>9. Accounted'
  BY <1>1, <1>2 DEF Inv, Accounted
<1> QED
  BY <1>3, <1>4, <1>5, <1>6, <1>7, <1>8, <1>9 DEF Inv

LEMMA InvStutter == Inv /\ UNCHANGED vars => Inv'
  BY DEF Inv, vars, workflow, loopVars, TypeOK, IsWorkflow, Keys, Live, Queued, Fresh, Enabled, Reported,
         QueuedUnspawned, Accounted, Repeats, Covered, AllKnown, Ended, CompletedByPhase

LEMMA InvNext == Inv /\ [Next]_vars => Inv'
<1> SUFFICES ASSUME Inv, [Next]_vars PROVE Inv'
  OBVIOUS
<1>1. CASE LoopStep
  BY <1>1, InvSpawn, InvJoin, InvLoopEnds DEF LoopStep
<1>2. CASE TimeOut
  BY <1>2, InvLoopEnds
<1>3. CASE \E s \in Steps : TaskStep(s)
  BY <1>3, InvTaskStep
<1>4. CASE UNCHANGED vars
  BY <1>4, InvStutter
<1>5. CASE ManagerStep
  BY <1>5, InvManager DEF ManagerStep
<1> QED
  BY <1>1, <1>2, <1>3, <1>4, <1>5 DEF Next

LEMMA InvAlways == Spec => []Inv
  BY InvInit, InvNext, PTL DEF Spec

-----------------------------------------------------------------------------
(***************************************************************************)
(* No more than max_concurrent_steps tasks are held at a time, each under  *)
(* the id of its step, whatever the workflow.                              *)
(***************************************************************************)
THEOREM RunningAlwaysBounded == Spec => []TypeOK
<1>1. Inv => TypeOK
  BY DEF Inv
<1> QED
  BY <1>1, InvAlways, PTL

(***************************************************************************)
(* A task exists only for a step whose dependencies have all reported.     *)
(***************************************************************************)
THEOREM DependenciesAlwaysReported == Spec => []DependenciesReportedFirst
<1>1. Inv => DependenciesReportedFirst
  <2> SUFFICES ASSUME Inv, NEW s \in Steps, task[s] # "none", NEW d \in dependsOn[s]
               PROVE  stepStatus[d] # "Pending"
    BY DEF DependenciesReportedFirst
  <2>1. d \in completed
    BY DEF Inv, Enabled, Queued
  <2> QED
    BY <2>1 DEF Inv, Reported
<1> QED
  BY <1>1, InvAlways, PTL

(***************************************************************************)
(* An execution of an acyclic workflow that ends as Completed has reports  *)
(* of all its ids: otherwise the steps left out would each depend on the   *)
(* id of another one of them.                                              *)
(***************************************************************************)
THEOREM CompletedAlwaysRanAll == Spec => []CompletedRanAll
<1>1. Inv => CompletedRanAll
  <2> SUFFICES ASSUME Inv, status = "Completed", Acyclic, NEW t \in Steps
               PROVE  stepStatus[idOf[t]] # "Pending"
    BY DEF CompletedRanAll
  <2>1. AllKnown /\ \A s \in Steps : dependsOn[s] \subseteq completed => idOf[s] \in completed
    BY DEF Inv, Ended
  <2>2. dependsOn \in [Steps -> SUBSET (Keys(Steps) \cup {Unknown})]
        /\ \A s \in Steps : idOf[s] \in Steps /\ idOf[idOf[s]] = idOf[s]
    BY DEF Inv, TypeOK, IsWorkflow
  <2> DEFINE Left == {s \in Steps : idOf[s] \notin completed}
  <2>3. Left = {}
    <3> SUFFICES ASSUME Left # {} PROVE FALSE
      OBVIOUS
    <3>1. PICK s \in Left : dependsOn[s] \cap Keys(Left) = {}
      BY DEF Acyclic
    <3>2. ASSUME NEW d \in dependsOn[s] PROVE d \in completed
      <4>1. PICK u \in Steps : d = idOf[u]
        BY <2>1, <2>2, <3>2 DEF AllKnown, Keys
      <4>2. d \in Steps /\ idOf[d] = d
        BY <2>2, <4>1
      <4>3. d \in Left => d \in Keys(Left)
        BY <4>2 DEF Keys
      <4> QED
        BY <3>1, <3>2, <4>2, <4>3
    <3> QED
      BY <2>1, <3>1, <3>2
  <2> QED
    BY <2>3 DEF Inv, Reported
<1> QED
  BY <1>1, InvAlways, PTL

(***************************************************************************)
(* A step is spawned at most once, as a joined id never returns to the     *)
(* queue and a queued step has no task; and an id at most once unless      *)
(* several steps without dependencies share it.                            *)
(***************************************************************************)
THEOREM AlwaysSpawnedOnce == Spec => SpawnedOnce
<1> DEFINE Alone(s) == /\ task[s] = "none"
                       /\ \A t \in Steps \ {s} : idOf[t] = idOf[s] /\ task[t] # "none" =>
                            dependsOn[s] = {} /\ dependsOn[t] = {}
<1>1. Inv /\ [Next]_vars =>
        [\A s \in Steps : task'[s] = "spawned" /\ task[s] # "spawned" => Alone(s)]_vars
  <2> SUFFICES ASSUME Inv, Next, NEW s \in Steps, task'[s] = "spawned", task[s] # "spawned"
               PROVE  Alone(s)
    OBVIOUS
  <2>0. task \in [Steps -> TaskStates]
    BY DEF Inv, TypeOK
  <2>1. CASE Spawn
    <3>1. s = Head(pending) /\ pending # <<>> /\ pending \in Seq(Steps) /\ IsInjective(pending)
      BY <2>0, <2>1 DEF Spawn, Inv, TypeOK
    <3>2. s \in ToSet(pending)
      BY <3>1, TailSteps
    <3>3. task[s] = "none" /\ s \in Queued
      BY <3>2 DEF Inv, QueuedUnspawned, Queued
    <3>4. \A t \in Steps : task[t] # "none" => t \in Queued
      BY DEF Queued
    <3> QED
      BY <3>3, <3>4 DEF Inv, Repeats
  <2>2. CASE ManagerStep \/ Await \/ Join \/ JoinFails \/ LoopEnds \/ TimeOut
    BY <2>2 DEF ManagerStep, Initialize, SetRunning, Finish, Await, Join, JoinFails, LoopEnds, TimeOut
  <2>3. CASE \E t \in Steps : TaskStep(t)
    <3>1. PICK t \in Steps : TaskStep(t)
      BY <2>3
    <3>2. task'[t] # "spawned" /\ \A r \in Steps \ {t} : task'[r] = task[r]
      <4>1. CASE BeginStep(t)
        BY <2>0, <4>1 DEF BeginStep, TaskGoes
      <4>2. CASE Act(t)
        BY <2>0, <4>2 DEF Act, TaskGoes
      <4>3. CASE Report(t)
        BY <2>0, <4>3 DEF Report
      <4> QED
        BY <3>1, <4>1, <4>2, <4>3 DEF TaskStep
    <3> QED
      BY <3>2
  <2> QED
    BY <2>1, <2>2, <2>3 DEF Next, LoopStep
<1> QED
  BY <1>1, InvAlways, PTL DEF Spec, SpawnedOnce

-----------------------------------------------------------------------------
(***************************************************************************)
(* The types of the parts that record, each with the invariant it needs.   *)
(***************************************************************************)
HistoryLines ==
  /\ log \in Seq(History!Lines)
  /\ \A e \in Executions : recording[e] \in {"emptyLog", "fillLog"} => held[e] \in Seq(History!Lines)

LEMMA OverlaidLines ==
  ASSUME NEW S, NEW new \in Seq(S), NEW old \in Seq(S), History!Garbage \in S,
         NEW q \in History!Overlaid(new, old)
  PROVE  q \in Seq(S)
<1>1. CASE q = new
  BY <1>1
<1>2. ASSUME NEW cut \in {<<>>, <<History!Garbage>>}, NEW i \in 2..(Len(old) + 1),
             q = new \o cut \o SubSeq(old, i, Len(old))
      PROVE  q \in Seq(S)
  <2>1. cut \in Seq(S)
    <3>1. CASE cut = <<>>
      BY <3>1
    <3>2. CASE cut = <<History!Garbage>>
      BY <3>2
    <3> QED
      BY <3>1, <3>2
  <2>2. SubSeq(old, i, Len(old)) \in Seq(S)
    <3>1. i \in Nat \ {0} /\ Len(old) \in Nat
      OBVIOUS
    <3> QED
      BY <3>1
  <2>3. new \o cut \in Seq(S)
    BY <2>1
  <2> QED
    BY <1>2, <2>2, <2>3
<1>3. q = new \/ \E cut \in {<<>>, <<History!Garbage>>}, i \in 2..(Len(old) + 1) :
                  q = new \o cut \o SubSeq(old, i, Len(old))
  <2> DEFINE cuts == {<<>>, <<History!Garbage>>}
             starts == 2..(Len(old) + 1)
             overlaid(cut, i) == new \o cut \o SubSeq(old, i, Len(old))
  <2>1. History!Overlaid(new, old) = {new} \cup {overlaid(cut, i) : cut \in cuts, i \in starts}
    BY DEF History!Overlaid
  <2>2. q = new \/ \E cut \in cuts, i \in starts : q = overlaid(cut, i)
    <3> HIDE DEF cuts, starts, overlaid
    <3> QED
      BY <2>1
  <2> QED
    BY <2>2, Zenon
<1> QED
  BY <1>1, <1>2, <1>3, Zenon

LEMMA HistoryLinesNext ==
  HInv /\ HistoryLines /\ [History!HistoryNext]_(History!historyVars) => HistoryLines'
<1> SUFFICES ASSUME HInv, HistoryLines, [History!HistoryNext]_(History!historyVars)
             PROVE  HistoryLines'
  OBVIOUS
<1>0. /\ recording \in [Executions -> {"new", "emptyLog", "fillLog", "fillRemoved", "readSummary",
                                        "emptySummary", "fillSummary", "done"}]
      /\ held = [e \in Executions |-> held[e]]
      /\ log \in Seq(History!Lines)
      /\ \A e \in Executions : recording[e] \in {"emptyLog", "fillLog"} => held[e] \in Seq(History!Lines)
  BY DEF HInv, HistoryShape, HistoryLines
<1>1. ASSUME NEW e \in Executions, History!ReadLog(e) PROVE HistoryLines'
  <2>1. History!Line(e) \in History!Lines
    BY DEF History!Lines
  <2>2. log \o <<History!Line(e)>> \in Seq(History!Lines)
    BY <1>0, <2>1
  <2> DEFINE kept == log \o <<History!Line(e)>>
  <2>3. /\ log' = log /\ held' = [held EXCEPT ![e] = kept]
        /\ recording' = [recording EXCEPT ![e] = "emptyLog"]
    BY <1>1 DEF History!ReadLog, History!Holds, History!Goes
  <2> HIDE DEF kept
  <2> QED
    BY <1>0, <2>2, <2>3 DEF HistoryLines, kept
<1>2. ASSUME NEW e \in Executions, History!EmptyLog(e) PROVE HistoryLines'
  BY <1>0, <1>2 DEF HistoryLines, History!EmptyLog, History!Goes
<1>3. ASSUME NEW e \in Executions, History!FillLog(e) PROVE HistoryLines'
  <2>1. held[e] \in Seq(History!Lines) /\ log' \in History!Overlaid(held[e], log)
    BY <1>0, <1>3 DEF History!FillLog, History!Goes
  <2>2. History!Garbage \in History!Lines
    BY DEF History!Lines
  <2>3. log' \in Seq(History!Lines)
    BY <1>0, <2>1, <2>2, OverlaidLines
  <2>4. /\ held' = [held EXCEPT ![e] = History!Nothing]
        /\ recording' = [recording EXCEPT ![e] = "readSummary"]
    BY <1>3 DEF History!FillLog, History!Holds, History!Goes
  <2> QED
    BY <1>0, <2>3, <2>4 DEF HistoryLines
<1>4. ASSUME NEW e \in Executions, NEW next \in {"readSummary", "emptySummary", "fillSummary", "done"},
             log' = log, recording' = [recording EXCEPT ![e] = next],
             held' = held \/ \E what : held' = [held EXCEPT ![e] = what]
      PROVE  HistoryLines'
  BY <1>0, <1>4 DEF HistoryLines
<1>5. ASSUME NEW e \in Executions,
             \/ History!FillRemovedLog(e) \/ History!ReadSummary(e) \/ History!EmptySummary(e)
             \/ History!FillSummary(e) \/ History!Stop(e)
      PROVE  HistoryLines'
  BY <1>4, <1>5, Zenon DEF History!FillRemovedLog, History!ReadSummary, History!EmptySummary, History!FillSummary, History!Stop,
     History!Goes, History!Holds
<1>6. CASE History!CleanupOldLogs
  BY <1>0, <1>6 DEF HistoryLines, History!CleanupOldLogs
<1>7. CASE UNCHANGED History!historyVars
  BY <1>0, <1>7 DEF HistoryLines, History!historyVars
<1> QED
  BY <1>1, <1>2, <1>3, <1>5, <1>6, <1>7 DEF History!HistoryNext, History!Record

LEMMA HistoryTyped == HInv /\ HistoryLines => History!HistoryTypeOK
<1>1. HInv => summary \in History!Summaries \cup {History!Unreadable}
  BY DEF HInv, SummariesAddUp, AddsUp
<1> QED
  BY <1>1, Zenon DEF HInv, HistoryShape, HistoryLines, History!HistoryTypeOK

LEMMA HistoryLinesInit == History!HistoryInit => HistoryLines
  BY DEF History!HistoryInit, HistoryLines

-----------------------------------------------------------------------------
LEMMA CountersTyped ==
  ASSUME MInv
  PROVE  /\ counters \in [total : Nat, tokens : Nat, errors : Nat, active : Nat]
         /\ samples \in 0..MaxSamples
<1>1. /\ Counted \in SUBSET Requests /\ Failed \in SUBSET Requests /\ Paid \in SUBSET Requests
      /\ In({"active"}) \in SUBSET Requests
  BY DEF Counted, Failed, In, Paid
<1>2. MetricsShape /\ CountersRight
  BY DEF MInv
<1>3. counters.total \in Nat /\ counters.errors \in Nat /\ counters.active \in Nat
  BY <1>1, <1>2, InFinite DEF CountersRight
<1>4. counters.tokens \in Nat
  <2>1. NatValued(TokensOf, Requests)
    BY <1>2, TokensType
  <2>2. counters.tokens = SumOf(TokensOf, Paid)
    BY <1>2 DEF CountersRight
  <2> QED
    BY <1>1, <2>1, <2>2, SumGrows
<1>5. counters \in [total : Int, tokens : Int, errors : Int, active : Int]
  BY <1>2 DEF MetricsShape, CounterTypes
<1> QED
  BY <1>2, <1>3, <1>4, <1>5 DEF CountersRight

SnapshotTyped ==
  snapshot \in [counters : [total : Nat, tokens : Nat, errors : Nat, active : Nat],
                samples : 0..MaxSamples, models : [Names -> Counts]]

LEMMA SnapshotTypedNext ==
  MInv /\ SnapshotTyped /\ [MetricsNext]_metricsVars => SnapshotTyped'
<1> SUFFICES ASSUME MInv, SnapshotTyped, [MetricsNext]_metricsVars PROVE SnapshotTyped'
  OBVIOUS
<1>0. models \in [Names -> Counts]
  BY DEF MInv, MetricsShape
<1>1. ASSUME NEW r \in Requests, RequestStart(r) \/ Complete(r) PROVE SnapshotTyped'
  <2>1. snapshot' = snapshot
    BY <1>1, Zenon DEF RequestStart, Complete, LeaveActive, CountTotal, CountTokens, RecordLatency,
       CountError, CountModel
  <2> QED
    BY <2>1 DEF SnapshotTyped
<1>2. ASSUME NEW field \in {"total", "tokens", "errors", "active"}, NEW next, Load(field, next)
      PROVE  SnapshotTyped'
  BY <1>2, CountersTyped DEF Load, SnapshotTyped
<1>3. CASE CopyGuarded
  BY <1>0, <1>3, CountersTyped DEF CopyGuarded, SnapshotTyped
<1>4. CASE LockLatencies \/ LockModels \/ UNCHANGED metricsVars
  BY <1>4 DEF LockLatencies, LockModels, metricsVars, SnapshotTyped
<1> QED
  BY <1>1, <1>2, <1>3, <1>4 DEF MetricsNext, Snapshot

LEMMA SnapshotTypedInit == MetricsAssumption /\ MetricsInit => SnapshotTyped
  BY DEF MetricsAssumption, MetricsInit, SnapshotTyped, Zero, Counts

LEMMA MetricsTyped == MInv /\ SnapshotTyped => MetricsTypeOK
  BY CountersTyped DEF MInv, MetricsShape, Stages, SnapshotTyped, MetricsTypeOK

-----------------------------------------------------------------------------
LEMMA MemoryTyped == MemInv => Mem!MemoryTypeOK
  BY DEF MemInv, Entry, Mem!MemoryTypeOK

RestartsTyped == answer \in {"ok", "error"} /\ restarts \in 0..MaxRestarts

LEMMA RestartsTypedNext ==
  WorkerAssumption /\ RestartsTyped /\ [WorkerNext]_workerVars => RestartsTyped'
<1> SUFFICES ASSUME WorkerAssumption, RestartsTyped, [WorkerNext]_workerVars
             PROVE  RestartsTyped'
  OBVIOUS
<1>1. ASSUME NEW from, NEW next, Becomes(from, next) PROVE RestartsTyped'
  BY <1>1 DEF Becomes, RestartsTyped
<1>2. CASE OpenFile \/ FillFile \/ UNCHANGED workerVars
  BY <1>2 DEF OpenFile, FillFile, workerVars, RestartsTyped
<1>3. CASE Restart
  BY <1>3 DEF Restart, RestartsTyped, WorkerAssumption
<1> QED
  BY <1>1, <1>2, <1>3, Zenon DEF WorkerNext, RequireTrust, MarkReady, AcceptPrompt, StartRunning,
     FinishTask, Fail

LEMMA RestartsTypedInit == WorkerAssumption /\ WorkerInit => RestartsTyped
  BY DEF WorkerAssumption, WorkerInit, RestartsTyped

LEMMA WorkerTyped == WInv /\ RestartsTyped => WorkerTypeOK
  BY DEF WInv, RestartsTyped, WorkerTypeOK

-----------------------------------------------------------------------------
\* The totals of messages are natural numbers, because those of each message are.
LEMMA WholeIsRecord ==
  ASSUME Session!SessionAssumption, NEW s, Whole(s)
  PROVE  s \in Session!SessionRecords
<1> DEFINE ms == s.messages
           f == Field(ms, "tokens", DOMAIN ms)
<1>1. /\ s \in [messages : Seq(Session!Message), totalTokens : Int, messageCount : Int]
      /\ s.totalTokens = SumOf(f, DOMAIN ms) /\ s.messageCount = Len(ms)
  BY DEF Whole, Totalled, Total
<1>2. ms \in Seq(Session!Message) /\ Len(ms) \in Nat /\ DOMAIN ms = 1..Len(ms)
  BY <1>1
<1>3. IsFiniteSet(DOMAIN ms)
  BY <1>2, FS_Interval
<1>4. \A k \in DOMAIN ms : ms[k] \in Session!Message /\ ms[k]["tokens"] = ms[k].tokens
  BY <1>2
<1>5. \A m \in Session!Message : m.tokens \in Nat
  <2>1. \A m \in Session!Message : m.tokens \in Tokens
    BY DEF Session!Message
  <2>2. \A t \in Tokens : t \in Nat
    BY DEF Session!SessionAssumption
  <2> QED
    BY <2>1, <2>2, Zenon
<1>6. NatValued(f, DOMAIN ms)
  BY <1>3, <1>4, <1>5 DEF NatValued, Field
<1> HIDE DEF f, ms
<1>7. SumOf(f, DOMAIN ms) \in Nat
  BY <1>6, SumGrows
<1> QED
  BY <1>1, <1>2, <1>7 DEF Session!SessionRecords, ms

SavingTyped == saving \in BOOLEAN

LEMMA SavingTypedNext ==
  SavingTyped /\ [Session!SessionNext]_(Session!sessionVars) => SavingTyped'
<1> SUFFICES ASSUME SavingTyped, [Session!SessionNext]_(Session!sessionVars) PROVE SavingTyped'
  OBVIOUS
<1>1. saving' \in {saving, TRUE, FALSE}
  BY Zenon DEF Session!SessionNext, Session!Create, Session!Fork, Session!Load, Session!Delete,
     Session!AppendMessage, Session!Compact, Session!Pin, Session!BeginSave, Session!EndSave,
     Session!ProcessEnds, Session!Becomes, Session!sessionVars
<1> QED
  BY <1>1, Zenon DEF SavingTyped

LEMMA SessionTyped == SInv /\ SavingTyped => Session!SessionTypeOK
<1> SUFFICES ASSUME SInv, SavingTyped PROVE Session!SessionTypeOK
  OBVIOUS
<1>1. live \in Session!SessionRecords \cup {Session!None}
  BY WholeIsRecord, Zenon DEF SInv
<1>2. \A i \in Ids : stored[i] \in Session!SessionRecords \cup {Session!None, Session!Torn}
  BY WholeIsRecord, Zenon DEF SInv, Sound
<1>3. stored \in [Ids -> Session!SessionRecords \cup {Session!None, Session!Torn}]
  BY <1>2 DEF SInv
<1> QED
  BY <1>1, <1>3, Zenon DEF SInv, SavingTyped, Session!SessionTypeOK

-----------------------------------------------------------------------------
FleetBounds ==
  /\ silence \in [Devices -> -MaxSilence..MaxSilence] /\ sinceCheck \in 0..MaxSilence
  /\ \A d \in deployments : d.inProgress = d.total /\ d.total \in 1..Cardinality(Devices)

LEMMA FleetBoundsNext == FInv /\ FleetBounds /\ [FleetNext]_fleetVars => FleetBounds'
<1> SUFFICES ASSUME FInv, FleetBounds, [FleetNext]_fleetVars PROVE FleetBounds'
  OBVIOUS
<1>0. IsFiniteSet(Devices) /\ MaxSilence \in Nat /\ Cardinality(Devices) \in Nat
  BY FS_CardinalityType DEF FInv, FleetAssumption
<1>1. ASSUME NEW d \in Devices, NEW s, NEW age \in -MaxSilence..MaxSilence, Changed(d, s, age)
      PROVE  FleetBounds'
  BY <1>0, <1>1 DEF Changed, FleetBounds
<1>2. CASE CheckHealth
  BY <1>0, <1>2 DEF CheckHealth, FleetBounds
<1>3. ASSUME NEW targets \in SUBSET Devices, CreateDeployment(targets) PROVE FleetBounds'
  <2>1. targets # {} /\ UNCHANGED <<silence, sinceCheck>>
    BY <1>3 DEF CreateDeployment
  <2>2. Cardinality(targets) \in 1..Cardinality(Devices)
    <3>1. IsFiniteSet(targets) /\ Cardinality(targets) <= Cardinality(Devices)
      BY <1>0, FS_Subset
    <3>2. Cardinality(targets) \in Nat /\ Cardinality(targets) # 0
      BY <2>1, <3>1, FS_CardinalityType, FS_EmptySet
    <3> QED
      BY <1>0, <3>1, <3>2
  <2> DEFINE n == Cardinality(targets)
             id == Cardinality(deployments)
  <2>3. deployments' = deployments \cup {[id |-> id, total |-> n, inProgress |-> n]}
    BY <1>3 DEF CreateDeployment
  <2> HIDE DEF n, id
  <2> QED
    BY <2>1, <2>2, <2>3 DEF FleetBounds, n
<1>4. CASE TimePasses
  BY <1>0, <1>4 DEF TimePasses, Known, FleetBounds
<1>5. CASE UNCHANGED fleetVars
  BY <1>5 DEF fleetVars, FleetBounds
<1> QED
  BY <1>0, <1>1, <1>2, <1>3, <1>4, <1>5 DEF FleetNext, RegisterDevice, RemoveDevice, Heartbeat

LEMMA FleetBoundsInit == FleetAssumption /\ FleetInit => FleetBounds
  BY DEF FleetAssumption, FleetInit, FleetBounds

LEMMA FleetTyped == FInv /\ FleetBounds => FleetTypeOK
  BY DEF FInv, FleetBounds, FleetTypeOK

-----------------------------------------------------------------------------
SwarmBounds ==
  Len(outputs) <= asked /\ consensus \subseteq Swarm!Output /\ Swarm!Cardinality(consensus) <= 1

LEMMA SwarmCounts == \A S : Swarm!Cardinality(S) = Cardinality(S)
  BY DEF Swarm!Cardinality, Cardinality

LEMMA SwarmBoundsNext ==
  Swarm!SwarmAssumption /\ SwInv /\ SwarmBounds /\ [Swarm!SwarmNext]_(Swarm!swarmVars) => SwarmBounds'
<1> SUFFICES ASSUME Swarm!SwarmAssumption, SwInv, SwarmBounds,
                    [Swarm!SwarmNext]_(Swarm!swarmVars)
             PROVE  SwarmBounds'
  OBVIOUS
<1>0. outputs \in Seq(Swarm!Output) /\ asked \in Int /\ Len(outputs) \in Int
  BY DEF SwInv, Swarm!SwarmAssumption
<1>1. CASE Swarm!Answer
  <2>1. asked' = asked + 1 /\ consensus' = consensus /\ \E o : outputs' = Append(outputs, o)
    BY <1>1 DEF Swarm!Answer
  <2>2. Len(outputs') = Len(outputs) + 1
    BY <1>0, <2>1
  <2> QED
    BY <1>0, <2>1, <2>2 DEF SwarmBounds
<1>2. CASE Swarm!FailOrTimeOut
  BY <1>0, <1>2 DEF Swarm!FailOrTimeOut, SwarmBounds
<1>3. CASE Swarm!Decide
  <2>1. UNCHANGED <<asked, outputs>> /\ outputs # <<>>
    BY <1>3 DEF Swarm!Decide
  <2>2. PICK i \in Swarm!select_consensus : consensus' = {outputs[i]}
    BY <1>3 DEF Swarm!Decide
  <2>3. i \in DOMAIN outputs
    BY <2>1, ChosenStands
  <2>4. outputs[i] \in Swarm!Output
    BY <1>0, <2>3
  <2>5. consensus' \subseteq Swarm!Output /\ Cardinality(consensus') = 1
    BY <2>2, <2>4, FS_Singleton
  <2>6. Swarm!Cardinality(consensus') <= 1
    BY <2>5, SwarmCounts
  <2> QED
    BY <2>1, <2>5, <2>6 DEF SwarmBounds
<1>4. CASE UNCHANGED Swarm!swarmVars
  BY <1>4 DEF Swarm!swarmVars, SwarmBounds
<1> QED
  BY <1>1, <1>2, <1>3, <1>4 DEF Swarm!SwarmNext

LEMMA SwarmBoundsInit == Swarm!SwarmInit => SwarmBounds
<1>1. Swarm!Cardinality({}) = 0
  BY SwarmCounts, FS_EmptySet
<1> QED
  BY <1>1 DEF Swarm!SwarmInit, SwarmBounds

LEMMA SwInvInit == Swarm!SwarmAssumption /\ Swarm!SwarmInit => SwInv
  BY DEF Swarm!SwarmInit, SwInv, Swarm!SwarmSound, Swarm!ConsensusStands,
         Swarm!MajorityWins, Swarm!SwarmAssumption

LEMMA SwarmTyped == SwInv /\ SwarmBounds => Swarm!SwarmTypeOK
  BY Zenon DEF SwInv, SwarmBounds, Swarm!SwarmTypeOK

-----------------------------------------------------------------------------
LEMMA TypedText == ASSUME Ui!TerminalAssumption, NEW x, NEW S, Typed(x, S) PROVE x \in Ui!Texts(S)
<1>1. x \in Seq(S) /\ Len(x) <= MaxTyped /\ MaxTyped \in Nat
  BY DEF Typed, Ui!TerminalAssumption
<1>2. x \in [1..Len(x) -> S] /\ Len(x) \in 0..MaxTyped
  BY <1>1
<1> QED
  BY <1>2 DEF Ui!Texts

LEMMA TerminalTyped == TInv => Ui!TerminalTypeOK
<1> SUFFICES ASSUME TInv PROVE Ui!TerminalTypeOK
  OBVIOUS
<1>1. commandInput \in Ui!Texts(Words) /\ input \in Ui!Texts(Ui!Characters)
  BY TypedText, Zenon DEF TInv, Prompt
<1>2. DOMAIN Ui!Tabs = 1..4
  BY DEF Ui!Tabs
<1> QED
  BY <1>1, <1>2, Zenon DEF TInv, Modes, Chatting, Senders, Ui!TerminalTypeOK

-----------------------------------------------------------------------------
(***************************************************************************)
(* The parts together.  A step of one leaves the others alone, so that     *)
(* every part behaves as it does on its own.                               *)
(***************************************************************************)
LEMMA StaysWorkflow == Stays("workflow") => UNCHANGED vars
  BY DEF Stays
LEMMA StaysHistory == Stays("history") => UNCHANGED historyVars
  BY DEF Stays
LEMMA StaysMetrics == Stays("metrics") => UNCHANGED metricsVars
  BY DEF Stays
LEMMA StaysMemory == Stays("memory") => UNCHANGED entries
  BY DEF Stays
LEMMA StaysChats == Stays("chats") => UNCHANGED chatVars
  BY DEF Stays
LEMMA StaysWorker == Stays("worker") => UNCHANGED workerVars
  BY DEF Stays
LEMMA StaysSessions == Stays("sessions") => UNCHANGED sessionVars
  BY DEF Stays
LEMMA StaysFleet == Stays("fleet") => UNCHANGED fleetVars
  BY DEF Stays
LEMMA StaysSwarm == Stays("swarm") => UNCHANGED swarmVars
  BY DEF Stays
LEMMA StaysTerminal == Stays("terminal") => UNCHANGED uiVars
  BY DEF Stays

LEMMA StepOfParts ==
  ASSUME [ActivityNext]_mcVars
  PROVE  /\ [Next]_vars /\ [History!HistoryNext]_(History!historyVars) /\ [MetricsNext]_metricsVars
         /\ [Mem!MemoryNext]_entries /\ [Chats!ChatNext]_(Chats!chatVars) /\ [WorkerNext]_workerVars
         /\ [Session!SessionNext]_(Session!sessionVars) /\ [FleetNext]_fleetVars
         /\ [Swarm!SwarmNext]_(Swarm!swarmVars) /\ [Ui!TerminalNext]_(Ui!uiVars)
<1>1. /\ historyVars = History!historyVars /\ chatVars = Chats!chatVars
      /\ sessionVars = Session!sessionVars /\ swarmVars = Swarm!swarmVars /\ uiVars = Ui!uiVars
      /\ historyVars' = (History!historyVars)' /\ chatVars' = (Chats!chatVars)'
      /\ sessionVars' = (Session!sessionVars)' /\ swarmVars' = (Swarm!swarmVars)'
      /\ uiVars' = (Ui!uiVars)'
  BY DEF historyVars, History!historyVars, chatVars, Chats!chatVars, sessionVars,
         Session!sessionVars, swarmVars, Swarm!swarmVars, uiVars, Ui!uiVars
<1> DEFINE Moves(p) ==
             CASE p = "workflow" -> Next
               [] p = "history"  -> History!HistoryNext
               [] p = "metrics"  -> MetricsNext
               [] p = "memory"   -> Mem!MemoryNext
               [] p = "chats"    -> Chats!ChatNext
               [] p = "worker"   -> WorkerNext
               [] p = "sessions" -> Session!SessionNext
               [] p = "fleet"    -> FleetNext
               [] p = "swarm"    -> Swarm!SwarmNext
               [] p = "terminal" -> Ui!TerminalNext
<1>2. CASE UNCHANGED mcVars
  BY <1>1, <1>2, Zenon DEF mcVars
<1>3. CASE ActivityNext
  <2>1. PICK p \in PartNames : Moves(p) /\ \A q \in PartNames \ {p} : Stays(q)
    BY <1>3, Zenon DEF ActivityNext, Of, PartNames
  <2>2. \A q \in PartNames : Moves(q) \/ Stays(q)
    BY <2>1
  <2>3. /\ Moves("workflow") \/ Stays("workflow")
        /\ Moves("history") \/ Stays("history")
        /\ Moves("metrics") \/ Stays("metrics")
        /\ Moves("memory") \/ Stays("memory")
        /\ Moves("chats") \/ Stays("chats")
        /\ Moves("worker") \/ Stays("worker")
        /\ Moves("sessions") \/ Stays("sessions")
        /\ Moves("fleet") \/ Stays("fleet")
        /\ Moves("swarm") \/ Stays("swarm")
        /\ Moves("terminal") \/ Stays("terminal")
    <3> HIDE DEF Moves
    <3> QED
      BY <2>2, Zenon DEF PartNames
  <2> QED
    BY <1>1, <2>3, StaysWorkflow, StaysHistory, StaysMetrics, StaysMemory, StaysChats, StaysWorker,
       StaysSessions, StaysFleet, StaysSwarm, StaysTerminal
<1> QED
  BY <1>2, <1>3

\* Composing the parts adds nothing to what each of them does: the composition
\* implements every part (their state is not shared, see the head of Activity).
THEOREM ActivitiesBehaveAsAlone ==
  FairActivity =>
    /\ Spec /\ History!HistorySpec /\ MetricsSpec /\ Mem!MemorySpec /\ Chats!ChatSpec
    /\ WorkerSpec /\ Session!SessionSpec /\ FleetSpec /\ Swarm!SwarmSpec /\ Ui!TerminalSpec
<1>1. ActivityInit =>
        /\ Init /\ History!HistoryInit /\ MetricsInit /\ Mem!MemoryInit /\ Chats!ChatInit
        /\ WorkerInit /\ Session!SessionInit /\ FleetInit /\ Swarm!SwarmInit /\ Ui!TerminalInit
  BY Zenon DEF ActivityInit
<1> QED
  BY <1>1, StepOfParts, PTL DEF FairActivity, Spec, History!HistorySpec, MetricsSpec, Mem!MemorySpec,
     Chats!ChatSpec, WorkerSpec, Session!SessionSpec, FleetSpec, Swarm!SwarmSpec, Ui!TerminalSpec

\* Every value keeps to its type, whatever the parts do: the queue of an execution and
\* its tasks (workflow/executor.rs), the files of the history, the counters and what is
\* read of them, conversations, sessions, devices, outputs and what a user typed.
THEOREM ActivityTypesAlwaysOK == FairActivity => []TypesOK
<1> DEFINE Held  == /\ Inv /\ HInv /\ HistoryLines /\ MInv /\ SnapshotTyped /\ MemInv
                    /\ Chats!ChatTypeOK
           Shown == /\ WInv /\ RestartsTyped /\ SInv /\ SavingTyped /\ FInv /\ FleetBounds
                    /\ SwInv /\ SwarmBounds /\ TInv
<1>0. /\ History!HistoryAssumption /\ MetricsAssumption /\ Mem!MemoryAssumption
      /\ Chats!ChatAssumption /\ WorkerAssumption /\ Session!SessionAssumption
      /\ FleetAssumption /\ Swarm!SwarmAssumption /\ Ui!TerminalAssumption
  BY ActivityAssumption
<1>1. ActivityInit => Held
  <2> SUFFICES ASSUME ActivityInit PROVE Held
    OBVIOUS
  <2>1. Init /\ History!HistoryInit /\ MetricsInit /\ Mem!MemoryInit /\ Chats!ChatInit
    BY Zenon DEF ActivityInit
  <2>2. MemInv
    <3>1. entries = <<>> /\ <<>> \in Seq(Entry) /\ Len(<<>>) = 0 /\ Bound \in Nat
      BY <1>0, <2>1 DEF Mem!MemoryInit, Bound, Mem!MemoryAssumption
    <3> QED
      BY <3>1, NothingSaid DEF MemInv
  <2>3. Chats!ChatTypeOK
    BY <2>1 DEF Chats!ChatInit, Chats!ChatTypeOK
  <2> QED
    BY <1>0, <2>1, <2>2, <2>3, InvInit, HInvInit, HistoryLinesInit, MInvInit, SnapshotTypedInit, Zenon
<1>2. ActivityInit => Shown
  <2> SUFFICES ASSUME ActivityInit PROVE Shown
    OBVIOUS
  <2>1. /\ WorkerInit /\ Session!SessionInit /\ FleetInit /\ Swarm!SwarmInit
        /\ Ui!TerminalInit
    BY Zenon DEF ActivityInit
  <2>2. WInv
    BY <2>1 DEF WorkerInit, WInv, LoadState, Spawning, States, Missing, Torn, At
  <2>3. SInv /\ SavingTyped
    BY <1>0, <2>1 DEF Session!SessionInit, SInv, Sound, SavingTyped
  <2>4. FInv
    BY <1>0, <2>1 DEF FleetInit, FInv, OnlineWasHeard, FleetAssumption, Known
  <2> QED
    BY <1>0, <2>1, <2>2, <2>3, <2>4, RestartsTypedInit, FleetBoundsInit, SwInvInit, SwarmBoundsInit,
       TInvInit, Zenon
<1>3. Held /\ [ActivityNext]_mcVars => Held'
  <2> SUFFICES ASSUME Held, [ActivityNext]_mcVars PROVE Held'
    OBVIOUS
  <2>1. /\ [Next]_vars /\ [History!HistoryNext]_(History!historyVars) /\ [MetricsNext]_metricsVars
        /\ [Mem!MemoryNext]_entries /\ [Chats!ChatNext]_(Chats!chatVars)
    BY StepOfParts
  <2> QED
    BY <1>0, <2>1, InvNext, HInvNext, HistoryLinesNext, MInvNext, SnapshotTypedNext, MemInvNext,
       ChatStepIsSaid, Zenon
<1>4. Shown /\ [ActivityNext]_mcVars => Shown'
  <2> SUFFICES ASSUME Shown, [ActivityNext]_mcVars PROVE Shown'
    OBVIOUS
  <2>1. /\ [WorkerNext]_workerVars /\ [Session!SessionNext]_(Session!sessionVars)
        /\ [FleetNext]_fleetVars /\ [Swarm!SwarmNext]_(Swarm!swarmVars)
        /\ [Ui!TerminalNext]_(Ui!uiVars)
    BY StepOfParts
  <2> QED
    BY <1>0, <2>1, WInvNext, RestartsTypedNext, SInvNext, SavingTypedNext, FInvNext, FleetBoundsNext,
       SwInvNext, SwarmBoundsNext, TInvNext, Zenon
<1>5. Held /\ Shown => TypesOK
  <2>1. Inv => TypeOK
    BY DEF Inv
  <2> QED
    BY <2>1, HistoryTyped, MetricsTyped, MemoryTyped, WorkerTyped, SessionTyped, FleetTyped,
       SwarmTyped, TerminalTyped, Zenon DEF TypesOK
<1> HIDE DEF Held, Shown
<1> QED
  BY <1>1, <1>2, <1>3, <1>4, <1>5, PTL DEF FairActivity

\* What is promised of the parts holds of them together: dependencies come first, a
\* workflow reported as Completed ran all of it, an id is spawned once unless steps
\* without dependencies share it, records add up, what is stored and shown is sound,
\* and conversations keep their window.
THEOREM ActivityAlwaysSafe ==
  FairActivity =>
    /\ [](DependenciesReportedFirst /\ CompletedRanAll /\ RecordsAddUp /\ OnlineWasHeard)
    /\ [](StoredIsSound /\ ShownIsSound)
    /\ SpawnedOnce /\ ImplementsWindow
<1>1. Spec => []DependenciesReportedFirst /\ []CompletedRanAll /\ SpawnedOnce
  BY DependenciesAlwaysReported, CompletedAlwaysRanAll, AlwaysSpawnedOnce
<1>2. History!HistorySpec /\ MetricsSpec => []RecordsAddUp
  BY ActivityAssumption, RecordsAlwaysAddUp
<1>3. FleetSpec => []OnlineWasHeard
  BY ActivityAssumption, OnlineAlwaysHeard
<1>4. WorkerSpec /\ Session!SessionSpec => []StoredIsSound
  BY ActivityAssumption, StoredAlwaysSound
<1>5. Swarm!SwarmSpec /\ Ui!TerminalSpec => []ShownIsSound
  BY ActivityAssumption, ShownAlwaysSound
<1>6. Mem!MemorySpec /\ Chats!ChatSpec => ImplementsWindow
  BY ActivityAssumption, StoresKeepWindow
<1> QED
  BY <1>1, <1>2, <1>3, <1>4, <1>5, <1>6, ActivitiesBehaveAsAlone, PTL
=============================================================================
