--------------------------- MODULE Serving_proofs ---------------------------
(***************************************************************************)
(* What holds of the two queues between the server and a backend: of the   *)
(* request queue for every set of clients, workers and models, every       *)
(* configuration and every number of concurrent callers, and of the        *)
(* batching coordinator for every set of callers, batch size and number of *)
(* permits.                                                                *)
(***************************************************************************)
EXTENDS Serving, DataTheorems

USE QueueAssumption DEF QueueAssumption

WorkPlaces == {"idle", "acquire", "count", "countStat", "running", "uncount", "uncountStat"}

\* The part of QTypeOK the arguments need.  A job is not said to name a model
\* here: that would need where each request is.
QTyped ==
  /\ config \in Configs
  /\ total \in Int
  /\ active \in [Models -> Nat]
  /\ statActive \in Nat
  /\ pc \in [Clients -> {"idle", "push", "waiting"}]
  /\ work \in [Workers -> WorkPlaces]
  /\ job = [w \in Workers |-> job[w]]

LEMMA QTypedInit == QInit => QTyped
  BY DEF QInit, QTyped, WorkPlaces

\* What an update keeps of a table of counts, whatever the key, and of a function
\* whose values are not constrained.
LEMMA CountUpdated ==
  ASSUME NEW f \in [Models -> Nat], NEW m, NEW n, m \in Models => n \in Nat
  PROVE  [f EXCEPT ![m] = n] \in [Models -> Nat]
  OBVIOUS

LEMMA JobUpdated ==
  ASSUME NEW f, f = [w \in Workers |-> f[w]], NEW v, NEW x,
         NEW g, g = [f EXCEPT ![v] = x]
  PROVE  g = [w \in Workers |-> g[w]]
  OBVIOUS

LEMMA QTypedNext == QTyped /\ [QNext]_qVars => QTyped'
<1> SUFFICES ASSUME QTyped, [QNext]_qVars PROVE QTyped'
  OBVIOUS
<1> USE DEF QTyped, ClientGoes, WorkerGoes, WorkPlaces, Saturating, clientVars, workerVars
<1>1. ASSUME NEW c \in Clients, Push(c) PROVE QTyped'
  BY <1>1 DEF Push
<1>2. ASSUME NEW c \in Clients, NEW r \in Request, CheckCapacity(c, r) PROVE QTyped'
  BY <1>2 DEF CheckCapacity
<1>3. ASSUME NEW w \in Workers, NEW p \in Priorities, Pop(w, p) PROVE QTyped'
  <2>1. job' = [v \in Workers |-> job'[v]]
    BY <1>3, JobUpdated DEF Pop
  <2> QED
    BY <1>3, <2>1 DEF Pop
<1>4. ASSUME NEW w \in Workers, Acquire(w) PROVE QTyped'
  BY <1>4 DEF Acquire
<1>5. ASSUME NEW w \in Workers, Count(w) PROVE QTyped'
  <2>1. active' \in [Models -> Nat]
    BY <1>5, CountUpdated DEF Count
  <2> QED
    BY <1>5, <2>1 DEF Count
<1>6. ASSUME NEW w \in Workers, CountStat(w) PROVE QTyped'
  BY <1>6 DEF CountStat
<1>7. ASSUME NEW w \in Workers, Respond(w) PROVE QTyped'
  BY <1>7 DEF Respond
<1>8. ASSUME NEW w \in Workers, Uncount(w) PROVE QTyped'
  <2>1. job[w].model \in Models => Saturating(active[job[w].model]) \in Nat
    OBVIOUS
  <2>2. active' \in [Models -> Nat]
    BY <1>8, <2>1, CountUpdated DEF Uncount
  <2> QED
    BY <1>8, <2>2 DEF Uncount
<1>9. ASSUME NEW w \in Workers, UncountStat(w) PROVE QTyped'
  BY <1>9 DEF UncountStat
<1>10. CASE UNCHANGED qVars
  BY <1>10 DEF qVars
<1> QED
  BY <1>1, <1>2, <1>3, <1>4, <1>5, <1>6, <1>7, <1>8, <1>9, <1>10 DEF QNext, WorkerStep

-----------------------------------------------------------------------------
LEMMA PushingIsFinite ==
  /\ IsFiniteSet(Pushing) /\ Cardinality(Pushing) \in Nat
  /\ IsFiniteSet(Pushing') /\ Cardinality(Pushing') \in Nat
<1>1. Pushing \in SUBSET Clients /\ Pushing' \in SUBSET Clients
  BY DEF Pushing
<1> QED
  BY <1>1, FS_Subset, FS_CardinalityType

\* A step that queues nothing and lets no call pass the check keeps the bound.
LEMMA QueueOvershootFrame ==
  ASSUME QTyped, QTyped', QueueOvershootBounded,
         config' = config, total' <= total, Pushing' \subseteq Pushing
  PROVE  QueueOvershootBounded'
<1>1. Cardinality(Pushing') <= Cardinality(Pushing)
  BY PushingIsFinite, FS_Subset
<1>2. config.max_size \in Nat
  BY DEF QTyped
<1> QED
  BY <1>1, <1>2, PushingIsFinite DEF QueueOvershootBounded, QTyped

\* At most MaxCallers calls are inside queue_request when the check reads a
\* length below the limit; a push turns one such call into one queued request.
LEMMA QueueOvershootNext ==
  QTyped /\ QTyped' /\ QueueOvershootBounded /\ [QNext]_qVars => QueueOvershootBounded'
<1> SUFFICES ASSUME QTyped, QTyped', QueueOvershootBounded, [QNext]_qVars
             PROVE  QueueOvershootBounded'
  OBVIOUS
<1> USE DEF QTyped, clientVars, workerVars
<1>1. ASSUME NEW c \in Clients, Push(c) PROVE QueueOvershootBounded'
  <2>1. Pushing' = Pushing \ {c} /\ c \in Pushing
    BY <1>1 DEF Push, ClientGoes, Pushing
  <2>2. Cardinality(Pushing') = Cardinality(Pushing) - 1
    BY <2>1, PushingIsFinite, FS_RemoveElement
  <2>3. config' = config /\ total' = total + 1 /\ config.max_size \in Nat
    BY <1>1 DEF Push
  <2> QED
    BY <2>2, <2>3, PushingIsFinite DEF QueueOvershootBounded
<1>2. ASSUME NEW c \in Clients, NEW r \in Request, CheckCapacity(c, r)
      PROVE  QueueOvershootBounded'
  <2>1. Pushing' = Pushing \cup {c} /\ c \notin Pushing
    BY <1>2 DEF CheckCapacity, ClientGoes, Pushing
  <2>2. Cardinality(Pushing') = Cardinality(Pushing) + 1
    BY <2>1, PushingIsFinite, FS_AddElement
  <2>3. /\ config' = config /\ total' = total /\ config.max_size \in Nat
        /\ Cardinality(Pushing) < MaxCallers /\ total < config.max_size
    BY <1>2 DEF CheckCapacity
  <2> QED
    BY <2>2, <2>3, PushingIsFinite DEF QueueOvershootBounded
<1>3. ASSUME NEW w \in Workers, NEW p \in Priorities, Pop(w, p)
      PROVE  QueueOvershootBounded'
  BY <1>3, QueueOvershootFrame DEF Pop, Pushing
<1>4. ASSUME NEW w \in Workers, WorkerStep(w) PROVE QueueOvershootBounded'
  <2>1. config' = config /\ total' = total
    BY <1>4 DEF WorkerStep, Acquire, Count, CountStat, Respond, Uncount, UncountStat
  <2>2. Pushing' \subseteq Pushing
    BY <1>4 DEF WorkerStep, Acquire, Count, CountStat, Respond, Uncount, UncountStat, Pushing
  <2> QED
    BY <2>1, <2>2, QueueOvershootFrame
<1>5. CASE UNCHANGED qVars
  BY <1>5, QueueOvershootFrame DEF qVars, Pushing
<1> QED
  BY <1>1, <1>2, <1>3, <1>4, <1>5 DEF QNext

\* queue_request reads the length under one acquisition of the lock and pushes
\* under another, so that max_size is exceeded, but never by more requests than
\* there are other threads inside queue_request.
THEOREM QueueOvershootAlwaysBounded == QSpec => []QueueOvershootBounded
<1>1. QInit => QueueOvershootBounded
  <2> SUFFICES ASSUME QInit PROVE QueueOvershootBounded
    OBVIOUS
  <2>1. Pushing = {} /\ total = 0 /\ config \in Configs
    BY DEF QInit, Pushing
  <2> QED
    BY <2>1, FS_EmptySet DEF QueueOvershootBounded
<1> QED
  BY <1>1, QTypedInit, QTypedNext, QueueOvershootNext, PTL DEF QSpec

-----------------------------------------------------------------------------
\* The workers each of the two counters counts.
InModel(m) == {w \in Workers : work[w] \in {"countStat", "running", "uncount"}
                               /\ job[w].model = m}
InStat     == {w \in Workers : work[w] \in {"running", "uncount", "uncountStat"}}

LEMMA InSetsAreFinite ==
  /\ IsFiniteSet(InStat) /\ Cardinality(InStat) \in Nat
  /\ \A m \in Models : IsFiniteSet(InModel(m)) /\ Cardinality(InModel(m)) \in Nat
<1>1. InStat \in SUBSET Workers /\ \A m : InModel(m) \in SUBSET Workers
  BY DEF InStat, InModel
<1> QED
  BY <1>1, FS_Subset, FS_CardinalityType

\* The two halves of ActiveCountsWorkers.
ModelCounted == \A m \in Models : active[m] = Cardinality(InModel(m))
StatCounted  == statActive = Cardinality(InStat)

LEMMA ActiveCountsIsBoth == ActiveCountsWorkers <=> ModelCounted /\ StatCounted
  BY DEF ActiveCountsWorkers, ModelCounted, StatCounted, InModel, InStat

\* The entry of a model goes up and down with the workers between mark_started's
\* first increment and mark_completed's first decrement.
LEMMA ModelCountedNext ==
  QTyped /\ QTyped' /\ ModelCounted /\ [QNext]_qVars => ModelCounted'
<1> SUFFICES ASSUME QTyped, ModelCounted, [QNext]_qVars, NEW m \in Models
             PROVE  active'[m] = Cardinality(InModel(m)')
  BY DEF ModelCounted
<1> USE DEF QTyped, clientVars, workerVars
<1>0. /\ active[m] = Cardinality(InModel(m)) /\ active[m] \in Nat
      /\ IsFiniteSet(InModel(m))
  BY InSetsAreFinite DEF ModelCounted
<1>1. ASSUME active' = active, InModel(m)' = InModel(m)
      PROVE  active'[m] = Cardinality(InModel(m)')
  BY <1>0, <1>1
<1>2. ASSUME NEW c \in Clients, Push(c) \/ \E r \in Request : CheckCapacity(c, r)
      PROVE  active'[m] = Cardinality(InModel(m)')
  BY <1>1, <1>2 DEF Push, CheckCapacity, InModel
<1>3. ASSUME NEW w \in Workers, NEW p \in Priorities, Pop(w, p)
      PROVE  active'[m] = Cardinality(InModel(m)')
  BY <1>1, <1>3 DEF Pop, WorkerGoes, InModel
<1>4. ASSUME NEW w \in Workers, Acquire(w) \/ CountStat(w) \/ Respond(w) \/ UncountStat(w)
      PROVE  active'[m] = Cardinality(InModel(m)')
  BY <1>1, <1>4 DEF Acquire, CountStat, Respond, UncountStat, WorkerGoes, InModel
<1>5. ASSUME NEW w \in Workers, Count(w) PROVE active'[m] = Cardinality(InModel(m)')
  <2>1. CASE job[w].model # m
    BY <2>1, <1>0, <1>5 DEF Count, WorkerGoes, InModel
  <2>2. CASE job[w].model = m
    <3>1. InModel(m)' = InModel(m) \cup {w} /\ w \notin InModel(m)
      BY <2>2, <1>5 DEF Count, WorkerGoes, InModel
    <3>2. active'[m] = active[m] + 1
      BY <2>2, <1>5 DEF Count
    <3> QED
      BY <3>1, <3>2, <1>0, FS_AddElement, ZenonT(30)
  <2> QED
    BY <2>1, <2>2
<1>6. ASSUME NEW w \in Workers, Uncount(w) PROVE active'[m] = Cardinality(InModel(m)')
  <2>1. CASE job[w].model # m
    BY <2>1, <1>0, <1>6 DEF Uncount, WorkerGoes, InModel
  <2>2. CASE job[w].model = m
    <3>1. InModel(m)' = InModel(m) \ {w} /\ w \in InModel(m)
      BY <2>2, <1>6 DEF Uncount, WorkerGoes, InModel
    <3>2. /\ Cardinality(InModel(m)') = Cardinality(InModel(m)) - 1
          /\ Cardinality(InModel(m)') \in Nat
      BY <3>1, <1>0, FS_RemoveElement, FS_CardinalityType
    <3>3. active'[m] = Saturating(active[m])
      BY <2>2, <1>6 DEF Uncount
    <3> QED
      BY <3>2, <3>3, <1>0 DEF Saturating
  <2> QED
    BY <2>1, <2>2
<1>7. CASE UNCHANGED qVars
  BY <1>1, <1>7 DEF qVars, InModel
<1> QED
  BY <1>2, <1>3, <1>4, <1>5, <1>6, <1>7 DEF QNext, WorkerStep

\* The total goes up and down with the workers between the second increment and
\* the second decrement.
LEMMA StatCountedNext ==
  QTyped /\ StatCounted /\ [QNext]_qVars => StatCounted'
<1> SUFFICES ASSUME QTyped, StatCounted, [QNext]_qVars PROVE StatCounted'
  OBVIOUS
<1> USE DEF QTyped, StatCounted, clientVars, workerVars
<1>1. ASSUME statActive' = statActive, InStat' = InStat PROVE StatCounted'
  BY <1>1
<1>2. ASSUME NEW c \in Clients, Push(c) \/ \E r \in Request : CheckCapacity(c, r)
      PROVE  StatCounted'
  BY <1>1, <1>2 DEF Push, CheckCapacity, InStat
<1>3. ASSUME NEW w \in Workers, NEW p \in Priorities, Pop(w, p) PROVE StatCounted'
  BY <1>1, <1>3 DEF Pop, WorkerGoes, InStat
<1>4. ASSUME NEW w \in Workers, Acquire(w) \/ Count(w) \/ Respond(w) \/ Uncount(w)
      PROVE  StatCounted'
  BY <1>1, <1>4 DEF Acquire, Count, Respond, Uncount, WorkerGoes, InStat
<1>5. ASSUME NEW w \in Workers, CountStat(w) PROVE StatCounted'
  <2>1. InStat' = InStat \cup {w} /\ w \notin InStat /\ statActive' = statActive + 1
    BY <1>5 DEF CountStat, WorkerGoes, InStat
  <2> QED
    BY <2>1, InSetsAreFinite, FS_AddElement
<1>6. ASSUME NEW w \in Workers, UncountStat(w) PROVE StatCounted'
  <2>1. InStat' = InStat \ {w} /\ w \in InStat /\ statActive' = Saturating(statActive)
    BY <1>6 DEF UncountStat, WorkerGoes, InStat
  <2>2. Cardinality(InStat') = Cardinality(InStat) - 1 /\ Cardinality(InStat') \in Nat
    BY <2>1, InSetsAreFinite, FS_RemoveElement, FS_CardinalityType
  <2> QED
    BY <2>1, <2>2, InSetsAreFinite DEF Saturating
<1>7. CASE UNCHANGED qVars
  BY <1>1, <1>7 DEF qVars, InStat
<1> QED
  BY <1>2, <1>3, <1>4, <1>5, <1>6, <1>7 DEF QNext, WorkerStep

\* The two counts of active requests, kept under locks of their own, never drift
\* apart: whatever the workers do in between, the saturating decrements take
\* back exactly what was added.
THEOREM ActiveAlwaysCountsWorkers == QSpec => []ActiveCountsWorkers
<1>1. QInit => ModelCounted /\ StatCounted
  <2> SUFFICES ASSUME QInit PROVE ModelCounted /\ StatCounted
    OBVIOUS
  <2>1. InStat = {} /\ \A m \in Models : InModel(m) = {}
    BY DEF QInit, InStat, InModel
  <2> QED
    BY <2>1, FS_EmptySet DEF QInit, ModelCounted, StatCounted
<1> QED
  BY <1>1, QTypedInit, QTypedNext, ModelCountedNext, StatCountedNext, ActiveCountsIsBoth,
     PTL DEF QSpec

HIDE QueueAssumption

-----------------------------------------------------------------------------
(***************************************************************************)
(* The queue implements PriorityFifo.  A client stands in one place of one *)
(* queue, it waits there, and the client a worker serves stands nowhere.   *)
(***************************************************************************)
Busy == {"acquire", "count", "countStat", "running"}

Stands(c) == \E p \in Priorities : \E i \in DOMAIN queues[p] : queues[p][i] = c

QueuesOnce ==
  \A p, q \in Priorities : \A i \in DOMAIN queues[p], j \in DOMAIN queues[q] :
    queues[p][i] = queues[q][j] => p = q /\ i = j

QueuedWait == \A p \in Priorities : \A i \in DOMAIN queues[p] : pc[queues[p][i]] = "waiting"

ServedWait ==
  \A w \in Workers : work[w] \in Busy =>
    /\ job[w].client \in Clients /\ pc[job[w].client] = "waiting"
    /\ ~Stands(job[w].client)
    /\ \A v \in Workers : work[v] \in Busy /\ job[v].client = job[w].client => v = w

FifoInv ==
  /\ QTyped
  /\ queues \in [Priorities -> Seq(Clients)]
  /\ request = [c \in Clients |-> request[c]]
  /\ \A c \in Clients : pc[c] = "push" => request[c].prio \in Priorities
  /\ QueuesOnce /\ QueuedWait /\ ServedWait

\* The refinement mapping as a function of the queues.
In(qs, c) == \E p \in Priorities : \E i \in DOMAIN qs[p] : qs[p][i] = c

UnderIn(qs, c) ==
  IF In(qs, c) THEN CHOOSE p \in Priorities : \E i \in DOMAIN qs[p] : qs[p][i] = c ELSE -1

BeforeIn(qs, c) ==
  {d \in Clients : \E p \in Priorities : \E i, j \in DOMAIN qs[p] :
                     i < j /\ qs[p][i] = d /\ qs[p][j] = c}

OnceIn(qs) ==
  /\ qs \in [Priorities -> Seq(Clients)]
  /\ \A p, q \in Priorities : \A i \in DOMAIN qs[p], j \in DOMAIN qs[q] :
       qs[p][i] = qs[q][j] => p = q /\ i = j

FrontOf(qs, p, i) == {qs[p][j] : j \in {k \in DOMAIN qs[p] : k < i}}

LEMMA MapsQueues ==
  queues \in [Priorities -> Seq(Clients)] =>
    /\ WaitingUnder = [c \in Clients |-> UnderIn(queues, c)]
    /\ QueuedBefore = [c \in Clients |-> BeforeIn(queues, c)]
<1> SUFFICES ASSUME queues \in [Priorities -> Seq(Clients)]
             PROVE  /\ WaitingUnder = [c \in Clients |-> UnderIn(queues, c)]
                    /\ QueuedBefore = [c \in Clients |-> BeforeIn(queues, c)]
  OBVIOUS
<1>1. \A d : d \in Queued <=> In(queues, d)
  BY DEF Queued, In
<1>2. \A p \in Priorities : \A i \in DOMAIN queues[p] : queues[p][i] \in Clients
  OBVIOUS
<1>3. ASSUME NEW c \in Clients PROVE QueuedBefore[c] = BeforeIn(queues, c)
  <2>1. \A d : d \in QueuedBefore[c] <=> d \in BeforeIn(queues, c)
    BY <1>1, <1>2 DEF QueuedBefore, BeforeIn, In
  <2>2. /\ QueuedBefore[c] = {d \in QueuedBefore[c] : TRUE}
        /\ BeforeIn(queues, c) = {d \in BeforeIn(queues, c) : TRUE}
    BY DEF QueuedBefore, BeforeIn
  <2> QED
    BY <2>1, <2>2
<1>4. QueuedBefore = [c \in Clients |-> QueuedBefore[c]]
  BY DEF QueuedBefore
<1>5. QueuedBefore = [c \in Clients |-> BeforeIn(queues, c)]
  BY <1>3, <1>4
<1> QED
  BY <1>1, <1>5 DEF WaitingUnder, UnderIn

LEMMA WhereItStands ==
  ASSUME NEW qs, OnceIn(qs), NEW p \in Priorities, NEW i \in DOMAIN qs[p]
  PROVE  /\ UnderIn(qs, qs[p][i]) = p
         /\ BeforeIn(qs, qs[p][i]) = FrontOf(qs, p, i)
<1> DEFINE c == qs[p][i]
<1>1. In(qs, c) /\ \A q \in Priorities : \A j \in DOMAIN qs[q] : qs[q][j] = c => q = p /\ j = i
  BY DEF In, OnceIn
<1>2. \A q \in Priorities : \A j \in DOMAIN qs[q] : qs[q][j] \in Clients
  BY DEF OnceIn
<1> HIDE DEF c
<1>3. qs[p][i] = c
  BY DEF c
<1>4. UnderIn(qs, c) = p
  BY <1>1, <1>3 DEF UnderIn
<1>5. \A d : d \in BeforeIn(qs, c) <=> \E j \in DOMAIN qs[p] : j < i /\ d = qs[p][j]
  BY <1>1, <1>2, <1>3 DEF BeforeIn
<1> QED
  BY <1>3, <1>4, <1>5 DEF FrontOf

LEMMA WhereNot ==
  ASSUME NEW qs, NEW c, ~In(qs, c) PROVE UnderIn(qs, c) = -1 /\ BeforeIn(qs, c) = {}
  BY DEF UnderIn, BeforeIn, In

\* A step that leaves the queues and lets no worker begin.
LEMMA QueuesFrame ==
  ASSUME FifoInv, QTyped', UNCHANGED <<queues, job>>,
         \A w \in Workers : work'[w] \in Busy => work[w] \in Busy,
         \A c \in Clients : pc[c] = "waiting" => pc'[c] = "waiting",
         request' = [c \in Clients |-> request'[c]],
         \A c \in Clients : pc'[c] = "push" => request'[c].prio \in Priorities
  PROVE  FifoInv'
<1>1. \A c : Stands(c)' <=> Stands(c)
  BY DEF Stands
<1>2. QueuesOnce' /\ QueuedWait'
  BY DEF FifoInv, QueuesOnce, QueuedWait
<1>3. ServedWait'
  BY <1>1 DEF FifoInv, ServedWait, Stands
<1> QED
  BY <1>2, <1>3 DEF FifoInv

LEMMA PushPlaces ==
  ASSUME FifoInv, NEW c \in Clients, Push(c)
  PROVE  /\ request[c].prio \in Priorities /\ pc[c] = "push" /\ ~Stands(c)
         /\ queues' \in [Priorities -> Seq(Clients)]
         /\ \A q \in Priorities : q # request[c].prio => queues'[q] = queues[q]
         /\ DOMAIN queues'[request[c].prio] =
              DOMAIN queues[request[c].prio] \cup {Len(queues[request[c].prio]) + 1}
         /\ Len(queues[request[c].prio]) \in Nat
         /\ DOMAIN queues[request[c].prio] = 1..Len(queues[request[c].prio])
         /\ queues'[request[c].prio][Len(queues[request[c].prio]) + 1] = c
         /\ \A j \in DOMAIN queues[request[c].prio] :
              queues'[request[c].prio][j] = queues[request[c].prio][j]
<1> DEFINE p == request[c].prio
           n == Len(queues[p])
<1>1. p \in Priorities /\ pc[c] = "push" /\ ~Stands(c)
  BY DEF Push, ClientGoes, FifoInv, QueuedWait, Stands
<1>2. queues' = [queues EXCEPT ![p] = Append(queues[p], c)] /\ queues[p] \in Seq(Clients)
  BY <1>1 DEF Push, FifoInv
<1>3. /\ DOMAIN queues[p] = 1..n /\ n \in Nat
      /\ Append(queues[p], c) \in Seq(Clients) /\ DOMAIN Append(queues[p], c) = 1..(n + 1)
      /\ Append(queues[p], c)[n + 1] = c
      /\ \A j \in 1..n : Append(queues[p], c)[j] = queues[p][j]
  BY <1>2
<1> HIDE DEF p, n
<1>4. /\ queues' \in [Priorities -> Seq(Clients)] /\ queues'[p] = Append(queues[p], c)
      /\ \A q \in Priorities : q # p => queues'[q] = queues[q]
  BY <1>1, <1>2, <1>3 DEF FifoInv
<1>5. 1..(n + 1) = (1..n) \cup {n + 1}
  BY <1>3
<1> QED
  BY <1>1, <1>3, <1>4, <1>5 DEF p, n

LEMMA PushKeepsFifo == ASSUME FifoInv, QTyped', NEW c \in Clients, Push(c) PROVE FifoInv'
<1> DEFINE p == request[c].prio
           n == Len(queues[p]) + 1
<1>0. /\ p \in Priorities /\ pc[c] = "push" /\ ~Stands(c) /\ queues' \in [Priorities -> Seq(Clients)]
      /\ \A q \in Priorities : q # p => queues'[q] = queues[q]
      /\ DOMAIN queues'[p] = DOMAIN queues[p] \cup {n}
      /\ n \notin DOMAIN queues[p]
      /\ queues'[p][n] = c /\ \A j \in DOMAIN queues[p] : queues'[p][j] = queues[p][j]
  BY PushPlaces
<1>1. /\ UNCHANGED <<request, work, job>>
      /\ pc' = [pc EXCEPT ![c] = "waiting"]
  BY DEF Push, ClientGoes, workerVars
<1> HIDE DEF p, n
<1>2. \A q \in Priorities : \A i \in DOMAIN queues'[q] :
        \/ i \in DOMAIN queues[q] /\ queues'[q][i] = queues[q][i]
        \/ q = p /\ i = n /\ queues'[q][i] = c
  BY <1>0
<1>3. QueuesOnce'
  <2> SUFFICES ASSUME NEW q \in Priorities, NEW r \in Priorities,
                      NEW i \in DOMAIN queues'[q], NEW j \in DOMAIN queues'[r],
                      queues'[q][i] = queues'[r][j]
               PROVE  q = r /\ i = j
    BY DEF QueuesOnce
  <2>1. \A s \in Priorities : \A k \in DOMAIN queues[s] : queues[s][k] # c
    BY <1>0 DEF Stands
  <2>2. CASE i \in DOMAIN queues[q] /\ queues'[q][i] = queues[q][i]
    <3>1. j \in DOMAIN queues[r] /\ queues'[r][j] = queues[r][j]
      BY <1>2, <2>1, <2>2
    <3>2. QueuesOnce
      BY DEF FifoInv
    <3>3. queues[q][i] = queues[r][j]
      BY <2>2, <3>1
    <3> QED
      BY <2>2, <3>1, <3>2, <3>3 DEF QueuesOnce
  <2>3. CASE q = p /\ i = n /\ queues'[q][i] = c
    BY <1>2, <2>1, <2>3
  <2> QED
    BY <1>2, <2>2, <2>3
<1>4. pc'[c] = "waiting" /\ \A d \in Clients : d # c => pc'[d] = pc[d]
  BY <1>1 DEF FifoInv, QTyped
<1>5. QueuedWait'
  <2>1. \A q \in Priorities : \A i \in DOMAIN queues[q] : queues[q][i] \in Clients
    BY DEF FifoInv
  <2> QED
    BY <1>2, <1>4, <2>1 DEF FifoInv, QueuedWait
<1>6. \A d : Stands(d)' => Stands(d) \/ d = c
  BY <1>2 DEF Stands
<1>7. ServedWait'
  <2> SUFFICES ASSUME NEW w \in Workers, work[w] \in Busy
               PROVE  /\ job[w].client \in Clients /\ pc'[job[w].client] = "waiting"
                      /\ ~(\E q \in Priorities : \E i \in DOMAIN queues'[q] : queues'[q][i] = job[w].client)
                      /\ \A v \in Workers : work[v] \in Busy /\ job[v].client = job[w].client => v = w
    BY <1>1 DEF ServedWait, Stands
  <2>1. /\ job[w].client \in Clients /\ pc[job[w].client] = "waiting" /\ ~Stands(job[w].client)
        /\ \A v \in Workers : work[v] \in Busy /\ job[v].client = job[w].client => v = w
    BY DEF FifoInv, ServedWait
  <2>2. job[w].client # c
    BY <1>0, <2>1
  <2>3. ~(\E q \in Priorities : \E i \in DOMAIN queues'[q] : queues'[q][i] = job[w].client)
    BY <1>6, <2>1, <2>2 DEF Stands
  <2> QED
    BY <1>4, <2>1, <2>2, <2>3
<1> QED
  BY <1>0, <1>1, <1>3, <1>4, <1>5, <1>7 DEF FifoInv

LEMMA PopPlaces ==
  ASSUME FifoInv, NEW p \in Popable
  PROVE  /\ p \in Priorities /\ queues[p] \in Seq(Clients) /\ queues[p] # <<>>
         /\ Head(queues[p]) = queues[p][1] /\ 1 \in DOMAIN queues[p]
         /\ Tail(queues[p]) \in Seq(Clients)
         /\ DOMAIN queues[p] = 1..Len(queues[p]) /\ Len(queues[p]) \in Nat
         /\ DOMAIN Tail(queues[p]) = 1..(Len(queues[p]) - 1)
         /\ \A j \in 1..(Len(queues[p]) - 1) : Tail(queues[p])[j] = queues[p][j + 1]
  BY DEF Popable, NonEmpty, FifoInv

LEMMA PopKeepsFifo ==
  ASSUME FifoInv, QTyped', NEW w \in Workers, NEW p \in Priorities, Pop(w, p) PROVE FifoInv'
<1> DEFINE c == queues[p][1]
           n == Len(queues[p])
<1>0. /\ queues[p] \in Seq(Clients) /\ 1 \in DOMAIN queues[p] /\ Head(queues[p]) = c
      /\ Tail(queues[p]) \in Seq(Clients) /\ n \in Nat
      /\ DOMAIN queues[p] = 1..n /\ DOMAIN Tail(queues[p]) = 1..(n - 1)
      /\ \A j \in 1..(n - 1) : Tail(queues[p])[j] = queues[p][j + 1]
  BY PopPlaces DEF Pop
<1>1. /\ queues' = [queues EXCEPT ![p] = Tail(queues[p])]
      /\ UNCHANGED <<pc, request>>
      /\ work[w] = "idle" /\ work' = [work EXCEPT ![w] = "acquire"]
      /\ job' = [job EXCEPT ![w] = [client |-> c, model |-> request[c].model]]
  BY <1>0 DEF Pop, WorkerGoes, clientVars, Taken
<1> HIDE DEF c, n
<1>2. \A q \in Priorities : \A i \in DOMAIN queues'[q] :
        /\ i \in Int
        /\ IF q = p THEN i + 1 \in DOMAIN queues[q] /\ queues'[q][i] = queues[q][i + 1] /\ i + 1 # 1
           ELSE i \in DOMAIN queues[q] /\ queues'[q][i] = queues[q][i]
  BY <1>0, <1>1 DEF FifoInv
<1>3. queues' \in [Priorities -> Seq(Clients)]
  BY <1>0, <1>1 DEF FifoInv
<1>4. QueuesOnce'
  <2> SUFFICES ASSUME NEW q \in Priorities, NEW r \in Priorities,
                      NEW i \in DOMAIN queues'[q], NEW j \in DOMAIN queues'[r],
                      queues'[q][i] = queues'[r][j]
               PROVE  q = r /\ i = j
    BY DEF QueuesOnce
  <2>1. /\ i \in Int /\ j \in Int
        /\ IF q = p THEN i + 1 \in DOMAIN queues[q] /\ queues'[q][i] = queues[q][i + 1]
           ELSE i \in DOMAIN queues[q] /\ queues'[q][i] = queues[q][i]
        /\ IF r = p THEN j + 1 \in DOMAIN queues[r] /\ queues'[r][j] = queues[r][j + 1]
           ELSE j \in DOMAIN queues[r] /\ queues'[r][j] = queues[r][j]
    BY <1>2
  <2>2. q = r
    BY <2>1 DEF FifoInv, QueuesOnce
  <2> QED
    BY <2>1, <2>2 DEF FifoInv, QueuesOnce
<1>5. QueuedWait'
  BY <1>1, <1>2 DEF FifoInv, QueuedWait
<1>6. \A d : Stands(d)' => Stands(d) /\ d # c
  <2> SUFFICES ASSUME NEW q \in Priorities, NEW i \in DOMAIN queues'[q]
               PROVE  Stands(queues'[q][i]) /\ queues'[q][i] # c
    BY DEF Stands
  <2> QED
    BY <1>0, <1>2 DEF Stands, FifoInv, QueuesOnce, c
<1>7. c \in Clients /\ pc[c] = "waiting" /\ Stands(c)
  BY <1>0 DEF FifoInv, QueuedWait, Stands, c
<1>8. /\ \A v \in Workers : v # w => work'[v] = work[v] /\ job'[v] = job[v]
      /\ job'[w].client = c
  BY <1>1 DEF FifoInv, QTyped
<1>9. ServedWait'
  <2> SUFFICES ASSUME NEW v \in Workers, work'[v] \in Busy
               PROVE  /\ job'[v].client \in Clients /\ pc'[job'[v].client] = "waiting"
                      /\ ~(\E q \in Priorities : \E i \in DOMAIN queues'[q] : queues'[q][i] = job'[v].client)
                      /\ \A u \in Workers : work'[u] \in Busy /\ job'[u].client = job'[v].client => u = v
    BY DEF ServedWait, Stands
  <2>1. \A u \in Workers : u # w /\ work'[u] \in Busy =>
          /\ job'[u].client \in Clients /\ pc[job'[u].client] = "waiting"
          /\ job'[u].client # c /\ ~Stands(job'[u].client)
          /\ \A x \in Workers : x # w /\ work'[x] \in Busy /\ job'[x].client = job'[u].client => x = u
    BY <1>7, <1>8 DEF FifoInv, ServedWait
  <2>2. \A d : ~Stands(d) \/ d = c =>
          ~(\E q \in Priorities : \E i \in DOMAIN queues'[q] : queues'[q][i] = d)
    BY <1>6 DEF Stands
  <2> QED
    BY <1>1, <1>7, <1>8, <2>1, <2>2
<1> QED
  BY <1>1, <1>3, <1>4, <1>5, <1>9 DEF FifoInv

LEMMA FifoInvNext == FifoInv /\ [QNext]_qVars => FifoInv'
<1> SUFFICES ASSUME FifoInv, [QNext]_qVars PROVE FifoInv'
  OBVIOUS
<1>0. QTyped'
  BY QTypedNext DEF FifoInv
<1>1. ASSUME NEW c \in Clients, Push(c) PROVE FifoInv'
  BY <1>0, <1>1, PushKeepsFifo
<1>2. ASSUME NEW w \in Workers, NEW p \in Priorities, Pop(w, p) PROVE FifoInv'
  BY <1>0, <1>2, PopKeepsFifo
<1>3. ASSUME NEW c \in Clients, NEW r \in Request, CheckCapacity(c, r) PROVE FifoInv'
  <2>1. /\ pc[c] = "idle" /\ pc' = [pc EXCEPT ![c] = "push"]
        /\ request' = [request EXCEPT ![c] = r] /\ r.prio \in Priorities
        /\ UNCHANGED <<queues, work, job>>
    BY <1>3 DEF CheckCapacity, ClientGoes, workerVars, Request
  <2>2. request' = [d \in Clients |-> request'[d]]
    BY <2>1 DEF FifoInv
  <2>3. \A d \in Clients : pc'[d] = "push" => request'[d].prio \in Priorities
    BY <2>1 DEF FifoInv, QTyped
  <2> QED
    BY <1>0, <2>1, <2>2, <2>3, QueuesFrame DEF FifoInv, QTyped
<1>4. ASSUME NEW w \in Workers, Acquire(w) \/ Count(w) \/ CountStat(w) \/ Uncount(w) PROVE FifoInv'
  <2>1. /\ UNCHANGED <<queues, job, pc, request>>
        /\ \A v \in Workers : work'[v] \in Busy => work[v] \in Busy
    BY <1>4 DEF Acquire, Count, CountStat, Uncount, WorkerGoes, clientVars, Busy, FifoInv, QTyped
  <2> QED
    BY <1>0, <2>1, QueuesFrame DEF FifoInv
<1>5. ASSUME NEW w \in Workers, UncountStat(w) PROVE FifoInv'
  <2>1. /\ UNCHANGED <<queues, pc, request>>
        /\ \A v \in Workers : work'[v] \in Busy => v # w /\ work[v] \in Busy /\ job'[v] = job[v]
    BY <1>5 DEF UncountStat, WorkerGoes, clientVars, Busy, FifoInv, QTyped
  <2>2. ServedWait'
    BY <2>1 DEF FifoInv, ServedWait, Stands
  <2> QED
    BY <1>0, <2>1, <2>2 DEF FifoInv, QueuesOnce, QueuedWait
<1>6. ASSUME NEW w \in Workers, Respond(w) PROVE FifoInv'
  <2> DEFINE c == job[w].client
  <2>1. /\ c \in Clients /\ pc[c] = "waiting" /\ ~Stands(c)
        /\ \A v \in Workers : work[v] \in Busy /\ job[v].client = c => v = w
        /\ work[w] = "running" /\ work' = [work EXCEPT ![w] = "uncount"]
        /\ UNCHANGED <<queues, job>>
        /\ pc' = [pc EXCEPT ![c] = "idle"] /\ request' = [request EXCEPT ![c] = NoRequest]
    BY <1>6 DEF Respond, WorkerGoes, FifoInv, ServedWait, Busy
  <2> HIDE DEF c
  <2>2. /\ \A d \in Clients : d # c => pc'[d] = pc[d] /\ request'[d] = request[d]
        /\ pc'[c] = "idle" /\ request' = [d \in Clients |-> request'[d]]
    BY <2>1 DEF FifoInv, QTyped
  <2>3. \A v \in Workers : work'[v] \in Busy => work[v] \in Busy /\ v # w
    BY <2>1 DEF FifoInv, QTyped, Busy
  <2>4. QueuesOnce' /\ QueuedWait'
    <3>1. \A q \in Priorities : \A i \in DOMAIN queues[q] : queues[q][i] \in Clients /\ queues[q][i] # c
      BY <2>1 DEF FifoInv, Stands
    <3> QED
      BY <2>1, <2>2, <3>1 DEF FifoInv, QueuesOnce, QueuedWait
  <2>5. ServedWait'
    <3>1. \A v \in Workers : work'[v] \in Busy => job[v].client # c
      BY <2>1, <2>3
    <3> QED
      BY <2>1, <2>2, <2>3, <3>1 DEF FifoInv, ServedWait, Stands
  <2> QED
    BY <1>0, <2>1, <2>2, <2>4, <2>5 DEF FifoInv
<1>7. CASE UNCHANGED qVars
  BY <1>0, <1>7, QueuesFrame DEF qVars, clientVars, workerVars, FifoInv
<1> QED
  BY <1>1, <1>2, <1>3, <1>4, <1>5, <1>6, <1>7 DEF QNext, WorkerStep

LEMMA FifoInvInit == QInit => FifoInv
<1> SUFFICES ASSUME QInit PROVE FifoInv
  OBVIOUS
<1>1. DOMAIN (<<>>) = {} /\ \A p \in Priorities : queues[p] = <<>>
  BY DEF QInit
<1>2. QTyped /\ queues \in [Priorities -> Seq(Clients)]
  BY QTypedInit DEF QInit
<1>3. request = [c \in Clients |-> request[c]]
  BY DEF QInit
<1>4. QueuesOnce /\ QueuedWait /\ ServedWait
  BY <1>1 DEF QueuesOnce, QueuedWait, ServedWait, QInit, Busy
<1> QED
  BY <1>2, <1>3, <1>4 DEF FifoInv, QInit

-----------------------------------------------------------------------------
\* What an appended entry and a head taken away do to the mapping.
LEMMA AppendedMaps ==
  ASSUME NEW qs, OnceIn(qs), NEW new, OnceIn(new), NEW c \in Clients, ~In(qs, c),
         NEW p \in Priorities, NEW n \in Nat, DOMAIN qs[p] = 1..n,
         DOMAIN new[p] = DOMAIN qs[p] \cup {n + 1}, new[p][n + 1] = c,
         \A j \in DOMAIN qs[p] : new[p][j] = qs[p][j],
         \A q \in Priorities : q # p => new[q] = qs[q]
  PROVE  /\ UnderIn(qs, c) = -1 /\ UnderIn(new, c) = p
         /\ BeforeIn(new, c) = {q \in Clients : UnderIn(qs, q) = p}
         /\ \A d : d # c => UnderIn(new, d) = UnderIn(qs, d) /\ BeforeIn(new, d) = BeforeIn(qs, d)
<1>1. {q \in Clients : UnderIn(qs, q) = p} = {qs[p][j] : j \in DOMAIN qs[p]}
  <2>1. \A q : UnderIn(qs, q) = p => In(qs, q)
    <3>1. p # -1
      BY QueueAssumption
    <3> QED
      BY <3>1, WhereNot
  <2>2. ASSUME NEW r \in Priorities, NEW i \in DOMAIN qs[r]
        PROVE  qs[r][i] \in Clients /\ UnderIn(qs, qs[r][i]) = r
    <3>1. qs[r][i] \in Clients
      BY DEF OnceIn
    <3> QED
      BY <3>1, WhereItStands
  <2>3. ASSUME NEW q, UnderIn(qs, q) = p PROVE \E j \in DOMAIN qs[p] : q = qs[p][j]
    <3>1. PICK r \in Priorities : \E i \in DOMAIN qs[r] : qs[r][i] = q
      BY <2>1, <2>3 DEF In
    <3>2. PICK i \in DOMAIN qs[r] : qs[r][i] = q
      BY <3>1
    <3>3. r = p
      BY <2>2, <2>3, <3>2
    <3> QED
      BY <3>2, <3>3
  <2> QED
    BY <2>2, <2>3
<1>2. FrontOf(new, p, n + 1) = {qs[p][j] : j \in DOMAIN qs[p]}
  BY DEF FrontOf
<1>3. UnderIn(new, c) = p /\ BeforeIn(new, c) = {q \in Clients : UnderIn(qs, q) = p}
  <2>1. n + 1 \in DOMAIN new[p]
    OBVIOUS
  <2>2. /\ UnderIn(new, new[p][n + 1]) = p
        /\ BeforeIn(new, new[p][n + 1]) = FrontOf(new, p, n + 1)
    BY <2>1, WhereItStands
  <2> QED
    BY <1>1, <1>2, <2>2
<1>4. ASSUME NEW d, d # c PROVE UnderIn(new, d) = UnderIn(qs, d) /\ BeforeIn(new, d) = BeforeIn(qs, d)
  <2>1. CASE In(qs, d)
    <3>0. PICK q \in Priorities : \E i \in DOMAIN qs[q] : qs[q][i] = d
      BY <2>1 DEF In
    <3>1. PICK i \in DOMAIN qs[q] : qs[q][i] = d
      BY <3>0
    <3>2. i \in DOMAIN new[q] /\ new[q][i] = d
      BY <3>1
    <3>3. FrontOf(new, q, i) = FrontOf(qs, q, i)
      BY <3>1 DEF FrontOf
    <3>4. UnderIn(qs, d) = q /\ BeforeIn(qs, d) = FrontOf(qs, q, i)
      BY <3>1, WhereItStands
    <3>5. UnderIn(new, d) = q /\ BeforeIn(new, d) = FrontOf(new, q, i)
      BY <3>2, WhereItStands
    <3> QED
      BY <3>3, <3>4, <3>5
  <2>2. CASE ~In(qs, d)
    <3>1. ~In(new, d)
      BY <1>4, <2>2 DEF In
    <3> QED
      BY <2>2, <3>1, WhereNot
  <2> QED
    BY <2>1, <2>2
<1> QED
  BY <1>3, <1>4, WhereNot

HeadTaken(qs, new, p) ==
  /\ UnderIn(qs, qs[p][1]) = p /\ BeforeIn(qs, qs[p][1]) = {}
  /\ UnderIn(new, qs[p][1]) = -1 /\ BeforeIn(new, qs[p][1]) = {}
  /\ \A d : d # qs[p][1] =>
       UnderIn(new, d) = UnderIn(qs, d) /\ BeforeIn(new, d) = BeforeIn(qs, d) \ {qs[p][1]}

LEMMA HeadTakenMaps ==
  ASSUME NEW qs, OnceIn(qs), NEW new, OnceIn(new), NEW p \in Priorities, NEW n \in Nat,
         DOMAIN qs[p] = 1..n, n # 0, DOMAIN new[p] = 1..(n - 1),
         \A j \in 1..(n - 1) : new[p][j] = qs[p][j + 1],
         \A q \in Priorities : q # p => new[q] = qs[q]
  PROVE  HeadTaken(qs, new, p)
<1> DEFINE c == qs[p][1]
<1>0. 1 \in DOMAIN qs[p] /\ qs[p][1] = c
  OBVIOUS
<1>1. \A q \in Priorities : \A i \in DOMAIN qs[q] : qs[q][i] = c => q = p /\ i = 1
  BY <1>0 DEF OnceIn
<1> HIDE DEF c
<1>2. ~In(new, c)
  <2> SUFFICES ASSUME NEW q \in Priorities, NEW i \in DOMAIN new[q], new[q][i] = c PROVE FALSE
    BY DEF In
  <2>1. CASE q = p
    <3>1. i \in 1..(n - 1) /\ i + 1 \in DOMAIN qs[p] /\ i + 1 # 1 /\ qs[p][i + 1] = c
      BY <2>1
    <3> QED
      BY <1>1, <3>1
  <2>2. CASE q # p
    BY <1>1, <2>2
  <2> QED
    BY <2>1, <2>2
<1>3. FrontOf(qs, p, 1) = {}
  BY DEF FrontOf
<1>4. UnderIn(qs, c) = p /\ BeforeIn(qs, c) = {}
  BY <1>0, <1>3, WhereItStands
<1>5. ASSUME NEW d, d # c
      PROVE  UnderIn(new, d) = UnderIn(qs, d) /\ BeforeIn(new, d) = BeforeIn(qs, d) \ {c}
  <2>1. CASE In(qs, d)
    <3>0. PICK q \in Priorities : \E i \in DOMAIN qs[q] : qs[q][i] = d
      BY <2>1 DEF In
    <3>1. PICK i \in DOMAIN qs[q] : qs[q][i] = d
      BY <3>0
    <3>2. UnderIn(qs, d) = q /\ BeforeIn(qs, d) = FrontOf(qs, q, i)
      BY <3>1, WhereItStands
    <3>3. CASE q # p
      <4>1. FrontOf(new, q, i) = FrontOf(qs, q, i) /\ i \in DOMAIN new[q] /\ new[q][i] = d
        BY <3>1, <3>3 DEF FrontOf
      <4>2. c \notin FrontOf(qs, q, i)
        BY <1>1, <3>3 DEF FrontOf
      <4>3. UnderIn(new, d) = q /\ BeforeIn(new, d) = FrontOf(new, q, i)
        BY <4>1, WhereItStands
      <4> QED
        BY <3>2, <4>1, <4>2, <4>3
    <3>4. CASE q = p
      <4>1. i \in 1..n /\ i # 1
        BY <1>0, <1>5, <3>1, <3>4
      <4>2. i - 1 \in DOMAIN new[p] /\ new[p][i - 1] = d
        BY <3>1, <3>4, <4>1
      <4>3. UnderIn(new, d) = p /\ BeforeIn(new, d) = FrontOf(new, p, i - 1)
        BY <4>2, WhereItStands
      <4>4. FrontOf(new, p, i - 1) = FrontOf(qs, p, i) \ {c}
        <5>1. ASSUME NEW x, x \in FrontOf(new, p, i - 1) PROVE x \in FrontOf(qs, p, i) /\ x # c
          <6>1. PICK j \in 1..(n - 1) : j < i - 1 /\ x = qs[p][j + 1]
            BY <5>1 DEF FrontOf
          <6>2. j + 1 \in DOMAIN qs[p] /\ j + 1 < i /\ j + 1 # 1
            BY <4>1, <6>1
          <6> QED
            BY <1>1, <6>1, <6>2 DEF FrontOf
        <5>2. ASSUME NEW x, x \in FrontOf(qs, p, i), x # c PROVE x \in FrontOf(new, p, i - 1)
          <6>1. PICK j \in 1..n : j < i /\ x = qs[p][j]
            BY <5>2 DEF FrontOf
          <6>2. j # 1
            BY <1>0, <5>2, <6>1
          <6>3. j - 1 \in DOMAIN new[p] /\ j - 1 < i - 1 /\ new[p][j - 1] = x
            BY <4>1, <6>1, <6>2
          <6> QED
            BY <6>3 DEF FrontOf
        <5> QED
          BY <5>1, <5>2
      <4> QED
        BY <3>2, <3>4, <4>3, <4>4
    <3> QED
      BY <3>3, <3>4
  <2>2. CASE ~In(qs, d)
    <3>1. ~In(new, d)
      <4> SUFFICES ASSUME NEW q \in Priorities, NEW i \in DOMAIN new[q], new[q][i] = d PROVE FALSE
        BY DEF In
      <4>1. CASE q = p
        <5>1. i \in 1..(n - 1) /\ i + 1 \in DOMAIN qs[p] /\ qs[p][i + 1] = d
          BY <4>1
        <5> QED
          BY <2>2, <5>1 DEF In
      <4>2. CASE q # p
        BY <2>2, <4>2 DEF In
      <4> QED
        BY <4>1, <4>2
    <3> QED
      BY <2>2, <3>1, WhereNot
  <2> QED
    BY <2>1, <2>2
<1> QED
  BY <1>2, <1>4, <1>5, WhereNot DEF c, HeadTaken

LEMMA MappedBoth ==
  FifoInv /\ FifoInv' =>
    /\ OnceIn(queues) /\ OnceIn(queues')
    /\ WaitingUnder = [c \in Clients |-> UnderIn(queues, c)]
    /\ QueuedBefore = [c \in Clients |-> BeforeIn(queues, c)]
    /\ WaitingUnder' = [c \in Clients |-> UnderIn(queues', c)]
    /\ QueuedBefore' = [c \in Clients |-> BeforeIn(queues', c)]
<1>1. FifoInv => OnceIn(queues)
  BY DEF FifoInv, QueuesOnce, OnceIn
<1>2. FifoInv' => OnceIn(queues')
  BY DEF FifoInv, QueuesOnce, OnceIn
<1>3. FifoInv => /\ WaitingUnder = [c \in Clients |-> UnderIn(queues, c)]
                 /\ QueuedBefore = [c \in Clients |-> BeforeIn(queues, c)]
  BY MapsQueues DEF FifoInv
<1>4. FifoInv' => (/\ WaitingUnder = [c \in Clients |-> UnderIn(queues, c)]
                   /\ QueuedBefore = [c \in Clients |-> BeforeIn(queues, c)])'
  BY <1>3, PTL
<1> QED
  BY <1>1, <1>2, <1>3, <1>4

LEMMA PushQueues ==
  ASSUME FifoInv, FifoInv', NEW c \in Clients, Push(c)
  PROVE  request[c].prio \in Priorities /\ Fifo!Queue(c, request[c].prio)
<1> DEFINE p == request[c].prio
           n == Len(queues[p])
<1>0. /\ p \in Priorities /\ ~Stands(c)
      /\ \A q \in Priorities : q # p => queues'[q] = queues[q]
      /\ DOMAIN queues'[p] = DOMAIN queues[p] \cup {n + 1} /\ n \in Nat
      /\ DOMAIN queues[p] = 1..n /\ queues'[p][n + 1] = c
      /\ \A j \in DOMAIN queues[p] : queues'[p][j] = queues[p][j]
  BY PushPlaces
<1> HIDE DEF p, n
<1>1. ~In(queues, c)
  BY <1>0 DEF Stands, In
<1>2. OnceIn(queues) /\ OnceIn(queues')
  BY MappedBoth
<1>3. /\ UnderIn(queues, c) = -1 /\ UnderIn(queues', c) = p
      /\ BeforeIn(queues', c) = {q \in Clients : UnderIn(queues, q) = p}
      /\ \A d : d # c => UnderIn(queues', d) = UnderIn(queues, d) /\ BeforeIn(queues', d) = BeforeIn(queues, d)
  BY <1>0, <1>1, <1>2, AppendedMaps
<1>4. {q \in Clients : WaitingUnder[q] = p} = {q \in Clients : UnderIn(queues, q) = p}
  BY MappedBoth
<1>5. /\ WaitingUnder[c] = -1
      /\ WaitingUnder' = [WaitingUnder EXCEPT ![c] = p]
  BY <1>3, MappedBoth
<1>6. QueuedBefore' = [QueuedBefore EXCEPT ![c] = {q \in Clients : UnderIn(queues, q) = p}]
  BY <1>3, MappedBoth
<1>7. QueuedBefore' = [QueuedBefore EXCEPT ![c] = {q \in Clients : WaitingUnder[q] = p}]
  BY <1>4, <1>6
<1> QED
  BY <1>0, <1>5, <1>7 DEF Fifo!Queue, Fifo!NotWaiting, p

LEMMA PopTakes ==
  ASSUME FifoInv, FifoInv', NEW w \in Workers, NEW p \in Priorities, Pop(w, p)
  PROVE  queues[p][1] \in Clients /\ Fifo!Take(queues[p][1])
<1> DEFINE c == queues[p][1]
           n == Len(queues[p])
<1>0. /\ queues[p] \in Seq(Clients) /\ 1 \in DOMAIN queues[p] /\ n \in Nat
      /\ Tail(queues[p]) \in Seq(Clients)
      /\ DOMAIN queues[p] = 1..n /\ DOMAIN Tail(queues[p]) = 1..(n - 1)
      /\ \A j \in 1..(n - 1) : Tail(queues[p])[j] = queues[p][j + 1]
  BY PopPlaces DEF Pop
<1>1. c \in Clients /\ queues' = [queues EXCEPT ![p] = Tail(queues[p])]
  BY <1>0 DEF Pop
<1>2. \A q \in NonEmpty : config.fair_scheduling_weight = 0 => q <= p
  BY QueueAssumption DEF Pop, Popable, FifoInv, QTyped, QTypeOK
<1> HIDE DEF n
<1>3. /\ DOMAIN queues'[p] = 1..(n - 1) /\ n # 0
      /\ \A j \in 1..(n - 1) : queues'[p][j] = queues[p][j + 1]
      /\ \A q \in Priorities : q # p => queues'[q] = queues[q]
  BY <1>0, <1>1 DEF FifoInv
<1>4. OnceIn(queues) /\ OnceIn(queues')
  BY MappedBoth
<1>5. /\ UnderIn(queues, c) = p /\ BeforeIn(queues, c) = {}
      /\ UnderIn(queues', c) = -1 /\ BeforeIn(queues', c) = {}
      /\ \A d : d # c =>
           UnderIn(queues', d) = UnderIn(queues, d) /\ BeforeIn(queues', d) = BeforeIn(queues, d) \ {c}
  <2>1. HeadTaken(queues, queues', p)
    BY <1>0, <1>3, <1>4, HeadTakenMaps
  <2> QED
    BY <2>1 DEF HeadTaken
<1>6. ASSUME NEW q \in Clients, config.fair_scheduling_weight = 0 PROVE UnderIn(queues, q) <= p
  <2>1. CASE In(queues, q)
    <3>0. PICK r \in Priorities : \E i \in DOMAIN queues[r] : queues[r][i] = q
      BY <2>1 DEF In
    <3>1. PICK i \in DOMAIN queues[r] : queues[r][i] = q
      BY <3>0
    <3>2. UnderIn(queues, q) = r
      BY <1>4, <3>1, WhereItStands
    <3>3. r \in NonEmpty
      BY <3>1 DEF NonEmpty
    <3> QED
      BY <1>2, <1>6, <3>2, <3>3
  <2>2. CASE ~In(queues, q)
    <3>1. UnderIn(queues, q) = -1 /\ -1 <= p
      BY <2>2, WhereNot, QueueAssumption
    <3> QED
      BY <3>1
  <2> QED
    BY <2>1, <2>2
<1> HIDE DEF c
<1>7. /\ WaitingUnder[c] = p /\ p # -1 /\ QueuedBefore[c] = {}
      /\ Strict => \A q \in Clients : WaitingUnder[q] <= WaitingUnder[c]
  BY <1>1, <1>5, <1>6, MappedBoth, QueueAssumption DEF Strict
<1>8. WaitingUnder' = [WaitingUnder EXCEPT ![c] = -1]
  <2>1. \A d \in Clients : UnderIn(queues', d) = IF d = c THEN -1 ELSE UnderIn(queues, d)
    BY <1>5
  <2>2. /\ WaitingUnder = [d \in Clients |-> UnderIn(queues, d)]
        /\ WaitingUnder' = [d \in Clients |-> UnderIn(queues', d)]
    BY MappedBoth
  <2> QED
    BY <2>1, <2>2
<1>9. QueuedBefore' = [q \in Clients |-> QueuedBefore[q] \ {c}]
  <2>1. \A q \in Clients : BeforeIn(queues', q) = QueuedBefore[q] \ {c}
    BY <1>5, MappedBoth
  <2> QED
    BY <2>1, MappedBoth
<1> QED
  BY <1>1, <1>7, <1>8, <1>9 DEF Fifo!Take, Fifo!NotWaiting, c

LEMMA FifoStep ==
  FifoInv /\ FifoInv' /\ [QNext]_qVars => [Fifo!Next]_<<Strict, WaitingUnder, QueuedBefore>>
<1> SUFFICES ASSUME FifoInv, FifoInv', [QNext]_qVars
             PROVE  [Fifo!Next]_<<Strict, WaitingUnder, QueuedBefore>>
  OBVIOUS
<1>1. Strict' = Strict
  BY DEF QNext, qVars, Push, CheckCapacity, Pop, WorkerStep, Acquire, Count, CountStat, Respond,
         Uncount, UncountStat, Strict
<1>2. ASSUME NEW c \in Clients, Push(c) PROVE Fifo!Next
  BY <1>1, <1>2, PushQueues DEF Fifo!Next
<1>3. ASSUME NEW w \in Workers, NEW p \in Priorities, Pop(w, p) PROVE Fifo!Next
  BY <1>1, <1>3, PopTakes DEF Fifo!Next
<1>4. ASSUME queues' = queues PROVE UNCHANGED <<Strict, WaitingUnder, QueuedBefore>>
  BY <1>1, <1>4, MappedBoth
<1> QED
  BY <1>2, <1>3, <1>4 DEF QNext, qVars, CheckCapacity, WorkerStep, Acquire, Count, CountStat, Respond,
     Uncount, UncountStat

LEMMA FifoStarts == QInit => Fifo!Init
<1> SUFFICES ASSUME QInit PROVE Fifo!Init
  OBVIOUS
<1>1. DOMAIN (<<>>) = {} /\ \A p \in Priorities : queues[p] = <<>>
  BY DEF QInit
<1>2. queues \in [Priorities -> Seq(Clients)]
  BY FifoInvInit DEF FifoInv
<1>3. \A c : UnderIn(queues, c) = -1 /\ BeforeIn(queues, c) = {}
  <2>1. \A c : ~In(queues, c)
    BY <1>1 DEF In
  <2> QED
    BY <2>1, WhereNot
<1>4. WaitingUnder = [c \in Clients |-> -1] /\ QueuedBefore = [c \in Clients |-> {}]
  BY <1>2, <1>3, MapsQueues
<1> QED
  BY <1>4 DEF Fifo!Init, Fifo!NotWaiting, Strict

LEMMA QueueImplementsFifo == QSpec => ImplementsFifo
<1>1. QInit => Fifo!Init /\ FifoInv
  BY FifoStarts, FifoInvInit
<1> QED
  BY <1>1, FifoInvNext, FifoStep, PTL DEF QSpec, ImplementsFifo, Fifo!Spec

HIDE DEF QueueAssumption

-----------------------------------------------------------------------------
(***************************************************************************)
(* The batching coordinator.  As long as no call is cancelled, each        *)
(* request in the channel or the batch is the call of another client that  *)
(* awaits its answer and thereby holds a permit.                           *)
(***************************************************************************)
USE DEF Coordinator!callVars

CShape ==
  /\ Coordinator!CoordinatorAssumption
  /\ cancelled \in BOOLEAN
  /\ cpc \in [Callers -> {"idle", "acquire", "send", "await", "answered"}]
  /\ call \in [Callers -> Nat] /\ calls \in 0..MaxCalls
  /\ channel \in Seq(Nat) /\ batch \in Seq(Nat)
  /\ loop \in {"receive", "collect", "count", "process", "ended"}
  /\ loop \in {"collect", "count", "process"} <=> batch # <<>>
  /\ loop = "ended" => channel = <<>>
  /\ activeRequests \in Int
  /\ \A c \in Callers : cpc[c] # "idle" => call[c] \in 1..calls
  /\ \A c, d \in Callers : cpc[c] # "idle" /\ cpc[d] # "idle" /\ call[c] = call[d] => c = d

At(places) == {c \in Callers : cpc[c] \in places}

PermitsKept == Cardinality(At({"send", "await", "answered"})) <= MaxConcurrent

Awaited(p) ==
  /\ \A i \in DOMAIN p : \E c \in Callers : cpc[c] = "await" /\ call[c] = p[i]
  /\ \A i, j \in DOMAIN p : p[i] = p[j] => i = j

ActiveCounted ==
  loop # "ended" => activeRequests = Cardinality(At({"send", "await", "answered"}))

CInv ==
  /\ CShape /\ PermitsKept
  /\ ~cancelled => Awaited(Coordinator!Pipeline)
  /\ ~cancelled => ActiveCounted

LEMMA CoordinatorCounts ==
  /\ \A S : Coordinator!Cardinality(S) = Cardinality(S)
  /\ \A S : Coordinator!IsFiniteSet(S) <=> IsFiniteSet(S)
  BY Zenon DEF Coordinator!Cardinality, Cardinality, Coordinator!IsFiniteSet, IsFiniteSet

LEMMA AtFinite ==
  ASSUME CShape, NEW places
  PROVE  IsFiniteSet(At(places)) /\ Cardinality(At(places)) \in Nat
<1>1. At(places) \in SUBSET Callers /\ IsFiniteSet(Callers)
  BY CoordinatorCounts DEF At, CShape, Coordinator!CoordinatorAssumption
<1> QED
  BY <1>1, FS_Subset, FS_CardinalityType

\* What each step does to the requests beyond submit.
LEMMA PipelineSteps ==
  ASSUME CShape
  PROVE  /\ Coordinator!Pipeline \in Seq(Nat)
         /\ Len(Coordinator!Pipeline) = Len(channel) + Len(batch)
         /\ loop = "ended" => Coordinator!Pipeline = <<>>
         /\ \A c \in Callers :
              Coordinator!Send(c) => Coordinator!Pipeline' = Append(Coordinator!Pipeline, call[c])
         /\ Coordinator!Receive => Coordinator!Pipeline' = Coordinator!Pipeline
         /\ Coordinator!Process =>
              /\ Coordinator!Pipeline # <<>> /\ Coordinator!Pipeline' = Tail(Coordinator!Pipeline)
              /\ Head(batch) = Coordinator!Pipeline[1]
         /\ Coordinator!BackendPanics => Coordinator!Pipeline' = <<>>
<1> USE DEF Coordinator!Pipeline
<1>1. /\ Coordinator!Pipeline \in Seq(Nat)
      /\ Len(Coordinator!Pipeline) = Len(channel) + Len(batch)
      /\ loop = "ended" => Coordinator!Pipeline = <<>>
  BY DEF CShape
<1>2. ASSUME NEW c \in Callers, Coordinator!Send(c)
      PROVE  Coordinator!Pipeline' = Append(Coordinator!Pipeline, call[c])
  <2>1. call[c] \in Nat /\ channel' = Append(channel, call[c]) /\ batch' = batch
    BY <1>2 DEF CShape, Coordinator!Send
  <2>2. batch \in Seq(Nat) /\ channel \in Seq(Nat)
    BY DEF CShape
  <2>3. batch \o Append(channel, call[c]) = Append(batch \o channel, call[c])
    BY <2>1, <2>2, ConcatMoves
  <2> QED
    BY <2>1, <2>3
<1>3. ASSUME Coordinator!Receive PROVE Coordinator!Pipeline' = Coordinator!Pipeline
  <2>1. channel # <<>> /\ channel' = Tail(channel) /\ batch' = Append(batch, Head(channel))
    BY <1>3 DEF Coordinator!Receive
  <2>2. batch \in Seq(Nat) /\ channel \in Seq(Nat)
    BY DEF CShape
  <2>3. Append(batch, Head(channel)) \o Tail(channel) = batch \o channel
    BY <2>1, <2>2, ConcatMoves
  <2> QED
    BY <2>1, <2>3
<1>4. ASSUME Coordinator!Process
      PROVE  /\ Coordinator!Pipeline # <<>> /\ Coordinator!Pipeline' = Tail(Coordinator!Pipeline)
             /\ Head(batch) = Coordinator!Pipeline[1]
  BY <1>4 DEF CShape, Coordinator!Process
<1>5. ASSUME Coordinator!BackendPanics PROVE Coordinator!Pipeline' = <<>>
  BY <1>5 DEF Coordinator!BackendPanics
<1> QED
  BY <1>1, <1>2, <1>3, <1>4, <1>5

LEMMA CShapeNext == CShape /\ [Coordinator!Next]_(Coordinator!vars) => CShape'
<1> SUFFICES ASSUME CShape, [Coordinator!Next]_(Coordinator!vars) PROVE CShape'
  OBVIOUS
<1> USE DEF CShape, Coordinator!Goto, Coordinator!counters
<1>1. ASSUME NEW c \in Callers, Coordinator!Submit(c) PROVE CShape'
  BY <1>1 DEF Coordinator!Submit, Coordinator!CoordinatorAssumption
<1>2. ASSUME NEW c \in Callers, Coordinator!Acquire(c) PROVE CShape'
  BY <1>2 DEF Coordinator!Acquire
<1>3. ASSUME NEW c \in Callers, Coordinator!Send(c) PROVE CShape'
  BY <1>3 DEF Coordinator!Send
<1>4. ASSUME NEW c \in Callers, Coordinator!SendFails(c) \/ Coordinator!ResponseLost(c) PROVE CShape'
  BY <1>4 DEF Coordinator!SendFails, Coordinator!ResponseLost
<1>5. ASSUME NEW c \in Callers, Coordinator!Return(c) PROVE CShape'
  BY <1>5 DEF Coordinator!Return
<1>6. ASSUME NEW c \in Callers, Coordinator!Cancel(c) PROVE CShape'
  BY <1>6 DEF Coordinator!Cancel
<1>7. CASE Coordinator!Receive
  BY <1>7 DEF Coordinator!Receive, Coordinator!AfterReceive
<1>8. CASE Coordinator!WaitTimesOut \/ Coordinator!CountBatch
  BY <1>8 DEF Coordinator!WaitTimesOut, Coordinator!CountBatch
<1>9. CASE Coordinator!Process
  <2>1. Len(batch) = 1 <=> Tail(batch) = <<>>
    BY <1>9, HeadBeforeTail DEF Coordinator!Process
  <2> QED
    BY <1>9, <2>1, SMTT(30) DEF Coordinator!Process
<1>10. CASE Coordinator!BackendPanics
  BY <1>10 DEF Coordinator!BackendPanics
<1>11. CASE UNCHANGED Coordinator!vars
  BY <1>11 DEF Coordinator!vars
<1> QED
  BY <1>1, <1>2, <1>3, <1>4, <1>5, <1>6, <1>7, <1>8, <1>9, <1>10, <1>11
     DEF Coordinator!Next, Coordinator!Passing, Coordinator!LoopStep

LEMMA PermitsNext ==
  ASSUME CShape, CShape', PermitsKept, [Coordinator!Next]_(Coordinator!vars)
  PROVE  PermitsKept'
<1> DEFINE H == At({"send", "await", "answered"})
<1>0. /\ IsFiniteSet(H) /\ Cardinality(H) \in Nat /\ MaxConcurrent \in Nat
      /\ Cardinality(H) <= MaxConcurrent
      /\ H = Coordinator!Holders
  BY AtFinite DEF PermitsKept, CShape, Coordinator!CoordinatorAssumption, Coordinator!Holders, At
<1>1. ASSUME H' \in SUBSET H PROVE PermitsKept'
  <2>1. Cardinality(H') <= Cardinality(H) /\ Cardinality(H') \in Nat
    BY <1>0, <1>1, FS_Subset, FS_CardinalityType
  <2>2. Cardinality(H') <= MaxConcurrent
    BY <1>0, <2>1
  <2> QED
    BY <2>2 DEF PermitsKept
<1>2. ASSUME NEW c \in Callers, Coordinator!Acquire(c) PROVE PermitsKept'
  <2>1. H' = H \cup {c} /\ Cardinality(H) < MaxConcurrent
    BY <1>0, <1>2, CoordinatorCounts DEF CShape, Coordinator!Acquire, Coordinator!Goto, At
  <2> HIDE DEF H
  <2>2. /\ Cardinality(H \cup {c}) \in {Cardinality(H), Cardinality(H) + 1}
    BY <1>0, FS_AddElement, Zenon
  <2>3. Cardinality(H') <= MaxConcurrent
    BY <1>0, <2>1, <2>2
  <2> QED
    BY <2>3 DEF PermitsKept, H
<1>3. ASSUME NEW c \in Callers,
             \/ Coordinator!Submit(c) \/ Coordinator!Send(c) \/ Coordinator!SendFails(c)
             \/ Coordinator!ResponseLost(c) \/ Coordinator!Return(c) \/ Coordinator!Cancel(c)
      PROVE  PermitsKept'
  <2>1. H' \in SUBSET H
    BY <1>3 DEF CShape, Coordinator!Submit, Coordinator!Send, Coordinator!SendFails, Coordinator!ResponseLost,
                Coordinator!Return, Coordinator!Cancel, Coordinator!Goto, At
  <2> QED
    BY <2>1, <1>1
<1>4. ASSUME Coordinator!LoopStep \/ Coordinator!BackendPanics \/ UNCHANGED Coordinator!vars
      PROVE  PermitsKept'
  <2>1. H' \in SUBSET H
    BY <1>4 DEF CShape, Coordinator!LoopStep, Coordinator!Receive, Coordinator!WaitTimesOut,
                Coordinator!CountBatch, Coordinator!Process, Coordinator!BackendPanics, Coordinator!vars, At
  <2> QED
    BY <2>1, <1>1
<1> QED
  BY <1>2, <1>3, <1>4 DEF Coordinator!Next, Coordinator!Passing

LEMMA AwaitedNext ==
  ASSUME CShape, ~cancelled', Awaited(Coordinator!Pipeline), [Coordinator!Next]_(Coordinator!vars)
  PROVE  Awaited(Coordinator!Pipeline)'
<1> DEFINE P == Coordinator!Pipeline
<1>0. P \in Seq(Nat) /\ (loop = "ended" => P = <<>>)
  BY PipelineSteps
<1>1. ASSUME P' = P, \A c \in Callers : cpc[c] = "await" /\ (\E i \in DOMAIN P : P[i] = call[c]) =>
                                      cpc'[c] = "await" /\ call'[c] = call[c]
      PROVE  Awaited(P)'
  BY <1>1 DEF Awaited
<1>2. ASSUME NEW c \in Callers, Coordinator!Send(c) PROVE Awaited(P)'
  <2> DEFINE n == Len(P)
  <2>1. P' = Append(P, call[c])
    BY <1>2, PipelineSteps
  <2>2. /\ n \in Nat /\ DOMAIN P = 1..n /\ DOMAIN P' = 1..(n + 1)
        /\ \A i \in 1..n : P'[i] = P[i]
        /\ P'[n + 1] = call[c]
        /\ \A i \in 1..(n + 1) : i \in 1..n \/ i = n + 1
    <3> HIDE DEF P
    <3>1. call[c] \in Nat
      BY DEF CShape
    <3> QED
      BY <1>0, <2>1, <3>1
  <2>3. /\ cpc[c] = "send" /\ cpc' = [cpc EXCEPT ![c] = "await"] /\ call' = call
    BY <1>2 DEF Coordinator!Send, Coordinator!Goto
  <2>4. \A i \in 1..n : P[i] # call[c]
    <3> SUFFICES ASSUME NEW i \in 1..n, P[i] = call[c] PROVE FALSE
      OBVIOUS
    <3>1. PICK d \in Callers : cpc[d] = "await" /\ call[d] = P[i]
      BY <2>2 DEF Awaited
    <3> QED
      BY <2>3, <3>1 DEF CShape
  <2> HIDE DEF P, n
  <2>5. \A i \in DOMAIN P' : \E d \in Callers : cpc'[d] = "await" /\ call'[d] = P'[i]
    <3> SUFFICES ASSUME NEW i \in DOMAIN P' PROVE \E d \in Callers : cpc'[d] = "await" /\ call'[d] = P'[i]
      OBVIOUS
    <3>1. CASE i = n + 1
      BY <2>2, <2>3, <3>1 DEF CShape
    <3>2. CASE i \in 1..n
      <4>1. PICK d \in Callers : cpc[d] = "await" /\ call[d] = P[i]
        BY <2>2, <3>2 DEF Awaited, P
      <4> QED
        BY <2>2, <2>3, <3>2, <4>1 DEF CShape
    <3> QED
      BY <2>2, <3>1, <3>2
  <2>6. \A i, j \in DOMAIN P' : P'[i] = P'[j] => i = j
    <3>1. \A i, j \in DOMAIN P : P[i] = P[j] => i = j
      BY DEF Awaited, P
    <3> QED
      BY <2>2, <2>4, <3>1
  <2> QED
    BY <2>5, <2>6 DEF Awaited
<1>3. ASSUME NEW c \in Callers, Coordinator!SendFails(c) \/ Coordinator!ResponseLost(c) PROVE Awaited(P)'
  <2>1. P' = P /\ P = <<>>
    BY <1>0, <1>3 DEF Coordinator!SendFails, Coordinator!ResponseLost, Coordinator!Pipeline
  <2> HIDE DEF P
  <2>2. DOMAIN P' = {}
    BY <2>1
  <2> QED
    BY <2>2 DEF Awaited
<1>4. ASSUME NEW c \in Callers,
             Coordinator!Submit(c) \/ Coordinator!Acquire(c) \/ Coordinator!Return(c) \/ Coordinator!Cancel(c)
      PROVE  Awaited(P)'
  <2>1. /\ P' = P
        /\ \A d \in Callers : cpc[d] = "await" => cpc'[d] = "await" /\ call'[d] = call[d]
    BY <1>4 DEF CShape, Coordinator!Submit, Coordinator!Acquire, Coordinator!Return, Coordinator!Cancel,
                Coordinator!Goto, Coordinator!Pipeline
  <2> HIDE DEF P
  <2> QED
    BY <2>1, <1>1 DEF P
<1>5. CASE \/ Coordinator!Receive \/ Coordinator!WaitTimesOut \/ Coordinator!CountBatch
           \/ UNCHANGED Coordinator!vars
  <2>1. P' = P /\ cpc' = cpc /\ call' = call
    BY <1>5, PipelineSteps
       DEF Coordinator!Receive, Coordinator!WaitTimesOut, Coordinator!CountBatch, Coordinator!vars,
           Coordinator!Pipeline
  <2> HIDE DEF P
  <2> QED
    BY <2>1, <1>1 DEF P
<1>6. CASE Coordinator!Process
  <2>1. P # <<>> /\ P' = Tail(P) /\ Head(batch) = P[1]
    BY <1>6, PipelineSteps
  <2>2. /\ \A c \in Callers : cpc'[c] = IF cpc[c] = "await" /\ call[c] = P[1] THEN "answered" ELSE cpc[c]
        /\ call' = call
    BY <1>6, <2>1 DEF Coordinator!Process
  <2>3. \A i \in DOMAIN P' : i + 1 \in DOMAIN P /\ P'[i] = P[i + 1] /\ i + 1 # 1 /\ i \in Int
    <3> HIDE DEF P
    <3>1. /\ P \in Seq(Nat) /\ Len(P) \in Nat /\ Tail(P) \in Seq(Nat) /\ Len(Tail(P)) = Len(P) - 1
          /\ DOMAIN P = 1..Len(P) /\ DOMAIN Tail(P) = 1..Len(Tail(P))
          /\ \A i \in 1..Len(Tail(P)) : Tail(P)[i] = P[i + 1]
      BY <1>0, <2>1
    <3> QED
      BY <2>1, <3>1
  <2>4. /\ \A i \in DOMAIN P : \E c \in Callers : cpc[c] = "await" /\ call[c] = P[i]
        /\ \A i, j \in DOMAIN P : P[i] = P[j] => i = j
        /\ 1 \in DOMAIN P
    <3>1. \A i \in DOMAIN P : \E c \in Callers : cpc[c] = "await" /\ call[c] = P[i]
      BY DEF Awaited
    <3>2. \A i, j \in DOMAIN P : P[i] = P[j] => i = j
      BY DEF Awaited
    <3>3. 1 \in DOMAIN P
      <4> HIDE DEF P
      <4> QED
        BY <1>0, <2>1
    <3> QED
      BY <3>1, <3>2, <3>3
  <2> HIDE DEF P
  <2>5. \A i \in DOMAIN P' : \E d \in Callers : cpc'[d] = "await" /\ call'[d] = P'[i]
    <3> SUFFICES ASSUME NEW i \in DOMAIN P' PROVE \E d \in Callers : cpc'[d] = "await" /\ call'[d] = P'[i]
      OBVIOUS
    <3>1. PICK d \in Callers : cpc[d] = "await" /\ call[d] = P[i + 1]
      BY <2>3, <2>4
    <3>2. P[i + 1] # P[1]
      BY <2>3, <2>4
    <3> QED
      BY <2>2, <2>3, <3>1, <3>2
  <2>6. \A i, j \in DOMAIN P' : P'[i] = P'[j] => i = j
    BY <2>3, <2>4
  <2> QED
    BY <2>5, <2>6 DEF Awaited, P
<1>7. CASE Coordinator!BackendPanics
  <2>1. P' = <<>>
    BY <1>7, PipelineSteps
  <2> HIDE DEF P
  <2>2. DOMAIN P' = {}
    BY <2>1
  <2> QED
    BY <2>2 DEF Awaited, P
<1> QED
  BY <1>2, <1>3, <1>4, <1>5, <1>6, <1>7
     DEF Coordinator!Next, Coordinator!Passing, Coordinator!LoopStep

LEMMA ActiveCountedNext ==
  ASSUME CShape, CShape', ~cancelled', ActiveCounted, [Coordinator!Next]_(Coordinator!vars)
  PROVE  ActiveCounted'
<1> SUFFICES ASSUME loop' # "ended" PROVE ActiveCounted'
  BY DEF ActiveCounted
<1>00. loop # "ended"
  BY DEF CShape, Coordinator!Next, Coordinator!Passing, Coordinator!LoopStep, Coordinator!vars,
     Coordinator!Submit, Coordinator!Acquire, Coordinator!Send, Coordinator!SendFails, Coordinator!ResponseLost,
     Coordinator!Return, Coordinator!Cancel, Coordinator!Receive, Coordinator!WaitTimesOut,
     Coordinator!CountBatch, Coordinator!Process, Coordinator!BackendPanics
<1> DEFINE B == At({"send", "await", "answered"})
<1>0. IsFiniteSet(B) /\ Cardinality(B) \in Nat /\ loop # "ended" /\ activeRequests = Cardinality(B)
  BY <1>00, AtFinite DEF ActiveCounted
<1>1. ASSUME B' = B, activeRequests' = activeRequests PROVE ActiveCounted'
  BY <1>0, <1>1 DEF ActiveCounted
<1>2. ASSUME NEW c \in Callers, Coordinator!Acquire(c) PROVE ActiveCounted'
  <2>1. /\ B' = B \cup {c} /\ c \notin B /\ activeRequests' = activeRequests + 1 /\ loop' = loop
    BY <1>2 DEF CShape, Coordinator!Acquire, Coordinator!Goto, At
  <2>2. Cardinality(B') = Cardinality(B) + 1
    <3> HIDE DEF B
    <3> QED
      BY <1>0, <2>1, FS_AddElement
  <2>3. activeRequests' = Cardinality(B') /\ loop' # "ended"
    BY <1>0, <2>1, <2>2
  <2> QED
    BY <2>3 DEF ActiveCounted
<1>3. ASSUME NEW c \in Callers, Coordinator!Return(c) PROVE ActiveCounted'
  <2>1. /\ B' = B \ {c} /\ c \in B /\ activeRequests' = activeRequests - 1 /\ loop' = loop
    BY <1>3 DEF CShape, Coordinator!Return, Coordinator!Goto, At
  <2>2. Cardinality(B') = Cardinality(B) - 1
    <3> HIDE DEF B
    <3> QED
      BY <1>0, <2>1, FS_RemoveElement
  <2>3. activeRequests' = Cardinality(B') /\ loop' # "ended"
    BY <1>0, <2>1, <2>2
  <2> QED
    BY <2>3 DEF ActiveCounted
<1>4. ASSUME NEW c \in Callers,
             \/ Coordinator!Submit(c) \/ Coordinator!Send(c) \/ Coordinator!SendFails(c)
             \/ Coordinator!ResponseLost(c) \/ Coordinator!Cancel(c)
      PROVE  ActiveCounted'
  <2>1. B' = B /\ activeRequests' = activeRequests /\ loop' = loop
    BY <1>0, <1>4
       DEF CShape, Coordinator!Submit, Coordinator!Send, Coordinator!SendFails, Coordinator!ResponseLost,
           Coordinator!Cancel, Coordinator!Goto, Coordinator!counters, At
  <2> QED
    BY <1>0, <1>1, <2>1
<1>5. ASSUME Coordinator!LoopStep \/ Coordinator!BackendPanics \/ UNCHANGED Coordinator!vars
      PROVE  ActiveCounted'
  <2>1. B' = B /\ activeRequests' = activeRequests /\ loop' # "ended"
    BY <1>0, <1>5
       DEF CShape, Coordinator!LoopStep, Coordinator!Receive, Coordinator!AfterReceive, Coordinator!WaitTimesOut,
           Coordinator!CountBatch, Coordinator!Process, Coordinator!BackendPanics, Coordinator!vars,
           Coordinator!counters, At
  <2> QED
    BY <1>1, <2>1
<1> QED
  BY <1>2, <1>3, <1>4, <1>5 DEF Coordinator!Next, Coordinator!Passing

LEMMA CInvInit == Coordinator!CoordinatorAssumption /\ Coordinator!Init => CInv
<1> SUFFICES ASSUME Coordinator!CoordinatorAssumption, Coordinator!Init PROVE CInv
  OBVIOUS
<1>0. /\ cpc = [c \in Callers |-> "idle"] /\ call = [c \in Callers |-> 0] /\ calls = 0
      /\ channel = <<>> /\ loop = "receive" /\ batch = <<>> /\ activeRequests = 0
      /\ cancelled \in BOOLEAN
  BY Zenon DEF Coordinator!Init
<1>1. CShape
  BY <1>0 DEF Coordinator!CoordinatorAssumption, CShape
<1>2. At({"send", "await", "answered"}) = {} /\ Cardinality({}) = 0
  BY FS_EmptySet DEF At, Coordinator!Init
<1>3. PermitsKept
  BY <1>2 DEF PermitsKept, Coordinator!CoordinatorAssumption
<1>4. ActiveCounted
  BY <1>0, <1>2 DEF ActiveCounted
<1>5. Awaited(Coordinator!Pipeline)
  <2>1. DOMAIN (<<>> \o <<>>) = {}
    OBVIOUS
  <2> QED
    BY <2>1 DEF Awaited, Coordinator!Pipeline, Coordinator!Init
<1> QED
  BY <1>1, <1>3, <1>4, <1>5 DEF CInv

LEMMA CInvNext == CInv /\ [Coordinator!Next]_(Coordinator!vars) => CInv'
<1> SUFFICES ASSUME CInv, [Coordinator!Next]_(Coordinator!vars) PROVE CInv'
  OBVIOUS
<1>1. ~cancelled' => ~cancelled
  BY DEF Coordinator!Next, Coordinator!Passing, Coordinator!LoopStep, Coordinator!vars,
     Coordinator!Submit, Coordinator!Acquire, Coordinator!Send, Coordinator!SendFails, Coordinator!ResponseLost,
     Coordinator!Return, Coordinator!Cancel, Coordinator!Receive, Coordinator!WaitTimesOut,
     Coordinator!CountBatch, Coordinator!Process, Coordinator!BackendPanics
<1>2. CShape' /\ PermitsKept'
  BY CShapeNext, PermitsNext DEF CInv
<1>3. ~cancelled' => Awaited(Coordinator!Pipeline)'
  BY <1>1, AwaitedNext DEF CInv
<1>4. ~cancelled' => ActiveCounted'
  BY <1>1, <1>2, ActiveCountedNext DEF CInv
<1> QED
  BY <1>2, <1>3, <1>4 DEF CInv

\* Each request beyond submit has a client of its own that holds a permit.
LEMMA InFlightWithinPermits ==
  ASSUME CInv, ~cancelled PROVE Len(channel) + Len(batch) <= MaxConcurrent
<1> DEFINE P == Coordinator!Pipeline
           H == At({"send", "await", "answered"})
           of == [i \in 1..Len(P) |-> CHOOSE c \in Callers : cpc[c] = "await" /\ call[c] = P[i]]
<1>1. /\ P \in Seq(Nat) /\ Len(P) = Len(channel) + Len(batch) /\ Len(P) \in Nat /\ DOMAIN P = 1..Len(P)
  BY PipelineSteps DEF CInv
<1>2. /\ IsFiniteSet(H) /\ Cardinality(H) \in Nat /\ MaxConcurrent \in Nat
      /\ Cardinality(H) <= MaxConcurrent
  BY AtFinite DEF CInv, CShape, PermitsKept, Coordinator!CoordinatorAssumption
<1>3. /\ \A i \in 1..Len(P) : \E c \in Callers : cpc[c] = "await" /\ call[c] = P[i]
      /\ \A i, j \in 1..Len(P) : P[i] = P[j] => i = j
  BY <1>1 DEF CInv, Awaited
<1>4. \A i \in 1..Len(P) : of[i] \in Callers /\ cpc[of[i]] = "await" /\ call[of[i]] = P[i]
  <2> HIDE DEF P
  <2> QED
    BY <1>3
<1>5. of \in [1..Len(P) -> H]
  <2>1. \A i \in 1..Len(P) : of[i] \in H
    BY <1>4 DEF At
  <2> HIDE DEF P, H
  <2> QED
    BY <2>1
<1> HIDE DEF P, H, of
<1>6. \A i, j \in 1..Len(P) : of[i] = of[j] => i = j
  BY <1>3, <1>4
<1>7. of \in Injection(1..Len(P), H)
  BY <1>5, <1>6 DEF Injection, IsInjective
<1>8. Cardinality(1..Len(P)) <= Cardinality(H) /\ Cardinality(1..Len(P)) = Len(P)
  BY <1>1, <1>2, <1>7, FS_Injection, FS_Interval
<1>9. Len(P) <= MaxConcurrent
  BY <1>1, <1>2, <1>8
<1> QED
  BY <1>1, <1>9

\* What a step may do to the order in which requests are served, also when calls are
\* cancelled and the backend panics.
LEMMA StepsKeepOrder ==
  ASSUME CShape, [Coordinator!Next]_(Coordinator!vars)
  PROVE  LET P == Coordinator!Pipeline
         IN  P' # P => \/ P' = <<>>
                       \/ P # <<>> /\ P' = Tail(P)
                       \/ \E n \in Coordinator!Calls : P' = Append(P, n)
<1> DEFINE P == Coordinator!Pipeline
<1>1. ASSUME NEW c \in Callers, Coordinator!Send(c)
      PROVE  \E n \in Coordinator!Calls : P' = Append(P, n)
  <2>1. call[c] \in Coordinator!Calls
    BY <1>1 DEF CShape, Coordinator!CoordinatorAssumption, Coordinator!Send, Coordinator!Goto, Coordinator!Calls
  <2> QED
    BY <1>1, <2>1, PipelineSteps
<1>2. ASSUME NEW c \in Callers,
             \/ Coordinator!Submit(c) \/ Coordinator!Acquire(c) \/ Coordinator!SendFails(c)
             \/ Coordinator!ResponseLost(c) \/ Coordinator!Return(c) \/ Coordinator!Cancel(c)
      PROVE  P' = P
  BY <1>2 DEF Coordinator!Submit, Coordinator!Acquire, Coordinator!SendFails, Coordinator!ResponseLost,
              Coordinator!Return, Coordinator!Cancel, Coordinator!Pipeline
<1>3. Coordinator!WaitTimesOut \/ Coordinator!CountBatch \/ UNCHANGED Coordinator!vars => P' = P
  BY DEF Coordinator!WaitTimesOut, Coordinator!CountBatch, Coordinator!vars, Coordinator!Pipeline
<1> QED
  BY <1>1, <1>2, <1>3, PipelineSteps DEF Coordinator!Next, Coordinator!Passing, Coordinator!LoopStep

\* Until a call is cancelled the semaphore of the coordinator bounds what is in flight,
\* so that its channel never delays a call, and until a backend panics, too, the
\* counter of active requests does not leak (submit, inference/coordinator.rs).
THEOREM CallsAlwaysAccounted ==
  Coordinator!CoordinatorAssumption => (Coordinator!Spec => []CallsAccounted)
<1> SUFFICES ASSUME Coordinator!CoordinatorAssumption PROVE Coordinator!Spec => []CallsAccounted
  OBVIOUS
<1>1. CInv => Coordinator!InFlightBounded
  BY InFlightWithinPermits DEF Coordinator!InFlightBounded
<1>2. CInv => Coordinator!ActiveCountsCalls
  BY CoordinatorCounts DEF CInv, ActiveCounted, At, Coordinator!ActiveCountsCalls,
     Coordinator!Holders
<1>3. CInv => CallsAccounted
  BY <1>1, <1>2 DEF CallsAccounted
<1> QED
  BY <1>3, CInvInit, CInvNext, PTL DEF Coordinator!Spec

\* Requests leave the loop in the order of their arrival (batch_loop).
LEMMA ServedInOrder ==
  Coordinator!CoordinatorAssumption => (Coordinator!Spec => Coordinator!FirstInFirstOut)
<1>1. CInv /\ [Coordinator!Next]_(Coordinator!vars) =>
        [Coordinator!Pipeline' # Coordinator!Pipeline =>
           \/ Coordinator!Pipeline' = <<>>
           \/ Coordinator!Pipeline # <<>> /\ Coordinator!Pipeline' = Tail(Coordinator!Pipeline)
           \/ \E n \in Coordinator!Calls : Coordinator!Pipeline' = Append(Coordinator!Pipeline, n)
        ]_(Coordinator!vars)
  BY StepsKeepOrder DEF CInv
<1> QED
  BY <1>1, CInvInit, CInvNext, PTL DEF Coordinator!Spec, Coordinator!FirstInFirstOut

-----------------------------------------------------------------------------
\* Both queues keep their order: the request queue, where pop and pop_fair choose and
\* queue_request appends (queue.rs), implements one with a first-in first-out lane for
\* each priority, and the coordinator's loop (batch_loop, inference/coordinator.rs) takes
\* calls in the order of their arrival, cancelled ones and a panicking backend included.
THEOREM QueuesAlwaysKeepOrder ==
  Coordinator!CoordinatorAssumption =>
    (QSpec /\ Coordinator!Spec => QueuesKeepOrder)
  BY QueueImplementsFifo, ServedInOrder DEF QueuesKeepOrder

-----------------------------------------------------------------------------
(***************************************************************************)
(* The types.  Of the request queue they say that total_count is the       *)
(* number of the requests in the queues; of the coordinator, that a batch  *)
(* is never empty while it is worked on, nor too large, that the channel   *)
(* does not overfill and that the counter of active requests, which errors *)
(* and cancelled calls leave too high, is never too low.                   *)
(***************************************************************************)
Lens(qs) == [p \in Priorities |-> Len(qs[p])]

LEMMA TotalIsSum ==
  MapThenSumSet(LAMBDA p : Len(queues[p]), Priorities) = SumOf(Lens(queues), Priorities)
<1>1. MapThenSumSet(LAMBDA p : Len(queues[p]), Priorities) =
        (CHOOSE it : it = [s \in SUBSET Priorities |->
           IF s = {} THEN 0 ELSE Len(queues[Pick(s)]) + it[s \ {Pick(s)}]])[Priorities]
  BY DEF MapThenSumSet, MapThenFoldSet, Pick
<1>2. \A s \in SUBSET Priorities : s # {} => Lens(queues)[Pick(s)] = Len(queues[Pick(s)])
  BY PickIn DEF Lens
<1>3. \A it : it = [s \in SUBSET Priorities |->
                     IF s = {} THEN 0 ELSE Len(queues[Pick(s)]) + it[s \ {Pick(s)}]]
                <=> Sums(Lens(queues), Priorities, it)
  BY <1>2 DEF Sums
<1> QED
  BY <1>1, <1>3, SumOfTable

LEMMA PrioritiesFinite == IsFiniteSet(Priorities)
<1>1. Priorities \subseteq 0..3 /\ 0 \in Int /\ 3 \in Int
  BY QueueAssumption DEF QueueAssumption
<1>2. IsFiniteSet(0..3)
  BY <1>1, FS_Interval
<1> QED
  BY <1>1, <1>2, FS_Subset

\* A queue that grows or shrinks changes the sum by as much.
LEMMA LensChange ==
  ASSUME NEW qs \in [Priorities -> Seq(Clients)], NEW new \in [Priorities -> Seq(Clients)],
         NEW p \in Priorities, \A q \in Priorities : q # p => new[q] = qs[q]
  PROVE  SumOf(Lens(new), Priorities) = SumOf(Lens(qs), Priorities) - Len(qs[p]) + Len(new[p])
<1>1. IsFiniteSet(Priorities)
  BY PrioritiesFinite
<1>2. /\ IntValued(Lens(qs), Priorities) /\ IntValued(Lens(new), Priorities)
      /\ Lens(qs)[p] = Len(qs[p]) /\ Lens(new)[p] = Len(new[p])
      /\ \A q \in Priorities \ {p} : Lens(qs)[q] = Lens(new)[q]
  BY <1>1 DEF IntValued, Lens
<1> QED
  BY <1>2, SumUpdate

Counted == total = SumOf(Lens(queues), Priorities)

AskedFor ==
  /\ request \in [Clients -> Request \cup {NoRequest}]
  /\ \A c \in Clients : pc[c] # "idle" => request[c] \in Request
  /\ job \in [Workers -> Job \cup {NoJob}]

LEMMA CountedNext ==
  ASSUME FifoInv, FifoInv', Counted, [QNext]_qVars PROVE Counted'
<1>0. queues \in [Priorities -> Seq(Clients)] /\ queues' \in [Priorities -> Seq(Clients)]
  BY DEF FifoInv
<1>1. ASSUME NEW c \in Clients, Push(c) PROVE Counted'
  <2> DEFINE p == request[c].prio
  <2>1. /\ p \in Priorities /\ \A q \in Priorities : q # p => queues'[q] = queues[q]
    BY <1>1, PushPlaces
  <2>2. queues'[p] = Append(queues[p], c) /\ total' = total + 1
    BY <1>0, <1>1, <2>1 DEF Push
  <2>3. Len(queues'[p]) = Len(queues[p]) + 1 /\ Len(queues[p]) \in Nat
    BY <1>0, <2>1, <2>2
  <2> HIDE DEF p
  <2>4. SumOf(Lens(queues'), Priorities) = SumOf(Lens(queues), Priorities) - Len(queues[p]) + Len(queues'[p])
    BY <1>0, <2>1, LensChange
  <2>5. total \in Int
    BY DEF FifoInv, QTyped
  <2> QED
    BY <2>2, <2>3, <2>4, <2>5 DEF Counted
<1>2. ASSUME NEW w \in Workers, NEW p \in Priorities, Pop(w, p) PROVE Counted'
  <2>1. queues[p] # <<>>
    BY <1>2, PopPlaces DEF Pop
  <2>2. /\ queues'[p] = Tail(queues[p]) /\ total' = total - 1
        /\ \A q \in Priorities : q # p => queues'[q] = queues[q]
    BY <1>0, <1>2 DEF Pop
  <2>3. Len(queues'[p]) = Len(queues[p]) - 1 /\ Len(queues[p]) \in Nat
    BY <1>0, <2>1, <2>2
  <2>4. SumOf(Lens(queues'), Priorities) = SumOf(Lens(queues), Priorities) - Len(queues[p]) + Len(queues'[p])
    BY <1>0, <2>2, LensChange
  <2>5. total \in Int
    BY DEF FifoInv, QTyped
  <2> QED
    BY <2>2, <2>3, <2>4, <2>5 DEF Counted
<1>3. ASSUME UNCHANGED <<queues, total>> PROVE Counted'
  BY <1>3 DEF Counted
<1> QED
  BY <1>1, <1>2, <1>3 DEF QNext, qVars, CheckCapacity, WorkerStep, Acquire, Count, CountStat, Respond,
     Uncount, UncountStat

LEMMA AskedForNext ==
  ASSUME FifoInv, AskedFor, [QNext]_qVars PROVE AskedFor'
<1> USE DEF AskedFor, ClientGoes, WorkerGoes
<1>1. ASSUME NEW c \in Clients, Push(c) PROVE AskedFor'
  BY <1>1 DEF Push, workerVars, FifoInv, QTyped
<1>2. ASSUME NEW c \in Clients, NEW r \in Request, CheckCapacity(c, r) PROVE AskedFor'
  BY <1>2 DEF CheckCapacity, workerVars, FifoInv, QTyped
<1>3. ASSUME NEW w \in Workers, NEW p \in Priorities, Pop(w, p) PROVE AskedFor'
  <2> DEFINE c == queues[p][1]
  <2>1. c \in Clients /\ pc[c] = "waiting" /\ Head(queues[p]) = c
    BY <1>3, PopPlaces DEF Pop, FifoInv, QueuedWait
  <2>2. request[c] \in Request
    BY <2>1
  <2>3. [client |-> c, model |-> request[c].model] \in Job
    BY <2>1, <2>2 DEF Request, Job
  <2>4. UNCHANGED <<pc, request>> /\ job' = [job EXCEPT ![w] = [client |-> c, model |-> request[c].model]]
    BY <1>3, <2>1 DEF Pop, Taken, clientVars
  <2> HIDE DEF c
  <2> QED
    BY <2>3, <2>4
<1>4. ASSUME NEW w \in Workers, Acquire(w) \/ Count(w) \/ CountStat(w) \/ Uncount(w) PROVE AskedFor'
  BY <1>4 DEF Acquire, Count, CountStat, Uncount, clientVars
<1>5. ASSUME NEW w \in Workers, UncountStat(w) PROVE AskedFor'
  BY <1>5 DEF UncountStat, clientVars
<1>6. ASSUME NEW w \in Workers, Respond(w) PROVE AskedFor'
  BY <1>6 DEF Respond, FifoInv, QTyped
<1>7. CASE UNCHANGED qVars
  BY <1>7 DEF qVars, clientVars, workerVars
<1> QED
  BY <1>1, <1>2, <1>3, <1>4, <1>5, <1>6, <1>7 DEF QNext, WorkerStep

LEMMA QueueAlwaysTyped == QSpec => []QTypeOK
<1>1. QInit => Counted /\ AskedFor
  <2> SUFFICES ASSUME QInit PROVE Counted /\ AskedFor
    OBVIOUS
  <2>1. IsFiniteSet(Priorities)
    BY PrioritiesFinite
  <2>2. Lens(queues) = [p \in Priorities |-> 0] /\ total = 0
    BY DEF QInit, Lens
  <2>3. Counted
    BY <2>1, <2>2, SumOfNothing DEF Counted
  <2> QED
    BY <2>3 DEF QInit, AskedFor
<1>2. FifoInv /\ Counted /\ AskedFor => QTypeOK
  BY TotalIsSum DEF FifoInv, QTyped, Counted, AskedFor, QTypeOK, WorkPlaces
<1> QED
  BY <1>1, <1>2, FifoInvInit, FifoInvNext, CountedNext, AskedForNext, PTL DEF QSpec

\* No counter below the calls it counts, and no batch that collects is full.
AtLeastActive ==
  /\ Cardinality(At({"send", "await", "answered"})) <= activeRequests
  /\ loop = "collect" => Len(batch) < MaxBatch

LEMMA AtLeastActiveNext ==
  ASSUME CShape, CShape', AtLeastActive, [Coordinator!Next]_(Coordinator!vars)
  PROVE  AtLeastActive'
<1> DEFINE B == At({"send", "await", "answered"})
<1>0. IsFiniteSet(B) /\ Cardinality(B) \in Nat /\ activeRequests \in Int /\ Cardinality(B) <= activeRequests
  BY AtFinite DEF AtLeastActive, CShape
<1>1. loop' = "collect" => Len(batch') < MaxBatch
  BY DEF AtLeastActive, CShape, Coordinator!Next, Coordinator!Passing, Coordinator!LoopStep, Coordinator!vars,
     Coordinator!Submit, Coordinator!Acquire, Coordinator!Send, Coordinator!SendFails, Coordinator!ResponseLost,
     Coordinator!Return, Coordinator!Cancel, Coordinator!Receive, Coordinator!AfterReceive,
     Coordinator!WaitTimesOut, Coordinator!CountBatch, Coordinator!Process, Coordinator!BackendPanics
<1>2. ASSUME B' \in SUBSET B, activeRequests' = activeRequests PROVE AtLeastActive'
  <2>1. Cardinality(B') <= Cardinality(B) /\ Cardinality(B') \in Nat
    BY <1>0, <1>2, FS_Subset, FS_CardinalityType
  <2>2. Cardinality(B') <= activeRequests'
    BY <1>0, <1>2, <2>1
  <2> QED
    BY <1>1, <2>2 DEF AtLeastActive
<1>3. ASSUME NEW c \in Callers, Coordinator!Acquire(c) PROVE AtLeastActive'
  <2>1. /\ B' = B \cup {c} /\ c \notin B /\ activeRequests' = activeRequests + 1
    BY <1>3 DEF CShape, Coordinator!Acquire, Coordinator!Goto, At
  <2>2. Cardinality(B') = Cardinality(B) + 1
    <3> HIDE DEF B
    <3> QED
      BY <1>0, <2>1, FS_AddElement
  <2>3. Cardinality(B') <= activeRequests'
    BY <1>0, <2>1, <2>2
  <2> QED
    BY <1>1, <2>3 DEF AtLeastActive
<1>4. ASSUME NEW c \in Callers, Coordinator!Return(c) PROVE AtLeastActive'
  <2>1. /\ B' = B \ {c} /\ c \in B /\ activeRequests' = activeRequests - 1
    BY <1>4 DEF CShape, Coordinator!Return, Coordinator!Goto, At
  <2>2. Cardinality(B') = Cardinality(B) - 1
    <3> HIDE DEF B
    <3> QED
      BY <1>0, <2>1, FS_RemoveElement
  <2>3. Cardinality(B') <= activeRequests'
    BY <1>0, <2>1, <2>2
  <2> QED
    BY <1>1, <2>3 DEF AtLeastActive
<1>5. ASSUME NEW c \in Callers,
             \/ Coordinator!Submit(c) \/ Coordinator!Send(c) \/ Coordinator!SendFails(c)
             \/ Coordinator!ResponseLost(c) \/ Coordinator!Cancel(c)
      PROVE  AtLeastActive'
  <2>1. B' \in SUBSET B /\ activeRequests' = activeRequests
    BY <1>5
       DEF CShape, Coordinator!Submit, Coordinator!Send, Coordinator!SendFails, Coordinator!ResponseLost,
           Coordinator!Cancel, Coordinator!Goto, Coordinator!counters, At
  <2> QED
    BY <1>2, <2>1
<1>6. ASSUME Coordinator!LoopStep \/ Coordinator!BackendPanics \/ UNCHANGED Coordinator!vars
      PROVE  AtLeastActive'
  <2>1. B' \in SUBSET B /\ activeRequests' = activeRequests
    BY <1>6
       DEF CShape, Coordinator!LoopStep, Coordinator!Receive, Coordinator!AfterReceive, Coordinator!WaitTimesOut,
           Coordinator!CountBatch, Coordinator!Process, Coordinator!BackendPanics, Coordinator!vars,
           Coordinator!counters, At
  <2> QED
    BY <1>2, <2>1
<1> QED
  BY <1>3, <1>4, <1>5, <1>6 DEF Coordinator!Next, Coordinator!Passing

LEMMA ActiveCount == CShape' => Cardinality(At({"send", "await", "answered"}))' \in Nat
<1>1. CShape => Cardinality(At({"send", "await", "answered"})) \in Nat
  BY AtFinite
<1>2. CShape' => (Cardinality(At({"send", "await", "answered"})) \in Nat)'
  BY <1>1, PTL
<1> QED
  BY <1>2

LEMMA CoordinatorTypedNext ==
  ASSUME CShape, CShape', AtLeastActive, AtLeastActive', Coordinator!TypeOK,
         [Coordinator!Next]_(Coordinator!vars)
  PROVE  Coordinator!TypeOK'
<1> USE DEF CShape, Coordinator!TypeOK, Coordinator!Pcs, Coordinator!Calls, Coordinator!Goto, Coordinator!counters
<1>0. activeRequests' \in Nat
  BY ActiveCount DEF AtLeastActive
<1> HIDE DEF AtLeastActive
<1>1. ASSUME NEW c \in Callers, Coordinator!Submit(c) PROVE Coordinator!TypeOK'
  BY <1>0, <1>1 DEF Coordinator!Submit, Coordinator!CoordinatorAssumption
<1>2. ASSUME NEW c \in Callers, Coordinator!Acquire(c) PROVE Coordinator!TypeOK'
  BY <1>0, <1>2 DEF Coordinator!Acquire
<1>3. ASSUME NEW c \in Callers, Coordinator!Send(c) PROVE Coordinator!TypeOK'
  <2>1. call[c] \in Coordinator!Calls
    BY <1>3 DEF Coordinator!Send, Coordinator!CoordinatorAssumption
  <2> QED
    BY <1>0, <1>3, <2>1 DEF Coordinator!Send, Coordinator!CoordinatorAssumption
<1>4. ASSUME NEW c \in Callers, Coordinator!SendFails(c) \/ Coordinator!ResponseLost(c) PROVE Coordinator!TypeOK'
  BY <1>0, <1>4 DEF Coordinator!SendFails, Coordinator!ResponseLost
<1>5. ASSUME NEW c \in Callers, Coordinator!Return(c) PROVE Coordinator!TypeOK'
  BY <1>0, <1>5 DEF Coordinator!Return
<1>6. ASSUME NEW c \in Callers, Coordinator!Cancel(c) PROVE Coordinator!TypeOK'
  BY <1>0, <1>6 DEF Coordinator!Cancel
<1>7. CASE Coordinator!Receive
  <2>1. /\ channel # <<>> /\ channel \in Seq(Coordinator!Calls) /\ batch \in Seq(Coordinator!Calls)
        /\ channel' = Tail(channel) /\ batch' = Append(batch, Head(channel))
        /\ loop' = IF Len(batch') < MaxBatch THEN "collect" ELSE "count"
        /\ UNCHANGED <<cpc, call, calls, activeRequests, totalRequests>>
    BY <1>7 DEF Coordinator!Receive, Coordinator!AfterReceive
  <2>2. (loop = "receive" /\ batch = <<>>) \/ Len(batch) < MaxBatch
    BY <1>7 DEF Coordinator!Receive, AtLeastActive
  <2>3. /\ channel' \in Seq(Coordinator!Calls) /\ Len(channel') = Len(channel) - 1 /\ Len(channel) \in Nat
        /\ batch' \in Seq(Coordinator!Calls) /\ Len(batch') = Len(batch) + 1 /\ Len(batch) \in Nat
        /\ batch' # <<>>
    <3> HIDE DEF Coordinator!Calls, Coordinator!TypeOK, CShape
    <3>1. Head(channel) \in Coordinator!Calls
      BY <2>1
    <3> QED
      BY <2>1, <3>1
  <2>4. Len(batch') <= IF MaxBatch = 0 THEN 1 ELSE MaxBatch
    <3>1. batch = <<>> => Len(batch) = 0
      OBVIOUS
    <3>2. MaxBatch \in Nat
      BY DEF Coordinator!CoordinatorAssumption
    <3>3. Len(batch) = 0 \/ Len(batch) < MaxBatch
      BY <2>2, <3>1
    <3> HIDE DEF CShape, Coordinator!TypeOK
    <3> QED
      BY <2>3, <3>2, <3>3
  <2>5. Len(channel') <= 2 * MaxConcurrent
    BY <2>3 DEF Coordinator!CoordinatorAssumption
  <2> QED
    BY <1>0, <2>1, <2>3, <2>4, <2>5
<1>8. CASE Coordinator!WaitTimesOut \/ Coordinator!CountBatch
  BY <1>0, <1>8 DEF Coordinator!WaitTimesOut, Coordinator!CountBatch
<1>9. CASE Coordinator!Process
  <2>1. /\ batch # <<>> /\ batch \in Seq(Coordinator!Calls) /\ batch' = Tail(batch)
        /\ cpc' \in [Callers -> Coordinator!Pcs] /\ loop' = IF Len(batch) = 1 THEN "receive" ELSE "process"
        /\ UNCHANGED <<call, calls, channel, activeRequests, totalRequests>>
    BY <1>9 DEF Coordinator!Process
  <2>2. /\ batch' \in Seq(Coordinator!Calls) /\ Len(batch') = Len(batch) - 1 /\ Len(batch) \in Nat
    <3> HIDE DEF Coordinator!Calls, Coordinator!TypeOK, CShape
    <3> QED
      BY <2>1
  <2>3. Len(batch') <= IF MaxBatch = 0 THEN 1 ELSE MaxBatch
    BY <2>2 DEF Coordinator!CoordinatorAssumption
  <2>4. loop' \in {"receive", "process"} /\ (loop' \in {"collect", "count", "process"} <=> batch' # <<>>)
    BY <2>1
  <2> QED
    BY <1>0, <2>1, <2>2, <2>3, <2>4
<1>10. CASE Coordinator!BackendPanics
  BY <1>0, <1>10 DEF Coordinator!BackendPanics, Coordinator!CoordinatorAssumption
<1>11. CASE UNCHANGED Coordinator!vars
  BY <1>0, <1>11 DEF Coordinator!vars
<1> QED
  BY <1>1, <1>2, <1>3, <1>4, <1>5, <1>6, <1>7, <1>8, <1>9, <1>10, <1>11
     DEF Coordinator!Next, Coordinator!Passing, Coordinator!LoopStep

LEMMA CoordinatorAlwaysTyped ==
  Coordinator!CoordinatorAssumption => (Coordinator!Spec => []Coordinator!TypeOK)
<1>1. Coordinator!CoordinatorAssumption /\ Coordinator!Init => AtLeastActive /\ Coordinator!TypeOK
  <2> SUFFICES ASSUME Coordinator!CoordinatorAssumption, Coordinator!Init
               PROVE  AtLeastActive /\ Coordinator!TypeOK
    OBVIOUS
  <2>1. At({"send", "await", "answered"}) = {} /\ Cardinality({}) = 0
    BY FS_EmptySet DEF At, Coordinator!Init
  <2>2. AtLeastActive
    <3>1. activeRequests = 0 /\ loop = "receive"
      BY Zenon DEF Coordinator!Init
    <3> QED
      BY <2>1, <3>1 DEF AtLeastActive
  <2>3. /\ <<>> \in Seq(Coordinator!Calls) /\ Len(<<>>) = 0
        /\ MaxBatch \in Nat /\ MaxConcurrent \in Nat /\ MaxCalls \in Nat
    BY DEF Coordinator!CoordinatorAssumption
  <2>4. Len(<<>>) <= 2 * MaxConcurrent /\ Len(<<>>) <= IF MaxBatch = 0 THEN 1 ELSE MaxBatch
    BY <2>3
  <2>5. Coordinator!TypeOK
    <3>1. /\ cpc = [c \in Callers |-> "idle"] /\ call = [c \in Callers |-> 0] /\ calls = 0
          /\ channel = <<>> /\ loop = "receive" /\ batch = <<>> /\ activeRequests = 0 /\ totalRequests = 0
          /\ cancelled \in BOOLEAN
      BY Zenon DEF Coordinator!Init
    <3> QED
      BY <2>3, <2>4, <3>1 DEF Coordinator!TypeOK, Coordinator!Pcs
  <2> QED
    BY <2>2, <2>5
<1>2. CInv => CShape
  BY DEF CInv
<1> QED
  BY <1>1, <1>2, CInvInit, CInvNext, AtLeastActiveNext, CoordinatorTypedNext, PTL DEF Coordinator!Spec

\* In queue.rs total_count is the number of requests in the four queues; the channel and
\* the batch of the coordinator stay within their sizes and its counter above zero.
THEOREM ServingAlwaysTyped ==
  Coordinator!CoordinatorAssumption => (QSpec /\ Coordinator!Spec => []TypesOK)
<1> SUFFICES ASSUME Coordinator!CoordinatorAssumption PROVE QSpec /\ Coordinator!Spec => []TypesOK
  OBVIOUS
<1>1. QTypeOK /\ Coordinator!TypeOK => TypesOK
  BY DEF TypesOK
<1> QED
  BY <1>1, QueueAlwaysTyped, CoordinatorAlwaysTyped, PTL

-----------------------------------------------------------------------------
(***************************************************************************)
(* The two queues together.                                                *)
(***************************************************************************)
LEMMA StepOfServing ==
  ASSUME [ServingNext]_mcVars
  PROVE  [QNext]_qVars /\ [Coordinator!Next]_(Coordinator!vars)
<1>1. UNCHANGED coordinatorVars => UNCHANGED Coordinator!vars
  BY DEF coordinatorVars, Coordinator!vars, Coordinator!callVars, Coordinator!counters
<1>2. CASE ServingNext
  BY <1>1, <1>2, Zenon DEF ServingNext, OfQueue, OfCoordinator
<1>3. CASE UNCHANGED mcVars
  BY <1>1, <1>3, Zenon DEF mcVars
<1> QED
  BY <1>2, <1>3

\* A queue does beside the other what it does alone (queue.rs, inference/coordinator.rs).
THEOREM ServingBehavesAsAlone == FairSpec => QSpec /\ Coordinator!Spec
<1>1. ServingInit => QInit /\ Coordinator!Init
  BY Zenon DEF ServingInit
<1> QED
  BY <1>1, StepOfServing, PTL DEF FairSpec, QSpec, Coordinator!Spec

\* Everything the run of the queues checks of a state and of a step, for every number
\* of clients, workers and callers and every configuration.
THEOREM ServingAlwaysSafe ==
  FairSpec => /\ [](TypesOK /\ QueueOvershootBounded /\ ActiveCountsWorkers /\ CallsAccounted)
              /\ QueuesKeepOrder
<1>1. QSpec /\ Coordinator!Spec => []TypesOK
  BY ServingAssumption, ServingAlwaysTyped
<1>2. Coordinator!Spec => []CallsAccounted
  BY ServingAssumption, CallsAlwaysAccounted
<1>3. QSpec /\ Coordinator!Spec => QueuesKeepOrder
  BY ServingAssumption, QueuesAlwaysKeepOrder
<1> QED
  BY <1>1, <1>2, <1>3, ServingBehavesAsAlone, QueueOvershootAlwaysBounded,
     ActiveAlwaysCountsWorkers, PTL
=============================================================================
