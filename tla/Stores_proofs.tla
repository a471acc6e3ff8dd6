---------------------------- MODULE Stores_proofs ----------------------------
(***************************************************************************)
(* What the modules of the stores promise, for every value of their        *)
(* constants: the response cache with its order, the pages of the          *)
(* key-value cache and the log they hold, the file of the download         *)
(* manager, the models on the disk with their rows, the file of the hub    *)
(* client, and the scripts of the quantizer; GgufFile_proofs is about the  *)
(* model files.  Each section states the invariant of its module and       *)
(* shows that every action keeps it; the last one puts them together.      *)
(***************************************************************************)
EXTENDS Stores, GgufFile_proofs

(***************************************************************************)
(* The paged key-value cache.                                              *)
(***************************************************************************)
Lens(t) == [l \in Layers |-> Len(t[l])]

\* The tokens are not looked at.
Tabled ==
  /\ freePages \in Seq(PageIds)
  /\ pageTable \in [Layers -> Seq(PageIds)]

InTables(t) == UNION {ToSet(t[l]) : l \in Layers}

PagesKept ==
  /\ ToSet(freePages) \cup InTables(pageTable) = PageIds
  /\ Len(freePages) + SumOf(Lens(pageTable), Layers) = MaxPages
  /\ allocated = SumOf(Lens(pageTable), Layers)

KvInv == Tabled /\ PagesKept

LEMMA TablesSum ==
  MapThenSumSet(LAMBDA l : Len(pageTable[l]), Layers) = SumOf(Lens(pageTable), Layers)
<1>1. MapThenSumSet(LAMBDA l : Len(pageTable[l]), Layers) =
        (CHOOSE it : it = [s \in SUBSET Layers |->
           IF s = {} THEN 0 ELSE Len(pageTable[Pick(s)]) + it[s \ {Pick(s)}]])[Layers]
  BY DEF MapThenSumSet, MapThenFoldSet, Pick
<1>2. \A s \in SUBSET Layers : s # {} => Lens(pageTable)[Pick(s)] = Len(pageTable[Pick(s)])
  BY PickIn DEF Lens
<1>3. \A it : it = [s \in SUBSET Layers |->
                     IF s = {} THEN 0 ELSE Len(pageTable[Pick(s)]) + it[s \ {Pick(s)}]]
                <=> Sums(Lens(pageTable), Layers, it)
  BY <1>2 DEF Sums
<1> QED
  BY <1>1, <1>3, SumOfTable

LEMMA LensValued ==
  ASSUME KvAssumption, NEW t \in [Layers -> Seq(PageIds)]
  PROVE  IntValued(Lens(t), Layers)
<1>1. Lens(t) \in [Layers -> Int]
  BY DEF Lens
<1> QED
  BY <1>1 DEF KvAssumption, IntValued

\* One table gets longer or shorter.
Changed(t, l, q) == [t EXCEPT ![l] = q]

LEMMA OneTable ==
  ASSUME KvAssumption, NEW t \in [Layers -> Seq(PageIds)], NEW l \in Layers,
         NEW q \in Seq(PageIds), NEW u, u = Changed(t, l, q)
  PROVE  /\ u \in [Layers -> Seq(PageIds)] /\ u[l] = q
         /\ SumOf(Lens(t), Layers) \in Int
         /\ SumOf(Lens(u), Layers) = SumOf(Lens(t), Layers) - Len(t[l]) + Len(q)
<1>1. u \in [Layers -> Seq(PageIds)] /\ u[l] = q /\ \A k \in Layers \ {l} : u[k] = t[k]
  BY DEF Changed
<1>2. IntValued(Lens(u), Layers) /\ IntValued(Lens(t), Layers)
  BY <1>1, LensValued
<1>3. Lens(u)[l] = Len(q) /\ Lens(t)[l] = Len(t[l]) /\ \A k \in Layers \ {l} : Lens(t)[k] = Lens(u)[k]
  BY <1>1 DEF Lens
<1>4. SumOf(Lens(u), Layers) = SumOf(Lens(t), Layers) - Lens(t)[l] + Lens(u)[l]
  <2> DEFINE f == Lens(t)
             g == Lens(u)
  <2>1. IntValued(f, Layers) /\ IntValued(g, Layers) /\ \A k \in Layers \ {l} : f[k] = g[k]
    BY <1>2, <1>3
  <2> HIDE DEF f, g
  <2>2. SumOf(g, Layers) = SumOf(f, Layers) - f[l] + g[l]
    BY <2>1, SumUpdate
  <2> QED
    BY <2>2 DEF f, g
<1>5. SumOf(Lens(t), Layers) \in Int
  BY <1>2, SumAdds
<1> QED
  BY <1>1, <1>3, <1>4, <1>5

LEMMA PagesOfTables ==
  ASSUME NEW t \in [Layers -> Seq(PageIds)], NEW l \in Layers,
         NEW q \in Seq(PageIds), NEW u, u = Changed(t, l, q), NEW x
  PROVE  x \in InTables(u) \/ x \in ToSet(t[l]) <=> x \in InTables(t) \/ x \in ToSet(q)
<1>1. u[l] = q /\ \A k \in Layers : k # l => u[k] = t[k]
  BY DEF Changed
<1>2. ASSUME NEW v PROVE x \in InTables(v) <=> \E k \in Layers : x \in ToSet(v[k])
  BY Zenon DEF InTables
<1> QED
  BY <1>1, <1>2, Zenon

LEMMA Held == \A s, x : x \in ToSet(s) <=> \E i \in DOMAIN s : x = s[i]
  BY DEF ToSet

\* What a sequence of two parts holds, a longer one, and one without its end.
LEMMA ConcatHolds ==
  ASSUME NEW S, NEW s \in Seq(S), NEW t \in Seq(S)
  PROVE  /\ s \o t \in Seq(S) /\ Len(s \o t) = Len(s) + Len(t)
         /\ \A x : x \in ToSet(s \o t) <=> x \in ToSet(s) \/ x \in ToSet(t)
<1> DEFINE c == s \o t
<1>1. /\ c \in Seq(S) /\ Len(c) = Len(s) + Len(t) /\ Len(s) \in Nat /\ Len(t) \in Nat
      /\ DOMAIN s = 1..Len(s) /\ DOMAIN t = 1..Len(t) /\ DOMAIN c = 1..Len(c)
  OBVIOUS
<1>2. \A i \in 1..Len(c) : c[i] = IF i <= Len(s) THEN s[i] ELSE t[i - Len(s)]
  OBVIOUS
<1> HIDE DEF c
<1>3. ASSUME NEW x, x \in ToSet(c) PROVE x \in ToSet(s) \/ x \in ToSet(t)
  <2>1. PICK i \in 1..Len(c) : x = c[i]
    BY <1>1, <1>3, Held
  <2>2. CASE i <= Len(s)
    <3>1. x = s[i] /\ i \in 1..Len(s)
      BY <1>1, <1>2, <2>1, <2>2
    <3> QED
      BY <1>1, <3>1, Held
  <2>3. CASE ~(i <= Len(s))
    <3>1. x = t[i - Len(s)] /\ i - Len(s) \in 1..Len(t)
      BY <1>1, <1>2, <2>1, <2>3
    <3> QED
      BY <1>1, <3>1, Held
  <2> QED
    BY <2>2, <2>3
<1>4. ASSUME NEW x, x \in ToSet(s) PROVE x \in ToSet(c)
  <2>1. PICK i \in 1..Len(s) : x = s[i]
    BY <1>1, <1>4, Held
  <2>2. i \in 1..Len(c) /\ c[i] = x
    BY <1>1, <1>2, <2>1
  <2> QED
    BY <1>1, <2>2, Held
<1>5. ASSUME NEW x, x \in ToSet(t) PROVE x \in ToSet(c)
  <2>1. PICK i \in 1..Len(t) : x = t[i]
    BY <1>1, <1>5, Held
  <2>2. i + Len(s) \in 1..Len(c) /\ ~(i + Len(s) <= Len(s)) /\ (i + Len(s)) - Len(s) = i
    BY <1>1
  <2>3. c[i + Len(s)] = t[i]
    BY <1>2, <2>2
  <2> QED
    BY <1>1, <2>1, <2>2, <2>3, Held
<1>6. \A x : x \in ToSet(c) <=> x \in ToSet(s) \/ x \in ToSet(t)
  BY <1>3, <1>4, <1>5
<1> QED
  BY <1>1, <1>6 DEF c

LEMMA AppendHolds ==
  ASSUME NEW S, NEW s \in Seq(S), NEW e \in S
  PROVE  /\ Append(s, e) \in Seq(S) /\ Len(Append(s, e)) = Len(s) + 1
         /\ \A x : x \in ToSet(Append(s, e)) <=> x \in ToSet(s) \/ x = e
<1>1. Append(s, e) = s \o <<e>> /\ <<e>> \in Seq(S)
  BY AppendedAsOne
<1>2. \A x : x \in ToSet(<<e>>) <=> x = e
  BY DEF ToSet
<1>3. Append(s, e) \in Seq(S) /\ Len(Append(s, e)) = Len(s) + 1
  OBVIOUS
<1>4. \A x : x \in ToSet(s \o <<e>>) <=> x \in ToSet(s) \/ x \in ToSet(<<e>>)
  BY <1>1, ConcatHolds, Zenon
<1> QED
  BY <1>1, <1>2, <1>3, <1>4, Zenon

LEMMA FrontHolds ==
  ASSUME NEW S, NEW s \in Seq(S), s # <<>>
  PROVE  /\ Front(s) \in Seq(S) /\ Len(Front(s)) = Len(s) - 1 /\ Last(s) \in S
         /\ \A x : x \in ToSet(s) <=> x \in ToSet(Front(s)) \/ x = Last(s)
<1> DEFINE f == Front(s)
<1>1. Len(s) \in Nat /\ Len(s) # 0 /\ DOMAIN s = 1..Len(s) /\ \A i \in 1..Len(s) : s[i] \in S
  OBVIOUS
<1>2. f \in Seq(S) /\ Len(f) = Len(s) - 1 /\ \A i \in 1..(Len(s) - 1) : f[i] = s[i]
  BY <1>1 DEF Front
<1>3. DOMAIN f = 1..(Len(s) - 1)
  BY <1>2
<1>4. Last(s) = s[Len(s)]
  BY DEF Last
<1> HIDE DEF f
<1>5. \A i \in 1..Len(s) : i # Len(s) => i \in 1..(Len(s) - 1)
  <2>1. Len(s) \in Nat
    BY <1>1
  <2> QED
    BY <2>1
<1>6. Len(s) \in 1..Len(s) /\ \A i \in 1..(Len(s) - 1) : i \in 1..Len(s)
  BY <1>1
<1>7. ASSUME NEW x PROVE x \in ToSet(s) <=> x \in ToSet(f) \/ x = Last(s)
  <2>1. x \in ToSet(s) <=> \E i \in 1..Len(s) : x = s[i]
    BY <1>1, Held
  <2>2. x \in ToSet(f) <=> \E i \in 1..(Len(s) - 1) : x = f[i]
    BY <1>3, Held
  <2> QED
    BY <2>1, <2>2, <1>2, <1>4, <1>5, <1>6, Zenon
<1> QED
  BY <1>1, <1>2, <1>4, <1>6, <1>7 DEF f

LEMMA KvInvInit == ASSUME KvAssumption, KvInit PROVE KvInv
<1>1. freePages \in Seq(PageIds) /\ Len(freePages) = MaxPages
  BY DEF KvInit, PageIds, KvAssumption
<1>2. ToSet(freePages) = PageIds
  <2>1. ToSet(freePages) = {MaxPages - i : i \in 1..MaxPages}
    BY <1>1 DEF ToSet, KvInit
  <2>2. ASSUME NEW p \in PageIds PROVE MaxPages - (MaxPages - p) = p /\ MaxPages - p \in 1..MaxPages
    BY DEF PageIds, KvAssumption
  <2>3. ASSUME NEW i \in 1..MaxPages PROVE MaxPages - i \in PageIds
    BY DEF PageIds, KvAssumption
  <2>4. PageIds \subseteq {MaxPages - i : i \in 1..MaxPages}
    BY <2>2
  <2> QED
    BY <2>1, <2>3, <2>4
<1>3. pageTable \in [Layers -> Seq(PageIds)] /\ \A l \in Layers : Len(pageTable[l]) = 0 /\ ToSet(pageTable[l]) = {}
  BY DEF KvInit, ToSet
<1>4. Lens(pageTable) = [l \in Layers |-> 0]
  BY <1>3 DEF Lens
<1>5. SumOf(Lens(pageTable), Layers) = 0
  BY <1>4, SumOfNothing DEF KvAssumption
<1>6. InTables(pageTable) = {}
  BY <1>3 DEF InTables
<1>7. allocated = 0
  BY DEF KvInit
<1> QED
  BY <1>1, <1>2, <1>3, <1>5, <1>6, <1>7 DEF KvInv, Tabled, PagesKept, KvAssumption

LEMMA KvInvNext == ASSUME KvAssumption, KvInv, [KvNext]_kvVars PROVE KvInv'
<1> DEFINE total == SumOf(Lens(pageTable), Layers)
<1>0. freePages \in Seq(PageIds) /\ pageTable \in [Layers -> Seq(PageIds)]
  BY DEF KvInv, Tabled
<1>a. \A x : x \in PageIds <=> x \in ToSet(freePages) \/ x \in InTables(pageTable)
  BY DEF KvInv, PagesKept
<1>b. Len(freePages) + total = MaxPages /\ allocated = total
  BY DEF KvInv, PagesKept
<1>c. Len(freePages) \in Nat /\ MaxPages \in Nat /\ \A l \in Layers : Len(pageTable[l]) \in Nat
  BY <1>0 DEF KvAssumption
<1>d. ASSUME freePages' \in Seq(PageIds), pageTable' \in [Layers -> Seq(PageIds)],
             \A x : x \in PageIds <=> x \in ToSet(freePages') \/ x \in InTables(pageTable'),
             Len(freePages') + SumOf(Lens(pageTable'), Layers) = MaxPages,
             allocated' = SumOf(Lens(pageTable'), Layers)
      PROVE  KvInv'
  <2>1. ToSet(freePages') \cup InTables(pageTable') = PageIds
    BY <1>d
  <2> QED
    BY <1>d, <2>1 DEF KvInv, Tabled, PagesKept
<1>1. ASSUME NEW l \in Layers, AppendToNewPage(l) PROVE KvInv'
  <2> DEFINE page == Last(freePages)
             q == Append(pageTable[l], page)
             f == Front(freePages)
  <2>1. freePages # <<>> /\ freePages' = f /\ allocated' = allocated + 1
        /\ pageTable' = Changed(pageTable, l, q)
    BY <1>1, Zenon DEF AppendToNewPage, Changed
  <2>2. /\ f \in Seq(PageIds) /\ page \in PageIds /\ Len(f) = Len(freePages) - 1
        /\ \A x : x \in ToSet(freePages) <=> x \in ToSet(f) \/ x = page
    BY <1>0, <2>1, FrontHolds, Zenon
  <2>3. pageTable[l] \in Seq(PageIds)
    BY <1>0
  <2>4. /\ q \in Seq(PageIds) /\ Len(q) = Len(pageTable[l]) + 1
        /\ \A x : x \in ToSet(q) <=> x \in ToSet(pageTable[l]) \/ x = page
    BY <2>2, <2>3, AppendHolds, Zenon
  <2> HIDE DEF q, page, f
  <2>5. /\ pageTable' \in [Layers -> Seq(PageIds)] /\ total \in Int /\ pageTable'[l] = q
        /\ SumOf(Lens(pageTable'), Layers) = total - Len(pageTable[l]) + Len(q)
    <3>1. pageTable' \in [Layers -> Seq(PageIds)]
      BY <1>0, <2>1, <2>4, OneTable
    <3>2. total \in Int
      BY <1>0, <2>1, <2>4, OneTable
    <3>3. pageTable'[l] = q
      BY <1>0, <2>1, <2>4, OneTable
    <3>4. SumOf(Lens(pageTable'), Layers) = total - Len(pageTable[l]) + Len(q)
      BY <1>0, <2>1, <2>4, OneTable
    <3> QED
      BY <3>1, <3>2, <3>3, <3>4
  <2>6. ASSUME NEW x PROVE x \in InTables(pageTable') \/ x \in ToSet(pageTable[l])
                            <=> x \in InTables(pageTable) \/ x \in ToSet(q)
    BY <1>0, <2>1, <2>4, PagesOfTables
  <2>7. \A x : x \in ToSet(q) => x \in InTables(pageTable')
    BY <2>5, Zenon DEF InTables
  <2>7a. \A x : x \in ToSet(pageTable[l]) => x \in InTables(pageTable)
    BY Zenon DEF InTables
  <2>8. ASSUME NEW x PROVE x \in PageIds <=> x \in ToSet(freePages') \/ x \in InTables(pageTable')
    <3>1. x \in ToSet(freePages') <=> x \in ToSet(f)
      BY <2>1
    <3>2. x \in PageIds <=> x \in ToSet(freePages) \/ x \in InTables(pageTable)
      BY <1>a
    <3>3. x \in ToSet(freePages) <=> x \in ToSet(f) \/ x = page
      BY <2>2
    <3>4. x \in ToSet(q) <=> x \in ToSet(pageTable[l]) \/ x = page
      BY <2>4
    <3>5. x \in ToSet(q) => x \in InTables(pageTable')
      BY <2>7
    <3> QED
      BY <2>6, <2>7a, <3>1, <3>2, <3>3, <3>4, <3>5
  <2>9. SumOf(Lens(pageTable'), Layers) = total + 1 /\ Len(freePages') = Len(freePages) - 1
    <3>1. Len(pageTable[l]) \in Nat /\ Len(q) = Len(pageTable[l]) + 1 /\ total \in Int
      BY <1>c, <2>4, <2>5
    <3>2. Len(freePages') = Len(freePages) - 1
      BY <2>1, <2>2
    <3>3. SumOf(Lens(pageTable'), Layers) = total - Len(pageTable[l]) + Len(q)
      BY <2>5
    <3>4. SumOf(Lens(pageTable'), Layers) = total + 1
      <4> DEFINE n == Len(pageTable[l])
                 m == Len(q)
      <4>1. n \in Nat /\ m = n + 1
        BY <3>1
      <4>2. SumOf(Lens(pageTable'), Layers) = total - n + m
        BY <3>3
      <4> HIDE DEF total, n, m
      <4> QED
        BY <3>1, <4>1, <4>2
    <3> QED
      BY <3>2, <3>4
  <2>10. Len(freePages') + SumOf(Lens(pageTable'), Layers) = MaxPages
         /\ allocated' = SumOf(Lens(pageTable'), Layers)
    <3>1. allocated' = allocated + 1 /\ total \in Int
      BY <2>1, <2>5
    <3> HIDE DEF total
    <3> QED
      BY <1>b, <1>c, <2>9, <3>1
  <2>11. freePages' \in Seq(PageIds)
    BY <2>1, <2>2
  <2> QED
    BY <1>d, <2>5, <2>8, <2>10, <2>11, Zenon
<1>2. ASSUME NEW l \in Layers, Clear(l) PROVE KvInv'
  <2> DEFINE f == freePages \o pageTable[l]
             none == <<>>
  <2>1. freePages' = f /\ pageTable' = Changed(pageTable, l, none)
        /\ allocated' = allocated - Len(pageTable[l])
    BY <1>2, Zenon DEF Clear, Changed
  <2>2. pageTable[l] \in Seq(PageIds) /\ none \in Seq(PageIds) /\ Len(none) = 0
    BY <1>0
  <2>3. /\ f \in Seq(PageIds) /\ Len(f) = Len(freePages) + Len(pageTable[l])
        /\ \A x : x \in ToSet(f) <=> x \in ToSet(freePages) \/ x \in ToSet(pageTable[l])
    BY <1>0, <2>2, ConcatHolds, Zenon
  <2>4. \A x : x \notin ToSet(none)
    BY DEF ToSet
  <2> HIDE DEF f, none
  <2>5. /\ pageTable' \in [Layers -> Seq(PageIds)] /\ total \in Int
        /\ SumOf(Lens(pageTable'), Layers) = total - Len(pageTable[l]) + Len(none)
    <3>1. pageTable' \in [Layers -> Seq(PageIds)]
      BY <1>0, <2>1, <2>2, OneTable
    <3>2. total \in Int
      BY <1>0, <2>1, <2>2, OneTable
    <3>0. none \in Seq(PageIds)
      BY <2>2
    <3>3. SumOf(Lens(pageTable'), Layers) = total - Len(pageTable[l]) + Len(none)
      BY <1>0, <2>1, <3>0, OneTable
    <3> QED
      BY <3>1, <3>2, <3>3
  <2>6. ASSUME NEW x PROVE x \in InTables(pageTable') \/ x \in ToSet(pageTable[l])
                            <=> x \in InTables(pageTable) \/ x \in ToSet(none)
    BY <1>0, <2>1, <2>2, PagesOfTables
  <2>8. ASSUME NEW x PROVE x \in PageIds <=> x \in ToSet(freePages') \/ x \in InTables(pageTable')
    <3>1. x \in ToSet(freePages') <=> x \in ToSet(f)
      BY <2>1
    <3>2. x \in PageIds <=> x \in ToSet(freePages) \/ x \in InTables(pageTable)
      BY <1>a
    <3>3. x \in ToSet(f) <=> x \in ToSet(freePages) \/ x \in ToSet(pageTable[l])
      BY <2>3
    <3>4. x \notin ToSet(none)
      BY <2>4
    <3> QED
      BY <2>6, <3>1, <3>2, <3>3, <3>4
  <2>10. Len(freePages') + SumOf(Lens(pageTable'), Layers) = MaxPages
         /\ allocated' = SumOf(Lens(pageTable'), Layers)
    <3>1. Len(pageTable[l]) \in Nat
      BY <1>c
    <3>2. allocated' = allocated - Len(pageTable[l]) /\ total \in Int /\ Len(none) = 0
      BY <2>1, <2>2, <2>5
    <3>3. Len(freePages') = Len(freePages) + Len(pageTable[l])
      BY <2>1, <2>3
    <3>4. SumOf(Lens(pageTable'), Layers) = total - Len(pageTable[l]) + Len(none)
      BY <2>5
    <3> HIDE DEF total
    <3> QED
      BY <1>b, <1>c, <3>1, <3>2, <3>3, <3>4
  <2>11. freePages' \in Seq(PageIds)
    BY <2>1, <2>3
  <2> QED
    BY <1>d, <2>5, <2>8, <2>10, <2>11, Zenon
<1>3. ASSUME UNCHANGED <<freePages, allocated, pageTable>> PROVE KvInv'
  BY <1>3 DEF KvInv, Tabled, PagesKept, Lens, InTables
<1>4. ASSUME NEW l \in Layers, NEW tokens, BeginAppend(l, tokens) PROVE KvInv'
  BY <1>3, <1>4 DEF BeginAppend, pool
<1>5. ASSUME NEW l \in Layers, AppendToLastPage(l) \/ PoolExhausted(l) PROVE KvInv'
  BY <1>3, <1>5 DEF AppendToLastPage, PoolExhausted, pool
<1>6. ASSUME UNCHANGED kvVars PROVE KvInv'
  BY <1>3, <1>6 DEF kvVars, pool
<1> QED
  BY <1>1, <1>2, <1>4, <1>5, <1>6 DEF KvNext

\* Every page of the pool is free or in a table, once, whatever the layers append
\* and clear, and also when an append runs out of pages half way.
THEOREM PagesAlwaysAccounted ==
  ASSUME KvAssumption PROVE KvSpec => []PagesAccounted
<1>1. KvInv => PagesAccounted
  BY TablesSum DEF KvInv, PagesKept, PagesAccounted, InTables
<1> QED
  BY <1>1, KvInvInit, KvInvNext, PTL DEF KvSpec

-----------------------------------------------------------------------------
(***************************************************************************)
(* The cache implements the log of its tokens.  A page is in one place of  *)
(* one list, so that a page that is written stands nowhere but at the end  *)
(* of the table of its layer.                                              *)
(***************************************************************************)
Apart(free, tables) ==
  /\ Once(free)
  /\ \A l \in Layers : Once(tables[l]) /\ InSeq(tables[l]) \cap InSeq(free) = {}
  /\ \A l, k \in Layers : l # k => InSeq(tables[l]) \cap InSeq(tables[k]) = {}

LogInv ==
  /\ Tabled /\ Apart(freePages, pageTable)
  /\ pages \in [Layers -> [PageIds -> Seq(Tokens)]]
  /\ appending \in [Layers -> Seq(Tokens)]

ReadBack(table, contents) == JoinOf([i \in DOMAIN table |-> contents[table[i]]])

LEMMA CachedIsRead == \A l : Cached(l) = ReadBack(pageTable[l], pages[l])
  BY DEF Cached, Joined, ReadBack, JoinOf

LEMMA NothingRead == ASSUME NEW contents PROVE ReadBack(<<>>, contents) = <<>>
<1> DEFINE s == [i \in DOMAIN <<>> |-> contents[<<>>[i]]]
<1>1. s = <<>> /\ Len(s) = 0
  OBVIOUS
<1>2. JoinOf(s) = JoinTable(s)[0] /\ JoinTable(s)[0] = <<>>
  BY <1>1, JoinIsTabled
<1> QED
  BY <1>2 DEF ReadBack

LEMMA PagesRead ==
  ASSUME NEW table \in Seq(PageIds), NEW contents \in [PageIds -> Seq(Tokens)]
  PROVE  LET s == [i \in DOMAIN table |-> contents[table[i]]] IN
         /\ s \in Seq(Seq(Tokens)) /\ Len(s) = Len(table) /\ Len(table) \in Nat
         /\ \A i \in 1..Len(table) : s[i] = contents[table[i]]
<1> DEFINE s == [i \in DOMAIN table |-> contents[table[i]]]
<1>1. DOMAIN table = 1..Len(table) /\ Len(table) \in Nat /\ \A i \in 1..Len(table) : table[i] \in PageIds
  OBVIOUS
<1>2. s \in [1..Len(table) -> Seq(Tokens)]
  BY <1>1
<1>3. s \in Seq(Seq(Tokens)) /\ Len(s) = Len(table)
  BY <1>1, <1>2
<1> QED
  BY <1>1, <1>3

\* One more sequence in the list, and a longer last one.
LEMMA OneMoreJoined ==
  ASSUME NEW T, NEW s \in Seq(Seq(T)), NEW u \in Seq(Seq(T)), NEW n \in Nat,
         Len(s) = n + 1, Len(u) = n, \A i \in 1..n : u[i] = s[i]
  PROVE  JoinOf(s) = JoinOf(u) \o s[n + 1] /\ JoinOf(u) \in Seq(T)
<1>1. Len(s) = Len(u) + 1 /\ \A i \in 1..Len(u) : u[i] = s[i]
  BY Zenon
<1>2. JoinOf(s) = JoinOf(u) \o s[Len(s)]
  BY <1>1, JoinedLast, Zenon
<1> QED
  BY <1>2, JoinedSeq, Zenon

\* A token in a new page at the end of the table.
LEMMA NewPageAppends ==
  ASSUME NEW table \in Seq(PageIds), NEW contents \in [PageIds -> Seq(Tokens)],
         NEW page \in PageIds, page \notin InSeq(table), NEW token \in Tokens
  PROVE  ReadBack(Append(table, page), [contents EXCEPT ![page] = <<token>>])
           = Append(ReadBack(table, contents), token)
<1> DEFINE longer == Append(table, page)
           written == [contents EXCEPT ![page] = <<token>>]
           s == [i \in DOMAIN longer |-> written[longer[i]]]
           u == [i \in DOMAIN table |-> contents[table[i]]]
           n == Len(table)
<1>1. /\ longer \in Seq(PageIds) /\ Len(longer) = n + 1 /\ n \in Nat /\ longer[n + 1] = page
      /\ DOMAIN table = 1..n
      /\ \A i \in 1..n : longer[i] = table[i] /\ table[i] \in PageIds
  OBVIOUS
<1>2. /\ written \in [PageIds -> Seq(Tokens)] /\ written[page] = <<token>>
      /\ \A p \in PageIds : p # page => written[p] = contents[p]
  OBVIOUS
<1>a. n + 1 \in 1..(n + 1) /\ \A i \in 1..n : i \in 1..(n + 1)
  <2> HIDE DEF n
  <2> QED
    BY <1>1
<1> HIDE DEF longer, written
<1>3. s \in Seq(Seq(Tokens)) /\ Len(s) = n + 1 /\ \A i \in 1..(n + 1) : s[i] = written[longer[i]]
  BY <1>1, <1>2, PagesRead
<1>4. u \in Seq(Seq(Tokens)) /\ Len(u) = n /\ \A i \in 1..n : u[i] = contents[table[i]]
  BY PagesRead
<1>7. ReadBack(longer, written) = JoinOf(s) /\ ReadBack(table, contents) = JoinOf(u)
  BY Zenon DEF ReadBack
<1> HIDE DEF s, u, n
<1>5. ASSUME NEW i \in 1..n PROVE u[i] = s[i]
  <2>1. table[i] # page
    BY <1>1, Zenon DEF InSeq
  <2>2. s[i] = written[longer[i]] /\ u[i] = contents[table[i]]
    BY <1>3, <1>4, <1>a, Zenon
  <2>3. longer[i] = table[i] /\ table[i] \in PageIds
    BY <1>1, Zenon
  <2>4. written[table[i]] = contents[table[i]]
    BY <1>2, <2>1, <2>3, Zenon
  <2> QED
    BY <2>2, <2>3, <2>4
<1>6. s[n + 1] = <<token>>
  <2>1. s[n + 1] = written[longer[n + 1]]
    BY <1>3, <1>a, Zenon
  <2>2. longer[n + 1] = page
    BY <1>1, Zenon
  <2>3. written[page] = <<token>>
    BY <1>2, Zenon
  <2> QED
    BY <2>1, <2>2, <2>3, Zenon
<1>8. JoinOf(s) = JoinOf(u) \o <<token>> /\ JoinOf(u) \in Seq(Tokens)
  <2>1. s \in Seq(Seq(Tokens)) /\ u \in Seq(Seq(Tokens)) /\ n \in Nat
    BY <1>1, <1>3, <1>4, Zenon
  <2>2. Len(s) = n + 1 /\ Len(u) = n /\ \A i \in 1..n : u[i] = s[i]
    BY <1>3, <1>4, <1>5, Zenon
  <2>3. JoinOf(s) = JoinOf(u) \o s[n + 1] /\ JoinOf(u) \in Seq(Tokens)
    BY <2>1, <2>2, OneMoreJoined, ZenonT(30)
  <2> QED
    BY <1>6, <2>3, Zenon
<1>10. JoinOf(u) \o <<token>> = Append(JoinOf(u), token)
  BY <1>8, AppendedAsOne, Zenon
<1> QED
  BY <1>7, <1>8, <1>10, Zenon DEF longer, written

\* A token at the end of the last page.
LEMMA LastPageAppends ==
  ASSUME NEW table \in Seq(PageIds), NEW contents \in [PageIds -> Seq(Tokens)],
         table # <<>>, Once(table), NEW token \in Tokens
  PROVE  ReadBack(table, [contents EXCEPT ![table[Len(table)]] = Append(@, token)])
           = Append(ReadBack(table, contents), token)
<1>a. PICK n \in Nat : Len(table) = n + 1
  <2>1. Len(table) \in Nat /\ Len(table) # 0
    OBVIOUS
  <2>2. Len(table) - 1 \in Nat /\ (Len(table) - 1) + 1 = Len(table)
    BY <2>1
  <2> QED
    BY <2>2, Zenon
<1> DEFINE page == table[n + 1]
           written == [contents EXCEPT ![page] = Append(@, token)]
           s == [i \in DOMAIN table |-> written[table[i]]]
           u == [i \in DOMAIN table |-> contents[table[i]]]
           others == SubSeq(table, 1, n)
           v == [i \in DOMAIN others |-> contents[others[i]]]
<1>b. n + 1 \in 1..(n + 1) /\ \A i \in 1..n : i \in 1..(n + 1) /\ i # n + 1
  OBVIOUS
<1>1. /\ DOMAIN table = 1..(n + 1) /\ page \in PageIds
      /\ \A i \in 1..(n + 1) : table[i] \in PageIds
  BY <1>a
<1>c. others \in Seq(PageIds) /\ Len(others) = n /\ \A i \in 1..n : others[i] = table[i]
  BY <1>a
<1>2. /\ contents[page] \in Seq(Tokens)
      /\ written \in [PageIds -> Seq(Tokens)] /\ written[page] = Append(contents[page], token)
      /\ \A p \in PageIds : p # page => written[p] = contents[p]
  BY <1>1
<1> HIDE DEF written, others
<1>3. s \in Seq(Seq(Tokens)) /\ Len(s) = n + 1 /\ \A i \in 1..(n + 1) : s[i] = written[table[i]]
  BY <1>a, <1>2, PagesRead
<1>4. u \in Seq(Seq(Tokens)) /\ Len(u) = n + 1 /\ \A i \in 1..(n + 1) : u[i] = contents[table[i]]
  BY <1>a, PagesRead
<1>5. v \in Seq(Seq(Tokens)) /\ Len(v) = n /\ \A i \in 1..n : v[i] = contents[others[i]]
  BY <1>c, PagesRead
<1>8. ReadBack(table, written) = JoinOf(s) /\ ReadBack(table, contents) = JoinOf(u)
  BY Zenon DEF ReadBack
<1> HIDE DEF s, u, v
<1>6. ASSUME NEW i \in 1..n PROVE v[i] = s[i] /\ v[i] = u[i]
  <2>1. table[i] # page /\ table[i] \in PageIds
    BY <1>1, <1>b, Zenon DEF Once
  <2>2. v[i] = contents[table[i]] /\ u[i] = contents[table[i]]
    BY <1>b, <1>c, <1>4, <1>5, Zenon
  <2>3. s[i] = contents[table[i]]
    BY <1>b, <1>2, <1>3, <2>1, Zenon
  <2> QED
    BY <2>2, <2>3
<1>7. s[n + 1] = Append(u[n + 1], token) /\ u[n + 1] \in Seq(Tokens)
  BY <1>b, <1>2, <1>3, <1>4, Zenon
<1>9. JoinOf(s) = JoinOf(v) \o s[n + 1] /\ JoinOf(v) \in Seq(Tokens)
  <2>1. s \in Seq(Seq(Tokens)) /\ v \in Seq(Seq(Tokens))
    BY <1>3, <1>5, Zenon
  <2>2. Len(s) = n + 1 /\ Len(v) = n /\ \A i \in 1..n : v[i] = s[i]
    BY <1>3, <1>5, <1>6, Zenon
  <2> QED
    BY <2>1, <2>2, OneMoreJoined, ZenonT(30)
<1>10. JoinOf(u) = JoinOf(v) \o u[n + 1]
  <2>1. u \in Seq(Seq(Tokens)) /\ v \in Seq(Seq(Tokens))
    BY <1>4, <1>5, Zenon
  <2>2. Len(u) = n + 1 /\ Len(v) = n /\ \A i \in 1..n : v[i] = u[i]
    BY <1>4, <1>5, <1>6, Zenon
  <2> QED
    BY <2>1, <2>2, OneMoreJoined, ZenonT(30)
<1>11. JoinOf(v) \o Append(u[n + 1], token) = Append(JoinOf(v) \o u[n + 1], token)
  BY <1>7, <1>9, ConcatMoves, Zenon
<1> QED
  BY <1>a, <1>7, <1>8, <1>9, <1>10, <1>11, Zenon DEF written

\* Pages stay apart when one page goes from the pool to a table, and when a table
\* goes to the pool.
LEMMA ApartTaken ==
  ASSUME Tabled, Apart(freePages, pageTable), NEW l \in Layers, freePages # <<>>
  PROVE  LET page == Last(freePages) IN
         /\ page \in PageIds /\ page \notin InSeq(pageTable[l])
         /\ Front(freePages) \in Seq(PageIds)
         /\ Append(pageTable[l], page) \in Seq(PageIds)
         /\ Apart(Front(freePages), Changed(pageTable, l, Append(pageTable[l], page)))
<1> DEFINE page == Last(freePages)
           others == Front(freePages)
           q == Append(pageTable[l], page)
           u == Changed(pageTable, l, q)
<1>1. freePages \in Seq(PageIds) /\ pageTable \in [Layers -> Seq(PageIds)] /\ Once(freePages)
  BY DEF Tabled, Apart
<1>2. page = freePages[Len(freePages)] /\ others = SubSeq(freePages, 1, Len(freePages) - 1)
  BY DEF Last, Front
<1>3. /\ page \in PageIds /\ page \in InSeq(freePages)
      /\ others \in Seq(PageIds) /\ Once(others) /\ InSeq(others) = InSeq(freePages) \ {page}
  <2> HIDE DEF page, others
  <2>1. LET taken == SubSeq(freePages, 1, Len(freePages) - 1) IN
        /\ freePages[Len(freePages)] \in PageIds /\ freePages[Len(freePages)] \in InSeq(freePages)
        /\ taken \in Seq(PageIds) /\ Once(taken)
        /\ InSeq(taken) = InSeq(freePages) \ {freePages[Len(freePages)]}
    BY <1>1, LastTaken, Zenon
  <2> QED
    BY <1>2, <2>1, Zenon
<1>4. \A k \in Layers : Once(pageTable[k]) /\ page \notin InSeq(pageTable[k])
                        /\ InSeq(pageTable[k]) \cap InSeq(others) = {}
  BY <1>3 DEF Apart
<1>5. pageTable[l] \in Seq(PageIds)
  BY <1>1
<1>6. q \in Seq(PageIds) /\ InSeq(q) = InSeq(pageTable[l]) \cup {page} /\ Once(q)
  <2>1. Once(pageTable[l]) /\ page \notin InSeq(pageTable[l])
    BY <1>4, Zenon
  <2>2. page \in PageIds
    BY <1>3
  <2> HIDE DEF page
  <2> QED
    BY <1>5, <2>1, <2>2, AppendedElements
<1>7. u[l] = q /\ \A k \in Layers : k # l => u[k] = pageTable[k]
  BY <1>1 DEF Changed
<1> HIDE DEF page, others, q, u
<1>8. ASSUME NEW k \in Layers PROVE Once(u[k]) /\ InSeq(u[k]) \cap InSeq(others) = {}
  <2>1. CASE k = l
    BY <1>3, <1>4, <1>6, <1>7, <2>1
  <2>2. CASE k # l
    BY <1>4, <1>7, <2>2
  <2> QED
    BY <2>1, <2>2
<1>9. ASSUME NEW j \in Layers, NEW k \in Layers, j # k PROVE InSeq(u[j]) \cap InSeq(u[k]) = {}
  <2>1. InSeq(pageTable[j]) \cap InSeq(pageTable[k]) = {}
    BY <1>9 DEF Apart
  <2>2. CASE j = l
    BY <1>4, <1>6, <1>7, <1>9, <2>1, <2>2
  <2>3. CASE k = l
    BY <1>4, <1>6, <1>7, <1>9, <2>1, <2>3
  <2>4. CASE j # l /\ k # l
    BY <1>7, <2>1, <2>4
  <2> QED
    BY <2>2, <2>3, <2>4
<1>10. Apart(others, u)
  BY <1>3, <1>8, <1>9, Zenon DEF Apart
<1> QED
  BY <1>3, <1>4, <1>6, <1>10 DEF page, others, q, u

LEMMA ApartGivenBack ==
  ASSUME Tabled, Apart(freePages, pageTable), NEW l \in Layers
  PROVE  /\ freePages \o pageTable[l] \in Seq(PageIds)
         /\ Apart(freePages \o pageTable[l], Changed(pageTable, l, <<>>))
<1> DEFINE free == freePages \o pageTable[l]
           u == Changed(pageTable, l, <<>>)
<1>1. freePages \in Seq(PageIds) /\ pageTable \in [Layers -> Seq(PageIds)] /\ pageTable[l] \in Seq(PageIds)
  BY DEF Tabled
<1>2. Once(freePages) /\ \A k \in Layers : Once(pageTable[k]) /\ InSeq(pageTable[k]) \cap InSeq(freePages) = {}
  BY DEF Apart
<1>3. /\ free \in Seq(PageIds) /\ InSeq(free) = InSeq(freePages) \cup InSeq(pageTable[l])
      /\ Once(free)
  <2>1. InSeq(freePages) \cap InSeq(pageTable[l]) = {}
    BY <1>2
  <2>2. Once(pageTable[l])
    BY <1>2
  <2> QED
    BY <1>1, <1>2, <2>1, <2>2, ConcatElements
<1>4. u[l] = <<>> /\ \A k \in Layers : k # l => u[k] = pageTable[k]
  BY <1>1 DEF Changed
<1>5. InSeq(<<>>) = {} /\ Once(<<>>)
  BY DEF InSeq, Once
<1> HIDE DEF free, u
<1>6. ASSUME NEW k \in Layers PROVE Once(u[k]) /\ InSeq(u[k]) \cap InSeq(free) = {}
  <2>1. CASE k = l
    BY <1>4, <1>5, <2>1
  <2>2. CASE k # l
    <3>1. InSeq(pageTable[k]) \cap InSeq(pageTable[l]) = {}
      BY <2>2 DEF Apart
    <3> QED
      BY <1>2, <1>3, <1>4, <2>2, <3>1
  <2> QED
    BY <2>1, <2>2
<1>7. ASSUME NEW j \in Layers, NEW k \in Layers, j # k PROVE InSeq(u[j]) \cap InSeq(u[k]) = {}
  <2>1. InSeq(pageTable[j]) \cap InSeq(pageTable[k]) = {}
    BY <1>7 DEF Apart
  <2> QED
    BY <1>4, <1>5, <2>1
<1>8. Apart(free, u)
  BY <1>3, <1>6, <1>7, Zenon DEF Apart
<1> QED
  BY <1>3, <1>8 DEF free, u

LEMMA LogInvInit == ASSUME KvAssumption, KvInit PROVE LogInv
<1>1. Tabled
  BY KvInvInit DEF KvInv
<1>2. Once(freePages)
  BY DEF KvInit, KvAssumption, Once
<1>3. \A l \in Layers : pageTable[l] = <<>>
  BY DEF KvInit
<1>4. InSeq(<<>>) = {} /\ Once(<<>>)
  BY DEF InSeq, Once
<1>5. Apart(freePages, pageTable)
  BY <1>2, <1>3, <1>4 DEF Apart
<1>6. pages \in [Layers -> [PageIds -> Seq(Tokens)]] /\ appending \in [Layers -> Seq(Tokens)]
  BY DEF KvInit, NoPages
<1> QED
  BY <1>1, <1>5, <1>6 DEF LogInv

\* The log changes in one layer.
LogNow == [l \in Layers |-> Cached(l)]

LEMMA OneLayer ==
  ASSUME NEW l \in Layers,
         \A k \in Layers : k # l => pageTable'[k] = pageTable[k] /\ pages'[k] = pages[k]
  PROVE  LogNow' = [LogNow EXCEPT ![l] = ReadBack(pageTable'[l], pages'[l])]
<1>1. \A k \in Layers : LogNow[k] = ReadBack(pageTable[k], pages[k])
  BY CachedIsRead DEF LogNow
<1>2. LogNow' = [k \in Layers |-> ReadBack(pageTable'[k], pages'[k])]
  BY DEF LogNow, Cached, Joined, ReadBack, JoinOf
<1>3. \A k \in Layers : k # l => ReadBack(pageTable'[k], pages'[k]) = ReadBack(pageTable[k], pages[k])
  BY Zenon
<1>4. LogNow = [k \in Layers |-> LogNow[k]]
  BY DEF LogNow
<1> QED
  BY <1>1, <1>2, <1>3, <1>4

\* What AppendToNewPage, AppendToLastPage and Clear do to the log.
LEMMA NewPageLogs ==
  ASSUME LogInv, NEW l \in Layers, AppendToNewPage(l)
  PROVE  LogInv' /\ LogNow' = [LogNow EXCEPT ![l] = Append(@, Head(appending[l]))]
                 /\ Head(appending[l]) \in Tokens
<1> DEFINE page == Last(freePages)
           token == Head(appending[l])
           table == pageTable[l]
           contents == pages[l]
<1>1. /\ appending[l] # <<>> /\ freePages # <<>>
      /\ freePages' = Front(freePages)
      /\ pageTable' = Changed(pageTable, l, Append(table, page))
      /\ pages' = [pages EXCEPT ![l] = [@ EXCEPT ![page] = <<token>>]]
      /\ appending' = [appending EXCEPT ![l] = Tail(@)]
  BY Zenon DEF AppendToNewPage, Changed
<1>2. Tabled /\ Apart(freePages, pageTable) /\ pages \in [Layers -> [PageIds -> Seq(Tokens)]]
      /\ appending \in [Layers -> Seq(Tokens)]
  BY DEF LogInv
<1>3. /\ page \in PageIds /\ page \notin InSeq(table)
      /\ Front(freePages) \in Seq(PageIds) /\ Append(table, page) \in Seq(PageIds)
      /\ Apart(Front(freePages), Changed(pageTable, l, Append(table, page)))
  BY <1>1, <1>2, ApartTaken, Zenon
<1>4. table \in Seq(PageIds) /\ contents \in [PageIds -> Seq(Tokens)] /\ appending[l] \in Seq(Tokens)
  BY <1>2 DEF Tabled
<1>5. token \in Tokens /\ Tail(appending[l]) \in Seq(Tokens) /\ <<token>> \in Seq(Tokens)
  BY <1>1, <1>4, HeadBeforeTail
<1>6. pageTable \in [Layers -> Seq(PageIds)]
  BY <1>2 DEF Tabled
<1> HIDE DEF page, token
<1>7. /\ pageTable' \in [Layers -> Seq(PageIds)] /\ pageTable'[l] = Append(table, page)
      /\ pages'[l] = [contents EXCEPT ![page] = <<token>>]
      /\ \A k \in Layers : k # l => pageTable'[k] = pageTable[k] /\ pages'[k] = pages[k]
  BY <1>1, <1>2, <1>3, <1>6 DEF Changed
<1>8. [contents EXCEPT ![page] = <<token>>] \in [PageIds -> Seq(Tokens)]
  BY <1>4, <1>5
<1>9. pages' \in [Layers -> [PageIds -> Seq(Tokens)]] /\ appending' \in [Layers -> Seq(Tokens)]
  BY <1>1, <1>2, <1>5, <1>8
<1>10. LogInv'
  <2>1. Apart(freePages', pageTable') /\ freePages' \in Seq(PageIds)
    BY <1>1, <1>3, Zenon
  <2> QED
    BY <1>7, <1>9, <2>1 DEF LogInv, Tabled, Apart
<1>11. ReadBack(pageTable'[l], pages'[l]) = Append(ReadBack(table, contents), token)
  <2> HIDE DEF table, contents
  <2>1. ReadBack(Append(table, page), [contents EXCEPT ![page] = <<token>>])
          = Append(ReadBack(table, contents), token)
    BY <1>3, <1>4, <1>5, NewPageAppends
  <2> QED
    BY <1>7, <2>1, Zenon
<1>12. LogNow' = [LogNow EXCEPT ![l] = ReadBack(pageTable'[l], pages'[l])]
  BY <1>7, OneLayer
<1>13. LogNow[l] = ReadBack(table, contents)
  BY CachedIsRead DEF LogNow
<1> QED
  BY <1>5, <1>10, <1>11, <1>12, <1>13 DEF token

LEMMA LastPageLogs ==
  ASSUME LogInv, NEW l \in Layers, AppendToLastPage(l)
  PROVE  LogInv' /\ LogNow' = [LogNow EXCEPT ![l] = Append(@, Head(appending[l]))]
                 /\ Head(appending[l]) \in Tokens
<1> DEFINE token == Head(appending[l])
           table == pageTable[l]
           page == table[Len(table)]
           contents == pages[l]
<1>1. /\ appending[l] # <<>> /\ table # <<>>
      /\ freePages' = freePages /\ pageTable' = pageTable
      /\ pages' = [pages EXCEPT ![l][page] = Append(@, token)]
      /\ appending' = [appending EXCEPT ![l] = Tail(@)]
  <2>1. ~(table # <<>> => Len(contents[LastPage(l)]) >= PageSize) /\ LastPage(l) = page
    BY Zenon DEF AppendToLastPage, NeedsPage, LastPage, Last
  <2> QED
    BY <2>1, Zenon DEF AppendToLastPage, pool
<1>2. Tabled /\ Apart(freePages, pageTable) /\ pages \in [Layers -> [PageIds -> Seq(Tokens)]]
      /\ appending \in [Layers -> Seq(Tokens)]
  BY DEF LogInv
<1>3. Once(table)
  BY <1>2 DEF Apart
<1>4. table \in Seq(PageIds) /\ contents \in [PageIds -> Seq(Tokens)] /\ appending[l] \in Seq(Tokens)
  BY <1>2 DEF Tabled
<1>5. token \in Tokens /\ Tail(appending[l]) \in Seq(Tokens)
  BY <1>1, <1>4, HeadBeforeTail
<1>6. page \in PageIds
  BY <1>1, <1>4
<1> HIDE DEF page, token
<1>7. /\ pages'[l] = [contents EXCEPT ![page] = Append(@, token)]
      /\ \A k \in Layers : k # l => pageTable'[k] = pageTable[k] /\ pages'[k] = pages[k]
  BY <1>1, <1>2, SMTT(30)
<1>8. [contents EXCEPT ![page] = Append(@, token)] \in [PageIds -> Seq(Tokens)]
  <2>1. contents[page] \in Seq(Tokens)
    BY <1>4, <1>6
  <2> HIDE DEF contents
  <2>2. Append(contents[page], token) \in Seq(Tokens)
    BY <1>5, <2>1
  <2> QED
    BY <1>4, <2>2
<1>9. pages' \in [Layers -> [PageIds -> Seq(Tokens)]] /\ appending' \in [Layers -> Seq(Tokens)]
  BY <1>1, <1>2, <1>5, <1>8
<1>10. LogInv'
  BY <1>1, <1>2, <1>9 DEF LogInv, Tabled, Apart
<1>11. ReadBack(pageTable'[l], pages'[l]) = Append(ReadBack(table, contents), token)
  <2> HIDE DEF table, contents
  <2>1. ReadBack(table, [contents EXCEPT ![page] = Append(@, token)])
          = Append(ReadBack(table, contents), token)
    BY <1>1, <1>3, <1>4, <1>5, LastPageAppends DEF page
  <2>2. pageTable'[l] = table
    BY <1>1, Zenon DEF table
  <2> QED
    BY <1>7, <2>1, <2>2, Zenon
<1>12. LogNow' = [LogNow EXCEPT ![l] = ReadBack(pageTable'[l], pages'[l])]
  BY <1>7, OneLayer
<1>13. LogNow[l] = ReadBack(table, contents)
  BY CachedIsRead DEF LogNow
<1> QED
  BY <1>5, <1>10, <1>11, <1>12, <1>13 DEF token

LEMMA ClearLogs ==
  ASSUME LogInv, NEW l \in Layers, Clear(l)
  PROVE  LogInv' /\ LogNow' = [LogNow EXCEPT ![l] = <<>>]
<1>1. /\ freePages' = freePages \o pageTable[l]
      /\ pageTable' = Changed(pageTable, l, <<>>)
      /\ pages' = [pages EXCEPT ![l] = NoPages] /\ appending' = appending
  BY Zenon DEF Clear, Changed
<1>2. Tabled /\ Apart(freePages, pageTable) /\ pages \in [Layers -> [PageIds -> Seq(Tokens)]]
      /\ appending \in [Layers -> Seq(Tokens)]
  BY DEF LogInv
<1>3. Apart(freePages', pageTable') /\ freePages' \in Seq(PageIds)
  BY <1>1, <1>2, ApartGivenBack, Zenon
<1>4. /\ pageTable' \in [Layers -> Seq(PageIds)] /\ pageTable'[l] = <<>>
      /\ \A k \in Layers : k # l => pageTable'[k] = pageTable[k] /\ pages'[k] = pages[k]
  BY <1>1, <1>2 DEF Changed, Tabled
<1>5. pages' \in [Layers -> [PageIds -> Seq(Tokens)]]
  BY <1>1, <1>2 DEF NoPages
<1>6. LogInv'
  BY <1>1, <1>2, <1>3, <1>4, <1>5 DEF LogInv, Tabled, Apart
<1>7. LogNow' = [LogNow EXCEPT ![l] = ReadBack(pageTable'[l], pages'[l])]
  BY <1>4, OneLayer
<1> QED
  BY <1>4, <1>6, <1>7, NothingRead

LEMMA LogInvNext ==
  ASSUME LogInv, [KvNext]_kvVars
  PROVE  LogInv' /\ [Log!Next]_LogNow
<1>1. ASSUME UNCHANGED <<freePages, pageTable, pages>>, appending' \in [Layers -> Seq(Tokens)]
      PROVE  LogInv' /\ [Log!Next]_LogNow
  <2>1. LogNow' = LogNow
    BY <1>1 DEF LogNow, Cached, Joined
  <2> QED
    BY <1>1, <2>1 DEF LogInv, Tabled, Apart
<1>2. ASSUME NEW l \in Layers, NEW tokens \in SeqOf(Tokens, MaxAppend), BeginAppend(l, tokens)
      PROVE  LogInv' /\ [Log!Next]_LogNow
  <2>1. tokens \in Seq(Tokens)
    BY DEF SeqOf
  <2>2. appending' \in [Layers -> Seq(Tokens)]
    BY <1>2, <2>1 DEF BeginAppend, LogInv
  <2> QED
    BY <1>1, <1>2, <2>2 DEF BeginAppend, pool
<1>3. ASSUME NEW l \in Layers, AppendToNewPage(l) \/ AppendToLastPage(l)
      PROVE  LogInv' /\ [Log!Next]_LogNow
  <2>1. /\ LogInv' /\ Head(appending[l]) \in Tokens
        /\ LogNow' = [LogNow EXCEPT ![l] = Append(@, Head(appending[l]))]
    BY <1>3, NewPageLogs, LastPageLogs
  <2> QED
    BY <2>1 DEF Log!Next, Log!Append1, LogNow
<1>4. ASSUME NEW l \in Layers, PoolExhausted(l) PROVE LogInv' /\ [Log!Next]_LogNow
  <2>1. appending' \in [Layers -> Seq(Tokens)]
    BY <1>4 DEF PoolExhausted, LogInv
  <2> QED
    BY <1>1, <1>4, <2>1 DEF PoolExhausted, pool
<1>5. ASSUME NEW l \in Layers, Clear(l) PROVE LogInv' /\ [Log!Next]_LogNow
  <2>1. LogInv' /\ LogNow' = [LogNow EXCEPT ![l] = <<>>]
    BY <1>5, ClearLogs
  <2> QED
    BY <2>1 DEF Log!Next, Log!Clear, LogNow
<1>6. ASSUME UNCHANGED kvVars PROVE LogInv' /\ [Log!Next]_LogNow
  <2>1. appending' \in [Layers -> Seq(Tokens)]
    BY <1>6 DEF kvVars, LogInv
  <2> QED
    BY <1>1, <1>6, <2>1 DEF kvVars, pool
<1> QED
  BY <1>2, <1>3, <1>4, <1>5, <1>6 DEF KvNext

\* What a layer reads back, through the order of its table, are the tokens appended
\* to it since it was last cleared, in their order, although the layers share the
\* pool and reuse each other's pages, and also when an append runs out of pages.
THEOREM CacheKeepsLog ==
  ASSUME KvAssumption PROVE KvSpec => ImplementsLog
<1>1. KvInit => Log!Init
  <2> SUFFICES ASSUME KvInit PROVE LogNow = [l \in Layers |-> <<>>]
    BY DEF Log!Init, LogNow
  <2>1. \A l \in Layers : ReadBack(pageTable[l], pages[l]) = <<>>
    BY NothingRead DEF KvInit
  <2> QED
    BY <2>1, CachedIsRead DEF LogNow
<1>2. KvInit => LogInv
  BY LogInvInit
<1>3. LogInv /\ [KvNext]_kvVars => LogInv' /\ [Log!Next]_LogNow
  BY LogInvNext
<1> QED
  BY <1>1, <1>2, <1>3, PTL DEF KvSpec, ImplementsLog, Log!Spec, LogNow

(***************************************************************************)
(* The download manager.                                                   *)
(***************************************************************************)
Counting(q, n) == \A i \in 1..Len(q) : q[i] = n + i

\* While the server honours ranges: the file is a beginning, what the response
\* has left is what the file lacks, and the state reports no more than there is.
FileGrows ==
  /\ Len(file) <= FileSize /\ Counting(file, 0)
  /\ offset <= Len(file)
  /\ dlStage = "request" => offset = Len(file)
  /\ dlState.bytes <= Len(file)
  /\ dlState.kind = "Completed" => Len(file) = FileSize

BodyFollows ==
  dlStage = "stream" =>
    /\ Len(body) = FileSize - Len(file) /\ Counting(body, Len(file))
    /\ dlState.kind # "Completed"

DlInv == Dl!DownloadTypeOK /\ (honours => FileGrows /\ BodyFollows)

LEMMA DlInvInit == ASSUME Dl!DownloadAssumption, Dl!DownloadInit PROVE DlInv
<1>1. Dl!DownloadTypeOK
  BY DEF Dl!DownloadAssumption, Dl!DownloadInit, Dl!DownloadTypeOK
<1>2. FileGrows /\ BodyFollows
  BY DEF Dl!DownloadAssumption, Dl!DownloadInit, FileGrows, BodyFollows, Counting
<1> QED
  BY <1>1, <1>2 DEF DlInv

LEMMA WholeCounts ==
  ASSUME Dl!DownloadAssumption
  PROVE  /\ Dl!Whole \in Seq(1..FileSize)
         /\ \A n \in 0..FileSize :
              /\ SubSeq(Dl!Whole, n + 1, FileSize) \in Seq(1..FileSize)
              /\ Len(SubSeq(Dl!Whole, n + 1, FileSize)) = FileSize - n
              /\ Counting(SubSeq(Dl!Whole, n + 1, FileSize), n)
<1> DEFINE W == Dl!Whole
<1>1. W \in Seq(1..FileSize) /\ Len(W) = FileSize /\ \A i \in 1..FileSize : W[i] = i
  BY DEF Dl!DownloadAssumption, Dl!Whole
<1>2. ASSUME NEW n \in 0..FileSize
      PROVE  /\ SubSeq(W, n + 1, FileSize) \in Seq(1..FileSize)
             /\ Len(SubSeq(W, n + 1, FileSize)) = FileSize - n
             /\ Counting(SubSeq(W, n + 1, FileSize), n)
  <2> HIDE DEF W
  <2> QED
    BY <1>1 DEF Counting, Dl!DownloadAssumption
<1> QED
  BY <1>1, <1>2

LEMMA DlTypedNext ==
  ASSUME Dl!DownloadAssumption, Dl!DownloadTypeOK, [Dl!DownloadNext]_(Dl!dlVars)
  PROVE  Dl!DownloadTypeOK'
<1> USE DEF Dl!DownloadAssumption, Dl!DownloadTypeOK
<1>1. CASE Dl!Start
  BY <1>1 DEF Dl!Start
<1>2. CASE Dl!Respond
  <2>1. body' \in Seq(1..FileSize)
    <3>1. CASE honours
      <4>1. offset \in 0..FileSize
        BY <1>2, <3>1 DEF Dl!Respond, Dl!Satisfiable
      <4>2. body' = SubSeq(Dl!Whole, offset + 1, FileSize)
        BY <1>2, <3>1 DEF Dl!Respond
      <4> QED
        BY <4>1, <4>2, WholeCounts
    <3>2. CASE ~honours
      BY <1>2, <3>2, WholeCounts DEF Dl!Respond
    <3> QED
      BY <3>1, <3>2
  <2>2. file' \in Seq(1..FileSize)
    <3>1. file' = file \/ file' = <<>>
      BY <1>2 DEF Dl!Respond
    <3>2. file \in Seq(1..FileSize) /\ <<>> \in Seq(1..FileSize)
      OBVIOUS
    <3> QED
      BY <3>1, <3>2, Zenon
  <2>3. dlState' = [kind |-> "InProgress", bytes |-> offset] /\ dlStage' = "stream"
        /\ UNCHANGED <<honours, offset, retries, starts>>
    BY <1>2 DEF Dl!Respond
  <2> QED
    BY <2>1, <2>2, <2>3
<1>3. CASE Dl!WriteChunk
  BY <1>3 DEF Dl!WriteChunk
<1>4. CASE Dl!Complete
  BY <1>4 DEF Dl!Complete
<1>5. CASE Dl!AttemptFails
  BY <1>5 DEF Dl!AttemptFails
<1>6. CASE Dl!DiskFails
  BY <1>6 DEF Dl!DiskFails
<1>7. CASE Dl!BackoffEnds
  BY <1>7 DEF Dl!BackoffEnds
<1>8. CASE Dl!Pause
  BY <1>8 DEF Dl!Pause
<1>9. CASE Dl!Crash
  BY <1>9 DEF Dl!Crash
<1>10. CASE UNCHANGED Dl!dlVars
  BY <1>10 DEF Dl!dlVars
<1> QED
  BY <1>1, <1>2, <1>3, <1>4, <1>5, <1>6, <1>7, <1>8, <1>9, <1>10 DEF Dl!DownloadNext

LEMMA DlInvNext ==
  ASSUME Dl!DownloadAssumption, DlInv, [Dl!DownloadNext]_(Dl!dlVars) PROVE DlInv'
<1>1. Dl!DownloadTypeOK /\ Dl!DownloadTypeOK'
  BY DlTypedNext DEF DlInv
<1>2. honours' = honours
  BY DEF Dl!DownloadNext, Dl!Start, Dl!Respond, Dl!WriteChunk, Dl!Complete, Dl!AttemptFails,
         Dl!DiskFails, Dl!BackoffEnds, Dl!Pause, Dl!Crash, Dl!dlVars
<1> SUFFICES ASSUME honours PROVE FileGrows' /\ BodyFollows'
  BY <1>1, <1>2 DEF DlInv
<1>3. FileGrows /\ BodyFollows
  BY DEF DlInv
<1>4. /\ FileSize \in Nat /\ offset \in Nat /\ dlState.bytes \in Nat
      /\ file \in Seq(1..FileSize) /\ body \in Seq(1..FileSize)
      /\ dlState \in [kind : {"Pending", "InProgress", "Paused", "Completed", "Failed"}, bytes : Nat]
  BY <1>1 DEF Dl!DownloadTypeOK, Dl!DownloadAssumption
<1>11. CASE Dl!Start
  BY <1>3, <1>4, <1>11 DEF Dl!Start, FileGrows, BodyFollows
<1>12. CASE Dl!Respond
  <2>1. offset = Len(file) /\ offset < FileSize /\ offset \in 0..FileSize
    BY <1>3, <1>4, <1>12 DEF Dl!Respond, Dl!Satisfiable, FileGrows
  <2>2. /\ body' = SubSeq(Dl!Whole, offset + 1, FileSize) /\ file' = IF offset > 0 THEN file ELSE <<>>
        /\ dlState' = [kind |-> "InProgress", bytes |-> offset] /\ dlStage' = "stream"
        /\ offset' = offset
    BY <1>12 DEF Dl!Respond
  <2>3. file' = file
    BY <1>4, <2>1, <2>2
  <2>4. Len(body') = FileSize - offset /\ Counting(body', offset)
    BY <2>1, <2>2, WholeCounts
  <2> QED
    BY <1>3, <1>4, <2>1, <2>2, <2>3, <2>4 DEF FileGrows, BodyFollows
<1>13. CASE Dl!WriteChunk
  <2>1. /\ body # <<>> /\ file' = Append(file, Head(body)) /\ body' = Tail(body)
        /\ dlState' = [kind |-> "InProgress", bytes |-> dlState.bytes + 1]
        /\ dlStage = "stream" /\ dlStage' = "stream" /\ offset' = offset
    BY <1>13 DEF Dl!WriteChunk
  <2>2. Len(body) = FileSize - Len(file) /\ Counting(body, Len(file)) /\ Len(body) \in Nat /\ Len(body) # 0
        /\ Len(file) \in Nat /\ Head(body) = body[1]
    BY <1>3, <1>4, <2>1 DEF BodyFollows
  <2>3. /\ Len(file') = Len(file) + 1 /\ file'[Len(file) + 1] = Head(body)
        /\ \A i \in 1..Len(file) : file'[i] = file[i]
    BY <1>4, <2>1
  <2>4. Len(body') = Len(body) - 1 /\ \A i \in 1..Len(body') : body'[i] = body[i + 1] /\ i + 1 \in 1..Len(body)
    BY <1>4, <2>1
  <2>5. Head(body) = Len(file) + 1
    BY <2>2 DEF Counting
  <2>6. Counting(file', 0)
    BY <1>3, <2>2, <2>3, <2>5 DEF FileGrows, Counting
  <2>7. Counting(body', Len(file'))
    BY <2>2, <2>3, <2>4 DEF Counting
  <2>8. Len(file') <= FileSize /\ Len(body') = FileSize - Len(file')
    BY <1>4, <2>2, <2>3, <2>4
  <2>9. offset' <= Len(file') /\ dlState'.bytes <= Len(file')
    <3>1. offset <= Len(file) /\ dlState.bytes <= Len(file)
      BY <1>3 DEF FileGrows
    <3>2. dlState'.bytes = dlState.bytes + 1 /\ offset' = offset
      BY <2>1
    <3>3. offset \in Nat /\ dlState.bytes \in Nat /\ Len(file) \in Nat
      BY <1>4
    <3>4. Len(file') = Len(file) + 1
      BY <2>3
    <3> QED
      BY <3>1, <3>2, <3>3, <3>4
  <2> QED
    BY <2>1, <2>6, <2>7, <2>8, <2>9 DEF FileGrows, BodyFollows
<1>14. CASE Dl!Complete
  <2>1. Len(file) = FileSize
    BY <1>3, <1>4, <1>14 DEF Dl!Complete, BodyFollows
  <2> QED
    BY <1>3, <1>4, <1>14, <2>1 DEF Dl!Complete, FileGrows, BodyFollows
<1>15. CASE Dl!AttemptFails
  BY <1>3, <1>4, <1>15 DEF Dl!AttemptFails, FileGrows, BodyFollows
<1>16. CASE Dl!DiskFails
  BY <1>3, <1>4, <1>16 DEF Dl!DiskFails, FileGrows, BodyFollows
<1>17. CASE Dl!BackoffEnds
  BY <1>3, <1>4, <1>17 DEF Dl!BackoffEnds, FileGrows, BodyFollows
<1>18. CASE Dl!Pause
  <2>1. /\ dlState'.kind = "Paused" /\ dlState'.bytes = dlState.bytes
        /\ UNCHANGED <<file, dlStage, offset, body>>
    BY <1>4, <1>18 DEF Dl!Pause
  <2> QED
    BY <1>3, <2>1 DEF FileGrows, BodyFollows
<1>19. CASE Dl!Crash
  BY <1>3, <1>4, <1>19 DEF Dl!Crash, FileGrows, BodyFollows
<1>20. CASE UNCHANGED Dl!dlVars
  BY <1>3, <1>20 DEF Dl!dlVars, FileGrows, BodyFollows
<1> QED
  BY <1>11, <1>12, <1>13, <1>14, <1>15, <1>16, <1>17, <1>18, <1>19, <1>20 DEF Dl!DownloadNext

LEMMA DownloadAlwaysSound ==
  ASSUME Dl!DownloadAssumption PROVE Dl!DownloadSpec => []DlInv
BY DlInvInit, DlInvNext, PTL DEF Dl!DownloadSpec

\* The file of a server that honours ranges is at all times a beginning of the
\* remote file, and whole once a download reports Completed, for every size,
\* number of retries and order of failures, pauses and crashes.
THEOREM DownloadsAlwaysWhole ==
  ASSUME Dl!DownloadAssumption PROVE Dl!DownloadSpec => []Dl!CompletedIsWhole
<1>1. ASSUME DlInv PROVE Dl!CompletedIsWhole
  <2> SUFFICES ASSUME honours
               PROVE  /\ Len(file) <= FileSize /\ file = SubSeq(Dl!Whole, 1, Len(file))
                      /\ dlState.kind = "Completed" => file = Dl!Whole
                      /\ dlState.bytes <= Len(file)
    BY DEF Dl!CompletedIsWhole
  <2>1. FileGrows /\ file \in Seq(1..FileSize) /\ FileSize \in Nat
    BY <1>1 DEF DlInv, Dl!DownloadTypeOK, Dl!DownloadAssumption
  <2>2. Len(file) \in Nat /\ Len(file) <= FileSize /\ \A i \in 1..Len(file) : file[i] = i
    BY <2>1 DEF FileGrows, Counting
  <2>3. /\ Dl!Whole \in Seq(1..FileSize) /\ Len(Dl!Whole) = FileSize
        /\ \A i \in 1..FileSize : Dl!Whole[i] = i
    BY <2>1 DEF Dl!Whole
  <2> DEFINE s == SubSeq(Dl!Whole, 1, Len(file))
  <2>4. s \in Seq(1..FileSize) /\ Len(s) = Len(file) /\ \A i \in 1..Len(file) : s[i] = i
    <3> DEFINE W == Dl!Whole
    <3>1. W \in Seq(1..FileSize) /\ Len(W) = FileSize /\ \A i \in 1..FileSize : W[i] = i
      BY <2>3
    <3> HIDE DEF W
    <3>2. SubSeq(W, 1, Len(file)) \in Seq(1..FileSize) /\ Len(SubSeq(W, 1, Len(file))) = Len(file)
          /\ \A i \in 1..Len(file) : SubSeq(W, 1, Len(file))[i] = i
      BY <2>1, <2>2, <3>1
    <3> QED
      BY <3>2 DEF W
  <2> HIDE DEF s
  <2>5. file = s
    BY <2>1, <2>2, <2>4, SeqEqual
  <2>6. ASSUME dlState.kind = "Completed" PROVE file = Dl!Whole
    <3>1. Len(file) = FileSize
      BY <2>1, <2>6 DEF FileGrows
    <3> QED
      BY <2>1, <2>2, <2>3, <3>1, SeqEqual
  <2> QED
    BY <2>1, <2>5, <2>6 DEF FileGrows, s
<1> QED
  BY <1>1, DownloadAlwaysSound, PTL

(***************************************************************************)
(* The hub client.                                                         *)
(***************************************************************************)
PullType == [at : {"idle", "request", "open", "append", "write"}, start : Nat,
             file : Inodes \cup {NoFile}, pos : Nat, rest : Seq(1..Size)]

HubTyped ==
  /\ partial \in Inodes \cup {NoFile} /\ final \in Inodes \cup {NoFile}
  /\ content \in [Inodes -> Seq(0..Size)]
  /\ pull \in [Pullers -> PullType]
  /\ ranges \in BOOLEAN /\ overlapped \in BOOLEAN /\ resumed \in BOOLEAN

Opened(p) == pull[p].at \in {"append", "write"}
\* Who has no file open, and who has.
FilesOpen == \A p \in Pullers : IF Opened(p) THEN pull[p].file \in Inodes ELSE pull[p].file = NoFile

Named == final # NoFile => final # partial

HubBase == HubTyped /\ FilesOpen /\ Named

LEMMA HubCounts ==
  \A S : Hub!Cardinality(S) = Cardinality(S) /\ (Hub!IsFiniteSet(S) <=> IsFiniteSet(S))
  BY Zenon DEF Hub!Cardinality, Cardinality, Hub!IsFiniteSet, IsFiniteSet

\* A puller that creates the partial file finds one that nobody uses.
LEMMA FreshFile ==
  ASSUME Hub!HubAssumption, HubBase, partial = NoFile, NEW p \in Pullers, ~Opened(p)
  PROVE  \E i \in Inodes : i \notin Hub!InUse
<1> DEFINE Others == Pullers \ {p}
           Theirs == {pull[q].file : q \in Others}
           Taken == Theirs \cup {final}
<1>1. /\ IsFiniteSet(Inodes) /\ IsFiniteSet(Pullers) /\ Cardinality(Inodes) \in Nat
      /\ Cardinality(Pullers) \in Nat /\ Cardinality(Inodes) > Cardinality(Pullers) /\ NoFile \notin Inodes
  BY HubCounts, FS_CardinalityType DEF Hub!HubAssumption
<1>2. IsFiniteSet(Others) /\ Cardinality(Others) = Cardinality(Pullers) - 1
  BY <1>1, FS_RemoveElement
<1>3. IsFiniteSet(Theirs) /\ Cardinality(Theirs) <= Cardinality(Others)
  <2> DEFINE fileOf == [q \in Others |-> pull[q].file]
  <2>1. fileOf \in Surjection(Others, Theirs)
    BY DEF Surjection
  <2> HIDE DEF Others, Theirs, fileOf
  <2> QED
    BY <1>2, <2>1, FS_Surjection
<1>4. IsFiniteSet(Taken) /\ Cardinality(Taken) <= Cardinality(Theirs) + 1 /\ Cardinality(Taken) \in Nat /\ Cardinality(Theirs) \in Nat
  <2> HIDE DEF Theirs
  <2>1. IsFiniteSet(Taken) /\ Cardinality(Theirs) \in Nat
        /\ Cardinality(Taken) = IF final \in Theirs THEN Cardinality(Theirs) ELSE Cardinality(Theirs) + 1
    BY <1>3, FS_AddElement, FS_CardinalityType
  <2> HIDE DEF Taken
  <2> QED
    BY <2>1
<1>5. Cardinality(Taken) < Cardinality(Inodes)
  <2> HIDE DEF Taken, Theirs, Others
  <2> QED
    BY <1>1, <1>2, <1>3, <1>4
<1>6. ~ (Inodes \subseteq Taken)
  <2> HIDE DEF Taken
  <2> QED
    BY <1>1, <1>4, <1>5, FS_Subset
<1>7. PICK i \in Inodes : i \notin Taken
  BY <1>6
<1>8. pull[p].file = NoFile
  BY DEF HubBase, FilesOpen
<1>9. i \notin Hub!InUse
  BY <1>1, <1>7, <1>8 DEF Hub!InUse
<1> QED
  BY <1>9

\* What a file holds after a chunk was put at its end or elsewhere.
LEMMA PutHolds ==
  ASSUME Size \in Nat, NEW q \in Seq(0..Size), NEW k \in Nat \ {0}, NEW x \in 1..Size
  PROVE  /\ Hub!Put(q, k, x) \in Seq(0..Size)
         /\ k = Len(q) + 1 => /\ Len(Hub!Put(q, k, x)) = k /\ Hub!Put(q, k, x)[k] = x
                              /\ \A i \in 1..Len(q) : Hub!Put(q, k, x)[i] = q[i]
<1> DEFINE r == Hub!Put(q, k, x)
           n == IF Len(q) < k THEN k ELSE Len(q)
<1>1. r = [i \in 1..n |-> IF i = k THEN x ELSE IF i <= Len(q) THEN q[i] ELSE 0]
  BY DEF Hub!Put
<1>2. n \in Nat /\ Len(q) \in Nat
  OBVIOUS
<1>3. \A i \in 1..n : (IF i = k THEN x ELSE IF i <= Len(q) THEN q[i] ELSE 0) \in 0..Size
  OBVIOUS
<1>4. r \in Seq(0..Size) /\ Len(r) = n
  <2> HIDE DEF n, r
  <2> QED
    BY <1>1, <1>2, <1>3, IsASeq
<1>5. ASSUME k = Len(q) + 1
      PROVE  Len(r) = k /\ r[k] = x /\ \A i \in 1..Len(q) : r[i] = q[i]
  <2>1. n = k
    BY <1>2, <1>5
  <2> HIDE DEF r, n
  <2> QED
    BY <1>1, <1>2, <1>4, <1>5, <2>1
<1> QED
  BY <1>4, <1>5 DEF r

LEMMA HubWholeCounts ==
  ASSUME Size \in Nat \ {0}
  PROVE  /\ Hub!Whole \in Seq(1..Size) /\ Len(Hub!Whole) = Size /\ Counting(Hub!Whole, 0)
         /\ \A n \in Nat : n <= Size =>
              /\ Len(SubSeq(Hub!Whole, n + 1, Size)) = Size - n
              /\ Counting(SubSeq(Hub!Whole, n + 1, Size), n)
         /\ \A n \in Nat : SubSeq(Hub!Whole, n + 1, Size) \in Seq(1..Size)
<1> DEFINE W == Hub!Whole
<1>1. W \in Seq(1..Size) /\ Len(W) = Size /\ \A i \in 1..Size : W[i] = i
  BY DEF Hub!Whole
<1> HIDE DEF W
<1>2. ASSUME NEW n \in Nat, n <= Size
      PROVE  Len(SubSeq(W, n + 1, Size)) = Size - n /\ Counting(SubSeq(W, n + 1, Size), n)
  BY <1>1, <1>2 DEF Counting
<1>3. ASSUME NEW n \in Nat PROVE SubSeq(W, n + 1, Size) \in Seq(1..Size)
  BY <1>1
<1>4. Counting(W, 0)
  BY <1>1 DEF Counting
<1> QED
  BY <1>1, <1>2, <1>3, <1>4 DEF W

\* One puller moves, or none.
PullMoves(p, r) == pull' \in [Pullers -> PullType] /\ pull'[p] = r /\ \A q \in Pullers \ {p} : pull'[q] = pull[q]

LEMMA BecomesMoves ==
  ASSUME HubTyped, NEW p \in Pullers, NEW r \in PullType, Hub!Becomes(p, r)
  PROVE  PullMoves(p, r)
  BY DEF HubTyped, Hub!Becomes, PullMoves

LEMMA IdleTyped ==
  Hub!Idle \in PullType /\ Hub!Idle.at = "idle" /\ Hub!Idle.file = NoFile
  BY DEF Hub!Idle, PullType

\* The files with a name stay as they are.
LEMMA Released ==
  ASSUME HubTyped, Hub!ReleaseUnused
  PROVE  /\ content' \in [Inodes -> Seq(0..Size)]
         /\ \A i \in Inodes : i = partial' \/ i = final' => content'[i] = content[i]
<1>1. content' = [i \in Inodes |-> IF i \in Hub!InUse' THEN content[i] ELSE <<>>]
  BY DEF Hub!ReleaseUnused
<1>2. \A i : i = partial' \/ i = final' => i \in Hub!InUse'
  BY DEF Hub!InUse
<1>3. \A i \in Inodes : content[i] \in Seq(0..Size) /\ <<>> \in Seq(0..Size)
  BY DEF HubTyped
<1>4. content' \in [Inodes -> Seq(0..Size)]
  BY <1>1, <1>3
<1> QED
  BY <1>1, <1>2, <1>4

\* What the steps do to the variables.
Begun(p) ==
  /\ pull[p] = Hub!Idle /\ final = NoFile
  /\ \E r \in PullType :
       /\ PullMoves(p, r) /\ r.at = "request" /\ r.file = NoFile /\ r.pos = 0
       /\ r.start = IF partial = NoFile THEN 0 ELSE Len(content[partial])
  /\ overlapped' = (overlapped \/ \E q \in Pullers : pull[q] # Hub!Idle)
  /\ UNCHANGED <<ranges, partial, final, content, resumed>>

Responds(p) ==
  /\ pull[p].at = "request"
  /\ \E r \in PullType :
       /\ PullMoves(p, r) /\ r.at = "open" /\ r.file = pull[p].file /\ r.start = pull[p].start /\ r.pos = pull[p].pos
       /\ r.rest = IF ranges THEN SubSeq(Hub!Whole, pull[p].start + 1, Size) ELSE Hub!Whole
  /\ UNCHANGED <<ranges, partial, final, content, overlapped, resumed>>

Resumes(p) ==
  /\ pull[p].at = "open" /\ partial # NoFile
  /\ \E r \in PullType :
       PullMoves(p, r) /\ r.at = "append" /\ r.file = partial /\ r.rest = pull[p].rest
  /\ resumed' = TRUE
  /\ UNCHANGED <<ranges, partial, final, content, overlapped>>

Creates(p) ==
  /\ pull[p].at = "open" /\ pull[p].start = 0
  /\ partial' \in Inodes /\ partial' # final
  /\ content' \in [Inodes -> Seq(0..Size)] /\ content'[partial'] = <<>>
  /\ \A i \in Inodes : i # partial' => content'[i] = content[i]
  /\ \E r \in PullType :
       PullMoves(p, r) /\ r.at = "write" /\ r.file = partial' /\ r.rest = pull[p].rest /\ r.pos = pull[p].pos
  /\ UNCHANGED <<ranges, final, overlapped, resumed>>

Writes(p) ==
  /\ Opened(p) /\ pull[p].file \in Inodes /\ pull[p].rest # <<>>
  /\ LET f == pull[p].file
         k == IF pull[p].at = "append" THEN Len(content[f]) + 1 ELSE pull[p].pos + 1
     IN  /\ content' \in [Inodes -> Seq(0..Size)]
         /\ content'[f] = Hub!Put(content[f], k, Head(pull[p].rest))
         /\ \A i \in Inodes : i # f => content'[i] = content[i]
  /\ \E r \in PullType :
       PullMoves(p, r) /\ r.at = pull[p].at /\ r.file = pull[p].file /\ r.rest = Tail(pull[p].rest)
         /\ r.pos = pull[p].pos + 1
  /\ UNCHANGED <<ranges, partial, final, overlapped, resumed>>

Finishes(p) ==
  /\ Opened(p) /\ pull[p].rest = <<>> /\ partial # NoFile
  /\ final' = partial /\ partial' = NoFile
  /\ PullMoves(p, Hub!Idle) /\ Hub!ReleaseUnused
  /\ UNCHANGED <<ranges, overlapped, resumed>>

Stops(p) ==
  /\ pull[p] # Hub!Idle
  /\ PullMoves(p, Hub!Idle) /\ Hub!ReleaseUnused
  /\ UNCHANGED <<ranges, partial, final, overlapped, resumed>>

Removes ==
  /\ final' = NoFile /\ Hub!ReleaseUnused
  /\ UNCHANGED <<ranges, partial, pull, overlapped, resumed>>

Rests == UNCHANGED <<ranges, partial, final, content, pull, overlapped, resumed>>

LEMMA HubSteps ==
  ASSUME Hub!HubAssumption, HubBase, [Hub!HubNext]_(Hub!hubVars)
  PROVE  \/ \E p \in Pullers : \/ Begun(p) \/ Responds(p) \/ Resumes(p) \/ Creates(p)
                               \/ Writes(p) \/ Finishes(p) \/ Stops(p)
         \/ Removes \/ Rests
<1>0. HubTyped /\ FilesOpen /\ Size \in Nat \ {0} /\ NoFile \notin Inodes
  BY DEF HubBase, Hub!HubAssumption
<1>p. \A p \in Pullers : pull[p] \in PullType
  BY <1>0 DEF HubTyped
<1>1. ASSUME NEW p \in Pullers, Hub!Begin(p) PROVE Begun(p)
  <2> DEFINE n == IF partial = NoFile THEN 0 ELSE Len(content[partial])
             r == [Hub!Idle EXCEPT !.at = "request", !.start = n]
  <2>1. n \in Nat
    BY <1>0 DEF HubTyped
  <2>2. r \in PullType /\ r.at = "request" /\ r.file = NoFile /\ r.pos = 0 /\ r.start = n
    <3> DEFINE e == Hub!Idle
    <3>1. e \in PullType /\ e.file = NoFile /\ e.pos = 0
      BY DEF Hub!Idle, PullType
    <3>2. r = [[e EXCEPT !.at = "request"] EXCEPT !.start = n]
      OBVIOUS
    <3> HIDE DEF e, n, r
    <3> QED
      BY <2>1, <3>1, <3>2 DEF PullType
  <2>3. Hub!Becomes(p, r)
    BY <1>1 DEF Hub!Begin
  <2> HIDE DEF r
  <2>4. PullMoves(p, r)
    BY <1>0, <2>2, <2>3, BecomesMoves
  <2>5. /\ pull[p] = Hub!Idle /\ final = NoFile
        /\ overlapped' = (overlapped \/ \E q \in Pullers : pull[q] # Hub!Idle)
        /\ UNCHANGED <<ranges, partial, final, content, resumed>>
    BY <1>1, Zenon DEF Hub!Begin
  <2> QED
    BY <2>2, <2>4, <2>5, Zenon DEF Begun
<1>2. ASSUME NEW p \in Pullers, Hub!Respond(p) PROVE Responds(p)
  <2> DEFINE q == IF ranges THEN SubSeq(Hub!Whole, pull[p].start + 1, Size) ELSE Hub!Whole
             r == [pull[p] EXCEPT !.at = "open", !.rest = q]
  <2>1. q \in Seq(1..Size)
    <3>1. pull[p].start \in Nat
      BY <1>p DEF PullType
    <3> QED
      BY <1>0, <3>1, HubWholeCounts
  <2>2. r \in PullType /\ r.at = "open" /\ r.file = pull[p].file /\ r.start = pull[p].start
        /\ r.pos = pull[p].pos /\ r.rest = q
    <3> HIDE DEF q
    <3> QED
      BY <1>p, <2>1 DEF PullType
  <2>3. Hub!Becomes(p, r)
    BY <1>2 DEF Hub!Respond
  <2> HIDE DEF r
  <2>4. PullMoves(p, r)
    BY <1>0, <2>2, <2>3, BecomesMoves
  <2>5. pull[p].at = "request" /\ UNCHANGED <<ranges, partial, final, content, overlapped, resumed>>
    BY <1>2 DEF Hub!Respond
  <2> QED
    BY <2>2, <2>4, <2>5, Zenon DEF Responds
<1>3. ASSUME NEW p \in Pullers, Hub!OpenToAppend(p) PROVE Resumes(p)
  <2> DEFINE r == [pull[p] EXCEPT !.at = "append", !.file = partial]
  <2>1. r \in PullType /\ r.at = "append" /\ r.file = partial /\ r.rest = pull[p].rest
    BY <1>0, <1>p DEF PullType, HubTyped
  <2>3. Hub!Becomes(p, r)
    BY <1>3 DEF Hub!OpenToAppend
  <2> HIDE DEF r
  <2>4. PullMoves(p, r)
    BY <1>0, <2>1, <2>3, BecomesMoves
  <2>5. pull[p].at = "open" /\ partial # NoFile /\ resumed' = TRUE
        /\ UNCHANGED <<ranges, partial, final, content, overlapped>>
    BY <1>3 DEF Hub!OpenToAppend
  <2> QED
    BY <2>1, <2>4, <2>5, Zenon DEF Resumes
<1>4. ASSUME NEW p \in Pullers, Hub!Create(p) PROVE Creates(p)
  <2> DEFINE r == [pull[p] EXCEPT !.at = "write", !.file = partial']
  <2>1. /\ pull[p].at = "open" /\ pull[p].start = 0
        /\ partial' = IF partial = NoFile THEN CHOOSE i \in Inodes : i \notin Hub!InUse ELSE partial
        /\ content' = [content EXCEPT ![partial'] = <<>>] /\ Hub!Becomes(p, r)
        /\ UNCHANGED <<ranges, final, overlapped, resumed>>
    BY <1>4 DEF Hub!Create
  <2>2. partial' \in Inodes /\ partial' # final
    <3>1. CASE partial = NoFile
      <4>1. \E i \in Inodes : i \notin Hub!InUse
        BY <2>1, <3>1, FreshFile DEF Opened
      <4>2. partial' \in Inodes /\ partial' \notin Hub!InUse
        BY <2>1, <3>1, <4>1
      <4> QED
        BY <4>2 DEF Hub!InUse
    <3>2. CASE partial # NoFile
      BY <2>1, <3>2 DEF HubBase, HubTyped, Named
    <3> QED
      BY <3>1, <3>2
  <2>3. r \in PullType /\ r.at = "write" /\ r.file = partial' /\ r.rest = pull[p].rest /\ r.pos = pull[p].pos
    BY <1>p, <2>2 DEF PullType
  <2>4. /\ content' \in [Inodes -> Seq(0..Size)] /\ content'[partial'] = <<>>
        /\ \A i \in Inodes : i # partial' => content'[i] = content[i]
    BY <1>0, <2>1, <2>2 DEF HubTyped
  <2> HIDE DEF r
  <2>5. PullMoves(p, r)
    BY <1>0, <2>1, <2>3, BecomesMoves
  <2> QED
    BY <2>1, <2>2, <2>3, <2>4, <2>5, Zenon DEF Creates
<1>5. ASSUME NEW p \in Pullers, Hub!WriteChunk(p) PROVE Writes(p)
  <2> DEFINE f == pull[p].file
             k == IF pull[p].at = "append" THEN Len(content[f]) + 1 ELSE pull[p].pos + 1
             c == Hub!Put(content[f], k, Head(pull[p].rest))
             r == [pull[p] EXCEPT !.pos = @ + 1, !.rest = Tail(@)]
  <2>1. /\ Opened(p) /\ pull[p].rest # <<>> /\ Hub!Becomes(p, r)
        /\ content' = [content EXCEPT ![f] = c]
        /\ UNCHANGED <<ranges, partial, final, overlapped, resumed>>
    BY <1>5 DEF Hub!WriteChunk, Opened
  <2>2. f \in Inodes
    BY <1>0, <2>1 DEF FilesOpen
  <2>3. pull[p].rest \in Seq(1..Size) /\ pull[p].pos \in Nat /\ pull[p] \in PullType
    BY <1>p DEF PullType
  <2>4. Head(pull[p].rest) \in 1..Size /\ Tail(pull[p].rest) \in Seq(1..Size)
    <3> DEFINE q == pull[p].rest
    <3>1. q \in Seq(1..Size) /\ q # <<>>
      BY <2>1, <2>3
    <3> HIDE DEF q
    <3>2. Head(q) \in 1..Size /\ Tail(q) \in Seq(1..Size)
      BY <3>1, HeadTailProperties
    <3> QED
      BY <3>2 DEF q
  <2>5. content[f] \in Seq(0..Size) /\ k \in Nat \ {0}
    BY <1>0, <2>2, <2>3 DEF HubTyped
  <2>6. c \in Seq(0..Size)
    <3> HIDE DEF k, f
    <3> QED
      BY <1>0, <2>4, <2>5, PutHolds
  <2>7. r \in PullType /\ r.at = pull[p].at /\ r.file = f /\ r.rest = Tail(pull[p].rest) /\ r.pos = pull[p].pos + 1
    <3> DEFINE e == pull[p]
               t == Tail(e.rest)
               n == e.pos + 1
    <3>1. e \in PullType /\ t \in Seq(1..Size) /\ n \in Nat
      BY <2>3, <2>4
    <3>2. r = [[e EXCEPT !.pos = n] EXCEPT !.rest = t]
      BY <2>3 DEF PullType
    <3> HIDE DEF e, t, n, r
    <3>3. r \in PullType /\ r.at = e.at /\ r.file = e.file /\ r.rest = t /\ r.pos = n
      BY <3>1, <3>2 DEF PullType
    <3> QED
      BY <3>3 DEF e, t, n
  <2>8. PullMoves(p, r)
    <3> HIDE DEF r
    <3> QED
      BY <1>0, <2>1, <2>7, BecomesMoves
  <2>9. /\ content' \in [Inodes -> Seq(0..Size)] /\ content'[f] = c
        /\ \A i \in Inodes : i # f => content'[i] = content[i]
    <3> HIDE DEF c, f
    <3> QED
      BY <1>0, <2>1, <2>2, <2>6 DEF HubTyped
  <2> HIDE DEF r
  <2> QED
    BY <2>1, <2>2, <2>7, <2>8, <2>9, Zenon DEF Writes
<1>6. ASSUME NEW p \in Pullers, Hub!Finish(p) PROVE Finishes(p)
  <2>1. PullMoves(p, Hub!Idle)
    BY <1>0, <1>6, IdleTyped, BecomesMoves DEF Hub!Finish
  <2> QED
    BY <1>6, <2>1 DEF Hub!Finish, Finishes, Opened
<1>7. ASSUME NEW p \in Pullers, Hub!Stop(p) PROVE Stops(p)
  <2>1. PullMoves(p, Hub!Idle)
    BY <1>0, <1>7, IdleTyped, BecomesMoves DEF Hub!Stop
  <2> QED
    BY <1>7, <2>1 DEF Hub!Stop, Stops
<1>8. ASSUME Hub!Remove PROVE Removes
  BY <1>8 DEF Hub!Remove, Removes
<1>9. ASSUME UNCHANGED Hub!hubVars PROVE Rests
  BY <1>9 DEF Hub!hubVars, Rests
<1> QED
  BY <1>1, <1>2, <1>3, <1>4, <1>5, <1>6, <1>7, <1>8, <1>9, Zenon DEF Hub!HubNext

LEMMA HubBaseNext ==
  ASSUME Hub!HubAssumption, HubBase, [Hub!HubNext]_(Hub!hubVars) PROVE HubBase'
<1>0. HubTyped /\ FilesOpen /\ Named /\ NoFile \notin Inodes
  BY DEF HubBase, Hub!HubAssumption
<1>1. ASSUME NEW p \in Pullers, NEW r \in PullType, PullMoves(p, r),
             IF r.at \in {"append", "write"} THEN r.file \in Inodes ELSE r.file = NoFile
      PROVE  FilesOpen' /\ pull' \in [Pullers -> PullType]
  BY <1>0, <1>1 DEF FilesOpen, Opened, PullMoves
<1>2. ASSUME NEW p \in Pullers, Begun(p) PROVE HubBase'
  <2>1. FilesOpen' /\ pull' \in [Pullers -> PullType]
    BY <1>1, <1>2 DEF Begun
  <2>2. overlapped' \in BOOLEAN
    BY <1>2 DEF Begun
  <2> QED
    BY <1>0, <1>2, <2>1, <2>2 DEF Begun, HubBase, HubTyped, Named
<1>3. ASSUME NEW p \in Pullers, Responds(p) PROVE HubBase'
  <2>1. pull[p].file = NoFile
    BY <1>0, <1>3 DEF FilesOpen, Opened, Responds
  <2>2. FilesOpen' /\ pull' \in [Pullers -> PullType]
    BY <1>1, <1>3, <2>1 DEF Responds
  <2> QED
    BY <1>0, <1>3, <2>2 DEF Responds, HubBase, HubTyped, Named
<1>4. ASSUME NEW p \in Pullers, Resumes(p) PROVE HubBase'
  <2>1. partial \in Inodes
    BY <1>0, <1>4 DEF HubTyped, Resumes
  <2>2. FilesOpen' /\ pull' \in [Pullers -> PullType]
    BY <1>1, <1>4, <2>1 DEF Resumes
  <2> QED
    BY <1>0, <1>4, <2>2 DEF Resumes, HubBase, HubTyped, Named
<1>5. ASSUME NEW p \in Pullers, Creates(p) PROVE HubBase'
  <2>1. FilesOpen' /\ pull' \in [Pullers -> PullType]
    BY <1>1, <1>5 DEF Creates
  <2> QED
    BY <1>0, <1>5, <2>1 DEF Creates, HubBase, HubTyped, Named
<1>6. ASSUME NEW p \in Pullers, Writes(p) PROVE HubBase'
  <2>1. FilesOpen' /\ pull' \in [Pullers -> PullType]
    BY <1>1, <1>6 DEF Writes, Opened
  <2>2. content' \in [Inodes -> Seq(0..Size)]
    BY <1>6 DEF Writes
  <2> QED
    BY <1>0, <1>6, <2>1, <2>2 DEF Writes, HubBase, HubTyped, Named
<1>7. ASSUME NEW p \in Pullers, Finishes(p) \/ Stops(p) PROVE HubBase'
  <2>1. PullMoves(p, Hub!Idle) /\ Hub!ReleaseUnused
    BY <1>7 DEF Finishes, Stops
  <2>2. FilesOpen' /\ pull' \in [Pullers -> PullType]
    BY <1>1, <2>1, IdleTyped
  <2>3. content' \in [Inodes -> Seq(0..Size)]
    BY <1>0, <2>1, Released
  <2> QED
    BY <1>0, <1>7, <2>2, <2>3 DEF Finishes, Stops, HubBase, HubTyped, Named
<1>8. ASSUME Removes PROVE HubBase'
  <2>1. content' \in [Inodes -> Seq(0..Size)]
    BY <1>0, <1>8, Released DEF Removes
  <2> QED
    BY <1>0, <1>8, <2>1 DEF Removes, HubBase, HubTyped, Named, FilesOpen, Opened
<1>9. ASSUME Rests PROVE HubBase'
  BY <1>0, <1>9 DEF Rests, HubBase, HubTyped, Named, FilesOpen, Opened
<1> QED
  BY <1>2, <1>3, <1>4, <1>5, <1>6, <1>7, <1>8, <1>9, HubSteps

\* While no two pulls ran at once and ranges were honoured where it mattered.
HubClean == ~overlapped /\ (ranges \/ ~resumed)

NoneBeside ==
  ~overlapped => \A p, q \in Pullers : pull[p] # Hub!Idle /\ pull[q] # Hub!Idle => p = q

FilesGood ==
  /\ final # NoFile => content[final] = Hub!Whole
  /\ partial # NoFile => Len(content[partial]) <= Size /\ Counting(content[partial], 0)

\* A pull resumes where the partial file ends, and what it receives continues it.
PullGood(p) ==
  /\ pull[p].at \in {"request", "open"} =>
       pull[p].pos = 0 /\ pull[p].start = IF partial = NoFile THEN 0 ELSE Len(content[partial])
  /\ pull[p].at = "open" =>
       pull[p].rest = IF ranges THEN SubSeq(Hub!Whole, pull[p].start + 1, Size) ELSE Hub!Whole
  /\ Opened(p) =>
       /\ pull[p].file = partial /\ Len(content[partial]) + Len(pull[p].rest) = Size
       /\ Counting(pull[p].rest, Len(content[partial]))
       /\ pull[p].at = "write" => pull[p].pos = Len(content[partial])

HubGood == NoneBeside /\ (HubClean => FilesGood /\ \A p \in Pullers : PullGood(p))

LEMMA AloneGood ==
  ASSUME NEW p \in Pullers, NEW r, PullMoves(p, r), overlapped => overlapped',
         HubClean' => \A q \in Pullers \ {p} : pull[q] = Hub!Idle,
         ~overlapped' => \A q \in Pullers \ {p} : pull[q] = Hub!Idle,
         HubClean' => FilesGood' /\ PullGood(p)'
  PROVE  HubGood'
<1>1. NoneBeside'
  BY DEF NoneBeside, PullMoves
<1>2. ASSUME HubClean', NEW q \in Pullers PROVE PullGood(q)'
  <2>1. CASE q = p
    BY <1>2, <2>1
  <2>2. CASE q # p
    <3>1. pull'[q].at = "idle"
      BY <1>2, <2>2, IdleTyped DEF PullMoves
    <3> QED
      BY <3>1 DEF PullGood, Opened
  <2> QED
    BY <2>1, <2>2
<1> QED
  BY <1>1, <1>2 DEF HubGood

LEMMA OthersIdle ==
  ASSUME HubGood, NEW p \in Pullers, pull[p] # Hub!Idle \/ pull[p].at # "idle", ~overlapped
  PROVE  \A q \in Pullers \ {p} : pull[q] = Hub!Idle
<1>1. pull[p] # Hub!Idle
  BY IdleTyped
<1> QED
  BY <1>1 DEF HubGood, NoneBeside

LEMMA HubGoodNext ==
  ASSUME Hub!HubAssumption, HubBase, HubGood, [Hub!HubNext]_(Hub!hubVars) PROVE HubGood'
<1>0. /\ HubTyped /\ FilesOpen /\ Named /\ NoFile \notin Inodes /\ Size \in Nat \ {0}
      /\ HubTyped' /\ FilesOpen' /\ Named'
  BY HubBaseNext DEF HubBase, Hub!HubAssumption
<1>g. ASSUME HubClean PROVE FilesGood /\ \A p \in Pullers : PullGood(p)
  BY <1>g DEF HubGood
<1>p. \A p \in Pullers : pull[p] \in PullType
  BY <1>0 DEF HubTyped
<1>l. \A i \in Inodes : content[i] \in Seq(0..Size) /\ Len(content[i]) \in Nat
  BY <1>0 DEF HubTyped
<1>2. ASSUME NEW p \in Pullers, Begun(p) PROVE HubGood'
  <2>1. PICK r \in PullType : /\ PullMoves(p, r) /\ r.at = "request" /\ r.pos = 0
                              /\ r.start = IF partial = NoFile THEN 0 ELSE Len(content[partial])
    BY <1>2 DEF Begun
  <2>2. UNCHANGED <<ranges, partial, final, content, resumed>> /\ (overlapped => overlapped')
        /\ (~overlapped' => \A q \in Pullers \ {p} : pull[q] = Hub!Idle)
    BY <1>2 DEF Begun
  <2>3. ASSUME HubClean' PROVE FilesGood' /\ PullGood(p)'
    <3>1. FilesGood
      BY <1>g, <2>2, <2>3 DEF HubClean
    <3>2. FilesGood'
      BY <2>2, <3>1 DEF FilesGood
    <3>3. PullGood(p)'
      BY <2>1, <2>2 DEF PullGood, PullMoves, Opened
    <3> QED
      BY <3>2, <3>3
  <2>4. HubClean' => ~overlapped'
    BY DEF HubClean
  <2> QED
    BY <2>1, <2>2, <2>3, <2>4, AloneGood
<1>3. ASSUME NEW p \in Pullers, Responds(p) PROVE HubGood'
  <2>1. PICK r \in PullType :
          /\ PullMoves(p, r) /\ r.at = "open" /\ r.start = pull[p].start /\ r.pos = pull[p].pos
          /\ r.rest = IF ranges THEN SubSeq(Hub!Whole, pull[p].start + 1, Size) ELSE Hub!Whole
    BY <1>3 DEF Responds
  <2>2. pull[p].at = "request" /\ UNCHANGED <<ranges, partial, final, content, overlapped, resumed>>
    BY <1>3 DEF Responds
  <2>3. ASSUME HubClean' PROVE FilesGood' /\ PullGood(p)'
    <3>1. FilesGood /\ PullGood(p)
      BY <1>g, <2>2, <2>3 DEF HubClean
    <3>2. FilesGood'
      BY <2>2, <3>1 DEF FilesGood
    <3>3. PullGood(p)'
      BY <2>1, <2>2, <3>1 DEF PullGood, PullMoves, Opened
    <3> QED
      BY <3>2, <3>3
  <2>4. ~overlapped => \A q \in Pullers \ {p} : pull[q] = Hub!Idle
    BY <2>2, OthersIdle
  <2> QED
    BY <2>1, <2>2, <2>3, <2>4, AloneGood DEF HubClean
<1>4. ASSUME NEW p \in Pullers, Resumes(p) PROVE HubGood'
  <2>1. PICK r \in PullType : PullMoves(p, r) /\ r.at = "append" /\ r.file = partial /\ r.rest = pull[p].rest
    BY <1>4 DEF Resumes
  <2>2. pull[p].at = "open" /\ partial # NoFile /\ resumed' = TRUE
        /\ UNCHANGED <<ranges, partial, final, content, overlapped>>
    BY <1>4 DEF Resumes
  <2>3. ASSUME HubClean' PROVE FilesGood' /\ PullGood(p)'
    <3>1. HubClean /\ ranges /\ FilesGood /\ PullGood(p)
      BY <1>g, <2>2, <2>3 DEF HubClean
    <3>2. FilesGood'
      BY <2>2, <3>1 DEF FilesGood
    <3> DEFINE n == Len(content[partial])
    <3>3. n \in Nat /\ n <= Size /\ pull[p].rest = SubSeq(Hub!Whole, n + 1, Size)
      BY <1>0, <1>l, <2>2, <3>1 DEF FilesGood, PullGood, HubTyped
    <3>4. Len(pull[p].rest) = Size - n /\ Counting(pull[p].rest, n)
      <4> HIDE DEF n
      <4> QED
        BY <1>0, <3>3, HubWholeCounts
    <3>5. n + Len(pull[p].rest) = Size
      <4> HIDE DEF n
      <4> QED
        BY <1>0, <3>3, <3>4
    <3>6. PullGood(p)'
      BY <2>1, <2>2, <3>4, <3>5 DEF PullGood, PullMoves, Opened
    <3> QED
      BY <3>2, <3>6
  <2>4. ~overlapped => \A q \in Pullers \ {p} : pull[q] = Hub!Idle
    BY <2>2, OthersIdle
  <2> QED
    BY <2>1, <2>2, <2>3, <2>4, AloneGood DEF HubClean
<1>5. ASSUME NEW p \in Pullers, Creates(p) PROVE HubGood'
  <2>1. PICK r \in PullType : PullMoves(p, r) /\ r.at = "write" /\ r.file = partial'
                                /\ r.rest = pull[p].rest /\ r.pos = pull[p].pos
    BY <1>5 DEF Creates
  <2>2. /\ pull[p].at = "open" /\ pull[p].start = 0 /\ partial' \in Inodes /\ partial' # final
        /\ content'[partial'] = <<>> /\ UNCHANGED <<ranges, final, overlapped, resumed>>
        /\ \A i \in Inodes : i # partial' => content'[i] = content[i]
    BY <1>5 DEF Creates
  <2>3. ASSUME HubClean' PROVE FilesGood' /\ PullGood(p)'
    <3>1. FilesGood /\ PullGood(p)
      BY <1>g, <2>2, <2>3 DEF HubClean
    <3>2. Len(content'[partial']) = 0
      BY <2>2
    <3>3. final # NoFile => content'[final] = Hub!Whole
      BY <1>0, <2>2, <3>1 DEF FilesGood, HubTyped
    <3>4. FilesGood'
      BY <1>0, <2>2, <3>2, <3>3 DEF FilesGood, Counting
    <3>5. Len(pull[p].rest) = Size /\ Counting(pull[p].rest, 0)
      <4>1. pull[p].rest = SubSeq(Hub!Whole, 0 + 1, Size) \/ pull[p].rest = Hub!Whole
        <5>1. pull[p].rest = IF ranges THEN SubSeq(Hub!Whole, pull[p].start + 1, Size) ELSE Hub!Whole
          BY <2>2, <3>1 DEF PullGood
        <5>2. pull[p].start = 0
          BY <2>2
        <5> QED
          BY <5>1, <5>2
      <4>2. Len(SubSeq(Hub!Whole, 0 + 1, Size)) = Size - 0 /\ Counting(SubSeq(Hub!Whole, 0 + 1, Size), 0)
        BY <1>0, HubWholeCounts
      <4>3. Len(Hub!Whole) = Size /\ Counting(Hub!Whole, 0)
        BY <1>0, HubWholeCounts
      <4>4. Size - 0 = Size
        BY <1>0
      <4> QED
        BY <4>1, <4>2, <4>3, <4>4
    <3>6. pull[p].pos = 0
      BY <2>2, <3>1 DEF PullGood
    <3>7. Len(content'[partial']) + Len(pull[p].rest) = Size
      BY <1>0, <3>2, <3>5
    <3>8. PullGood(p)'
      BY <2>1, <3>2, <3>5, <3>6, <3>7 DEF PullGood, PullMoves, Opened
    <3> QED
      BY <3>4, <3>8
  <2>4. ~overlapped => \A q \in Pullers \ {p} : pull[q] = Hub!Idle
    BY <2>2, OthersIdle
  <2> QED
    BY <2>1, <2>2, <2>3, <2>4, AloneGood DEF HubClean
<1>6. ASSUME NEW p \in Pullers, Writes(p) PROVE HubGood'
  <2> DEFINE f == pull[p].file
             left == pull[p].rest
             q == content[f]
             k == IF pull[p].at = "append" THEN Len(content[f]) + 1 ELSE pull[p].pos + 1
             x == Head(left)
             c == Hub!Put(q, k, x)
  <2>1. PICK r \in PullType : PullMoves(p, r) /\ r.at = pull[p].at /\ r.file = f
                                /\ r.rest = Tail(left) /\ r.pos = pull[p].pos + 1
    BY <1>6 DEF Writes
  <2>2. /\ Opened(p) /\ f \in Inodes /\ left # <<>> /\ content'[f] = c
        /\ UNCHANGED <<ranges, partial, final, overlapped, resumed>>
        /\ \A i \in Inodes : i # f => content'[i] = content[i]
    BY <1>6 DEF Writes
  <2>3. ASSUME HubClean' PROVE FilesGood' /\ PullGood(p)'
    <3>1. FilesGood /\ PullGood(p)
      BY <1>g, <2>2, <2>3 DEF HubClean
    <3>2. /\ f = partial /\ Len(q) + Len(left) = Size /\ Counting(left, Len(q))
          /\ pull[p].at = "write" => pull[p].pos = Len(q)
      BY <2>2, <3>1 DEF PullGood
    <3>3. q \in Seq(0..Size) /\ Len(q) \in Nat /\ left \in Seq(1..Size) /\ Len(left) \in Nat
      BY <1>l, <1>p, <2>2 DEF PullType
    <3>4. k = Len(q) + 1
      BY <2>2, <3>2 DEF Opened
    <3>5. Counting(q, 0)
      BY <1>0, <2>2, <3>1, <3>2 DEF FilesGood
    <3>6. f # final \/ final = NoFile
      BY <1>0, <3>2 DEF Named
    <3>7. /\ Len(left) # 0 /\ x = left[1] /\ x \in 1..Size /\ Len(Tail(left)) = Len(left) - 1
          /\ \A i \in 1..Len(Tail(left)) : Tail(left)[i] = left[i + 1] /\ i + 1 \in 1..Len(left)
      <4> HIDE DEF left
      <4>0. Len(left) # 0
        BY <2>2, <3>3, EmptySeq
      <4>5. Head(left) = left[1]
        BY <2>2, <3>3
      <4>6. Head(left) \in 1..Size
        BY <2>2, <3>3, HeadTailProperties
      <4>1. Len(left) # 0 /\ x = left[1] /\ x \in 1..Size
        BY <4>0, <4>5, <4>6
      <4>2. Len(Tail(left)) = Len(left) - 1
        BY <2>2, <3>3, <4>1
      <4>3. \A i \in 1..Len(Tail(left)) : Tail(left)[i] = left[i + 1] /\ i + 1 \in 1..Len(left)
        BY <2>2, <3>3, <4>1, <4>2
      <4> QED
        BY <4>1, <4>2, <4>3
    <3>8. x = Len(q) + 1
      <4>1. 1 \in 1..Len(left)
        BY <3>3, <3>7
      <4> QED
        BY <3>2, <3>3, <3>7, <4>1 DEF Counting
    <3>9. Len(c) = Len(q) + 1 /\ c[Len(q) + 1] = x /\ \A i \in 1..Len(q) : c[i] = q[i]
      <4>1. k \in Nat \ {0}
        BY <3>3, <3>4
      <4>2. x \in 1..Size /\ Size \in Nat /\ q \in Seq(0..Size) /\ k = Len(q) + 1
        BY <1>0, <3>3, <3>4, <3>7
      <4> HIDE DEF k, x, q, left
      <4>3. Len(Hub!Put(q, k, x)) = k /\ Hub!Put(q, k, x)[k] = x
            /\ \A i \in 1..Len(q) : Hub!Put(q, k, x)[i] = q[i]
        BY <4>1, <4>2, PutHolds
      <4>4. c = Hub!Put(q, k, x)
        BY DEF c
      <4> HIDE DEF c
      <4> QED
        BY <4>2, <4>3, <4>4
    <3>10. Counting(c, 0)
      <4> HIDE DEF c, x, q
      <4> QED
        BY <3>3, <3>5, <3>8, <3>9 DEF Counting
    <3>11. Counting(Tail(left), Len(c)) /\ Len(c) + Len(Tail(left)) = Size /\ Len(c) <= Size
      <4> HIDE DEF c, x, q, left
      <4>1. Counting(Tail(left), Len(c))
        BY <3>2, <3>3, <3>7, <3>9 DEF Counting
      <4>2. Len(c) + Len(Tail(left)) = Size /\ Len(c) <= Size
        <5> DEFINE a == Len(q)
                   b == Len(left)
                   d == Len(c)
                   e == Len(Tail(left))
        <5>1. a \in Nat /\ b \in Nat /\ a + b = Size /\ b # 0 /\ d = a + 1 /\ e = b - 1
          BY <3>2, <3>3, <3>7, <3>9
        <5> HIDE DEF a, b, d, e
        <5>2. d + e = Size /\ d <= Size
          BY <5>1
        <5> QED
          BY <5>2 DEF d, e
      <4> QED
        BY <4>1, <4>2
    <3>12. content'[partial'] = c /\ content'[f] = c /\ partial' = f
      BY <2>2, <3>2
    <3>13. final' # NoFile => content'[final'] = Hub!Whole
      BY <1>0, <2>2, <3>1, <3>6 DEF FilesGood, HubTyped
    <3> HIDE DEF c, q, k, x, left, f
    <3>14. FilesGood'
      BY <3>10, <3>11, <3>12, <3>13 DEF FilesGood
    <3>15. pull[p].at = "write" => pull[p].pos + 1 = Len(c)
      BY <3>2, <3>9
    <3>16. pull'[p].at = pull[p].at /\ pull'[p].file = f /\ pull'[p].rest = Tail(left)
           /\ pull'[p].pos = pull[p].pos + 1 /\ pull[p].at \in {"append", "write"}
      BY <2>1, <2>2 DEF PullMoves, Opened
    <3>17. PullGood(p)'
      BY <3>11, <3>12, <3>15, <3>16 DEF PullGood, Opened
    <3> QED
      BY <3>14, <3>17
  <2>4. ~overlapped => \A i \in Pullers \ {p} : pull[i] = Hub!Idle
    BY <2>2, OthersIdle DEF Opened
  <2> QED
    BY <2>1, <2>2, <2>3, <2>4, AloneGood DEF HubClean
<1>7. ASSUME NEW p \in Pullers, Finishes(p) PROVE HubGood'
  <2>1. /\ Opened(p) /\ pull[p].rest = <<>> /\ partial # NoFile /\ final' = partial /\ partial' = NoFile
        /\ PullMoves(p, Hub!Idle) /\ Hub!ReleaseUnused /\ UNCHANGED <<ranges, overlapped, resumed>>
    BY <1>7 DEF Finishes
  <2>2. partial \in Inodes /\ content'[partial] = content[partial]
    <3>1. partial \in Inodes
      BY <1>0, <2>1 DEF HubTyped
    <3> QED
      BY <1>0, <2>1, <3>1, Released
  <2>3. ASSUME HubClean' PROVE FilesGood' /\ PullGood(p)'
    <3>1. FilesGood /\ PullGood(p)
      BY <1>g, <2>1, <2>3 DEF HubClean
    <3> DEFINE q == content[partial]
    <3>2. q \in Seq(0..Size) /\ Len(q) \in Nat /\ Counting(q, 0) /\ Len(q) + Len(pull[p].rest) = Size
      BY <1>l, <2>1, <2>2, <3>1 DEF FilesGood, PullGood
    <3>3. Len(q) = Size
      <4>1. Len(pull[p].rest) = 0
        BY <2>1
      <4> HIDE DEF q
      <4> QED
        BY <1>0, <3>2, <4>1
    <3>4. q = Hub!Whole
      <4> DEFINE W == Hub!Whole
      <4>1. W \in Seq(1..Size) /\ Len(W) = Size /\ Counting(W, 0)
        BY <1>0, HubWholeCounts
      <4> HIDE DEF W, q
      <4>2. \A i \in 1..Size : q[i] = W[i]
        BY <3>2, <3>3, <4>1 DEF Counting
      <4>3. q \in Seq(Nat) /\ W \in Seq(Nat)
        BY <1>0, <3>2, <4>1, SeqMonotonic
      <4>4. q = W
        BY <3>3, <4>1, <4>2, <4>3, SeqEqual
      <4> QED
        BY <4>4 DEF W
    <3>5. FilesGood'
      BY <2>1, <2>2, <3>4 DEF FilesGood
    <3>6. PullGood(p)'
      BY <2>1, IdleTyped DEF PullMoves, PullGood, Opened
    <3> QED
      BY <3>5, <3>6
  <2>4. ~overlapped => \A q \in Pullers \ {p} : pull[q] = Hub!Idle
    BY <2>1, OthersIdle DEF Opened
  <2> QED
    BY <2>1, <2>3, <2>4, AloneGood DEF HubClean
<1>8. ASSUME NEW p \in Pullers, Stops(p) PROVE HubGood'
  <2>1. /\ pull[p] # Hub!Idle /\ PullMoves(p, Hub!Idle) /\ Hub!ReleaseUnused
        /\ UNCHANGED <<ranges, partial, final, overlapped, resumed>>
    BY <1>8 DEF Stops
  <2>2. \A i \in Inodes : i = partial \/ i = final => content'[i] = content[i]
    BY <1>0, <2>1, Released
  <2>3. ASSUME HubClean' PROVE FilesGood' /\ PullGood(p)'
    <3>1. FilesGood
      BY <1>g, <2>1, <2>3 DEF HubClean
    <3>2. FilesGood'
      BY <1>0, <2>1, <2>2, <3>1 DEF FilesGood, HubTyped
    <3>3. PullGood(p)'
      BY <2>1, IdleTyped DEF PullMoves, PullGood, Opened
    <3> QED
      BY <3>2, <3>3
  <2>4. ~overlapped => \A q \in Pullers \ {p} : pull[q] = Hub!Idle
    BY <2>1, OthersIdle
  <2> QED
    BY <2>1, <2>3, <2>4, AloneGood DEF HubClean
<1>9. ASSUME Removes PROVE HubGood'
  <2>1. final' = NoFile /\ Hub!ReleaseUnused /\ UNCHANGED <<ranges, partial, pull, overlapped, resumed>>
    BY <1>9 DEF Removes
  <2>2. partial # NoFile => content'[partial] = content[partial]
    BY <1>0, <2>1, Released DEF HubTyped
  <2>3. ASSUME HubClean' PROVE FilesGood'
    <3>1. FilesGood
      BY <1>g, <2>1, <2>3 DEF HubClean
    <3> QED
      BY <2>1, <2>2, <3>1 DEF FilesGood
  <2>4. ASSUME HubClean', NEW p \in Pullers PROVE PullGood(p)'
    <3>1. PullGood(p)
      BY <1>g, <2>1, <2>4 DEF HubClean
    <3>2. Opened(p) => partial # NoFile
      BY <1>0, <3>1 DEF FilesOpen, PullGood
    <3> QED
      BY <2>1, <2>2, <3>1, <3>2 DEF PullGood, Opened
  <2> QED
    BY <2>1, <2>3, <2>4 DEF HubGood, NoneBeside
<1>10. ASSUME Rests PROVE HubGood'
  BY <1>10 DEF Rests, HubGood, NoneBeside, HubClean, FilesGood, PullGood, Opened
<1> QED
  BY <1>2, <1>3, <1>4, <1>5, <1>6, <1>7, <1>8, <1>9, <1>10, HubSteps

LEMMA HubInit == ASSUME Hub!HubAssumption, Hub!HubInit PROVE HubBase /\ HubGood
<1>1. /\ partial = NoFile /\ final = NoFile /\ overlapped = FALSE /\ resumed = FALSE /\ ranges \in BOOLEAN
      /\ content = [i \in Inodes |-> <<>>] /\ pull = [p \in Pullers |-> Hub!Idle]
  BY DEF Hub!HubInit
<1>2. \A p \in Pullers : pull[p] = Hub!Idle
  BY <1>1
<1>3. HubBase
  <2>1. content \in [Inodes -> Seq(0..Size)]
    BY <1>1
  <2>2. pull \in [Pullers -> PullType]
    BY <1>1, IdleTyped
  <2>3. HubTyped
    BY <1>1, <2>1, <2>2 DEF HubTyped
  <2>4. FilesOpen
    BY <1>2, IdleTyped DEF FilesOpen, Opened
  <2> QED
    BY <1>1, <2>3, <2>4 DEF HubBase, Named
<1>4. HubGood
  <2>1. FilesGood
    BY <1>1 DEF FilesGood
  <2>2. \A p \in Pullers : PullGood(p)
    BY <1>2, IdleTyped DEF PullGood, Opened
  <2>3. NoneBeside
    BY <1>2 DEF NoneBeside
  <2> QED
    BY <2>1, <2>2, <2>3 DEF HubGood
<1> QED
  BY <1>3, <1>4

\* What has the name of the model is whole, and has it alone, for any number of
\* pulls that are cut off, resumed, overtaken by a remove or overlap; of those that
\* overlap, or resume from a server that ignores ranges, only the name is promised.
THEOREM FinalAlwaysWhole ==
  ASSUME Hub!HubAssumption PROVE Hub!HubSpec => []Hub!FinalIsWhole
<1>1. HubBase /\ HubGood => Hub!FinalIsWhole
  BY DEF HubBase, Named, HubGood, HubClean, FilesGood, Hub!FinalIsWhole
<1> QED
  BY <1>1, HubInit, HubBaseNext, HubGoodNext, PTL DEF Hub!HubSpec

(***************************************************************************)
(* The models on the disk and their rows.                                  *)
(***************************************************************************)
JobType == [op : {"none", "pull", "update", "remove"},
            at : {"none", "info", "files", "body", "resave", "wipe"},
            file : Files \cup {"none"}, source : Sources \cup {"none"},
            format : Formats \cup {"none"}, resume : BOOLEAN]

StTyped ==
  /\ row = NoRow \/ row \in [source : Sources, format : Formats]
  /\ disk \in [Files -> Seq(Chunk)]
  /\ job \in JobType
  /\ job.at \in {"info", "files", "body", "resave"} \/ job.op = "update" =>
       job.source \in Sources /\ job.format \in Formats
  /\ todo \subseteq Files
  /\ rest \in Seq(Chunk)
  /\ broken \in BOOLEAN

\* A chunk is in its place, and in a file that long at its repository.
ChunksInPlace(d) ==
  \A f \in Files : \A i \in 1..Len(d[f]) : d[f][i].pos = i /\ i <= SizeOf[d[f][i].from][f]

\* What the response delivers continues the file.
Continues(d, f, s, q) ==
  /\ Len(d[f]) + Len(q) = SizeOf[s][f]
  /\ \A i \in 1..Len(q) : q[i] = [from |-> s, pos |-> Len(d[f]) + i]

Receiving == job.at = "body" => job.file \in todo /\ Continues(disk, job.file, job.source, rest)

\* The files F have the length they have in the repository s.
Long(d, F, s) == \A f \in F : f \in Files => Len(d[f]) >= SizeOf[s][f]

Downloaded ==
  job.at \in {"files", "body", "resave"} => Long(disk, Matching[job.format] \ todo, job.source)

\* When there is no row, or none that counts.
Rowless ==
  /\ job.at \in {"info", "files", "body"} => row = NoRow
  /\ job.at = "resave" => todo = {}
  /\ job.at = "wipe" => IF job.op = "update" THEN row = NoRow ELSE broken

RowsLong == row # NoRow /\ ~broken => Long(disk, Matching[row.format], row.source)

StInv == StTyped /\ ChunksInPlace(disk) /\ Receiving /\ Downloaded /\ Rowless /\ RowsLong

LEMMA StInvInit == ASSUME StoreInit PROVE StInv
<1> USE DEF StoreInit
<1>1. StTyped
  <2>1. job \in JobType /\ job.at = "none" /\ job.op = "none"
    BY DEF JobType, Idle
  <2>2. disk \in [Files -> Seq(Chunk)] /\ rest \in Seq(Chunk)
    OBVIOUS
  <2> QED
    BY <2>1, <2>2 DEF StTyped
<1>2. \A f \in Files : disk[f] = <<>>
  OBVIOUS
<1>3. ChunksInPlace(disk)
  BY <1>2 DEF ChunksInPlace
<1>4. job.at = "none"
  BY DEF Idle
<1> QED
  BY <1>1, <1>3, <1>4 DEF StInv, Receiving, Downloaded, Rowless, RowsLong

\* A file gets one chunk more, or is emptied.
LEMMA OneMore ==
  ASSUME StoreAssumption, StTyped, ChunksInPlace(disk), NEW f \in Files, NEW s \in Sources,
         Continues(disk, f, s, rest), rest # <<>>,
         disk' = [disk EXCEPT ![f] = Append(@, Head(rest))], rest' = Tail(rest)
  PROVE  /\ disk' \in [Files -> Seq(Chunk)] /\ rest' \in Seq(Chunk)
         /\ ChunksInPlace(disk') /\ Continues(disk', f, s, rest')
<1> DEFINE d == disk[f]
           n == SizeOf[s][f]
<1>1. d \in Seq(Chunk) /\ rest \in Seq(Chunk) /\ Len(d) \in Nat /\ Len(rest) \in Nat /\ Len(rest) # 0
  BY DEF StTyped
<1>2. n \in Nat
  BY DEF StoreAssumption
<1>3. Head(rest) = [from |-> s, pos |-> Len(d) + 1] /\ Head(rest) \in Chunk
  <2>1. Head(rest) = rest[1] /\ 1 \in 1..Len(rest)
    BY <1>1
  <2>2. rest[1] = [from |-> s, pos |-> Len(d) + 1]
    BY <2>1 DEF Continues
  <2>3. rest[1] \in Chunk
    BY <1>1, <2>1
  <2> QED
    BY <2>1, <2>2, <2>3
<1>4. disk' \in [Files -> Seq(Chunk)] /\ disk'[f] = Append(d, Head(rest))
      /\ \A g \in Files \ {f} : disk'[g] = disk[g]
  BY <1>1, <1>3 DEF StTyped
<1>5. Tail(rest) \in Seq(Chunk) /\ Len(Tail(rest)) = Len(rest) - 1
      /\ \A i \in 1..Len(Tail(rest)) : Tail(rest)[i] = rest[i + 1] /\ i + 1 \in 1..Len(rest)
  BY <1>1
<1> DEFINE e == Append(d, Head(rest))
<1>6. Len(e) = Len(d) + 1 /\ e[Len(d) + 1] = Head(rest) /\ \A i \in 1..Len(d) : e[i] = d[i]
  BY <1>1, <1>3
<1>7. Len(d) + Len(rest) = n /\ \A i \in 1..Len(rest) : rest[i] = [from |-> s, pos |-> Len(d) + i]
  BY DEF Continues
<1> HIDE DEF d, e, n
<1>8. Len(e) + Len(Tail(rest)) = n
  <2> DEFINE a == Len(d)  b == Len(rest)  c == Len(e)  t == Len(Tail(rest))
  <2>1. a \in Nat /\ b \in Nat /\ c = a + 1 /\ t = b - 1 /\ a + b = n
    BY <1>1, <1>5, <1>6, <1>7
  <2> HIDE DEF a, b, c, t
  <2>2. c + t = n
    BY <1>2, <2>1
  <2> QED
    BY <2>2 DEF c, t
<1>9. \A i \in 1..Len(Tail(rest)) : Tail(rest)[i] = [from |-> s, pos |-> Len(e) + i]
  BY <1>1, <1>5, <1>6, <1>7
<1>10. Continues(disk', f, s, rest')
  <2>1. disk'[f] = e
    BY <1>4 DEF e, d
  <2> QED
    BY <1>8, <1>9, <2>1 DEF Continues, n
<1>11. \A i \in 1..Len(e) : e[i].pos = i /\ i <= SizeOf[e[i].from][f]
  <2> SUFFICES ASSUME NEW i \in 1..Len(e) PROVE e[i].pos = i /\ i <= SizeOf[e[i].from][f]
    OBVIOUS
  <2>1. CASE i \in 1..Len(d)
    BY <1>6, <2>1 DEF ChunksInPlace, d
  <2>2. CASE i = Len(d) + 1
    <3>1. e[i].pos = i /\ e[i].from = s
      BY <1>3, <1>6, <2>2
    <3>2. i <= n
      BY <1>1, <1>2, <1>7, <2>2
    <3> QED
      BY <3>1, <3>2 DEF n
  <2> QED
    BY <1>1, <1>6, <2>1, <2>2
<1>12. ChunksInPlace(disk')
  <2> SUFFICES ASSUME NEW g \in Files, NEW i \in 1..Len(disk'[g])
               PROVE  disk'[g][i].pos = i /\ i <= SizeOf[disk'[g][i].from][g]
    BY DEF ChunksInPlace
  <2>1. CASE g = f
    BY <1>4, <1>11, <2>1 DEF e, d
  <2>2. CASE g # f
    BY <1>4, <2>2 DEF ChunksInPlace
  <2> QED
    BY <2>1, <2>2
<1> QED
  BY <1>4, <1>5, <1>10, <1>12

LEMMA Emptied ==
  ASSUME disk \in [Files -> Seq(Chunk)], ChunksInPlace(disk), NEW f \in Files,
         disk' = [disk EXCEPT ![f] = <<>>]
  PROVE  disk' \in [Files -> Seq(Chunk)] /\ ChunksInPlace(disk') /\ disk'[f] = <<>>
         /\ \A g \in Files \ {f} : disk'[g] = disk[g]
<1>1. disk' \in [Files -> Seq(Chunk)] /\ disk'[f] = <<>> /\ \A g \in Files \ {f} : disk'[g] = disk[g]
  OBVIOUS
<1>2. \A g \in Files : \A i \in 1..Len(disk'[g]) : disk'[g] = disk[g]
  BY <1>1
<1> QED
  BY <1>1, <1>2 DEF ChunksInPlace

\* The file is opened at its end or emptied, and the response has the rest.
LEMMA FileOpened ==
  ASSUME StoreAssumption, StInv, NEW f \in Files, NEW p \in BOOLEAN, OpenFile(f, p)
  PROVE  /\ disk' \in [Files -> Seq(Chunk)] /\ rest' \in Seq(Chunk)
         /\ ChunksInPlace(disk') /\ Continues(disk', f, job.source, rest')
         /\ \A g \in Files \ {f} : disk'[g] = disk[g]
<1> DEFINE s == job.source
           n == SizeOf[s][f]
           k == IF p THEN Len(disk[f]) ELSE 0
<1>1. s \in Sources /\ disk \in [Files -> Seq(Chunk)] /\ ChunksInPlace(disk) /\ job.resume \in BOOLEAN
  BY DEF StInv, StTyped, JobType, OpenFile
<1>2. n \in Nat /\ Len(disk[f]) \in Nat
  BY <1>1 DEF StoreAssumption
<1>3. ASSUME p PROVE StartByte(f) = Len(disk[f]) /\ Len(disk[f]) <= n
  <2>1. StartByte(f) > 0 /\ ~ (job.resume /\ StartByte(f) >= n)
    BY <1>3 DEF OpenFile, Complete
  <2>2. job.resume
    BY <2>1 DEF StartByte
  <2> QED
    BY <1>2, <2>1, <2>2 DEF StartByte
<1>4. rest' = Remote(s, f, k) /\ disk' = [disk EXCEPT ![f] = IF p THEN @ ELSE <<>>]
  BY <1>3 DEF OpenFile
<1>5. k \in Nat /\ k <= n
  BY <1>2, <1>3
<1>6. /\ disk' \in [Files -> Seq(Chunk)] /\ ChunksInPlace(disk') /\ Len(disk'[f]) = k
      /\ \A g \in Files \ {f} : disk'[g] = disk[g]
  <2>1. CASE p
    <3>1. disk' = disk
      BY <1>1, <1>4, <2>1
    <3> QED
      BY <1>1, <2>1, <3>1
  <2>2. CASE ~p
    <3>1. disk' = [disk EXCEPT ![f] = <<>>]
      BY <1>4, <2>2
    <3> QED
      BY <1>1, <2>2, <3>1, Emptied
  <2> QED
    BY <2>1, <2>2
<1>7. /\ rest' \in Seq(Chunk) /\ Len(rest') = n - k
      /\ \A i \in 1..Len(rest') : rest'[i] = [from |-> s, pos |-> k + i]
  <2> DEFINE q == Remote(s, f, k)
  <2>1. q = [i \in 1..(n - k) |-> [from |-> s, pos |-> k + i]] /\ n - k \in Nat
    BY <1>2, <1>5 DEF Remote
  <2>2. \A i \in 1..(n - k) : [from |-> s, pos |-> k + i] \in Chunk
    BY <1>1, <1>5 DEF Chunk
  <2> HIDE DEF q, n, k, s
  <2>3. q \in Seq(Chunk) /\ Len(q) = n - k
    BY <2>1, <2>2, IsASeq
  <2> QED
    BY <1>4, <2>1, <2>3 DEF q
<1> QED
  BY <1>2, <1>5, <1>6, <1>7 DEF Continues

LEMMA StInvNext == ASSUME StoreAssumption, StInv, [StoreNext]_(storeVars) PROVE StInv'
<1> USE DEF StoreAssumption
<1>0. StTyped /\ ChunksInPlace(disk) /\ Receiving /\ Downloaded /\ Rowless /\ RowsLong
  BY DEF StInv
<1>t. /\ disk \in [Files -> Seq(Chunk)] /\ job \in JobType /\ todo \subseteq Files
      /\ rest \in Seq(Chunk) /\ broken \in BOOLEAN
      /\ \A f \in Formats : Matching[f] \in SUBSET Files
  BY <1>0 DEF StTyped
<1>i. Idle \in JobType /\ Idle.at = "none" /\ Idle.op = "none"
  BY DEF Idle, JobType
<1>1. ASSUME NEW s \in Sources, NEW f \in Formats, NEW r \in BOOLEAN, Pull(s, f, r) PROVE StInv'
  <2>1. job' \in JobType /\ job'.at = "info" /\ job'.source = s /\ job'.format = f /\ row = NoRow
        /\ UNCHANGED <<row, disk, todo, rest, broken>>
    BY <1>1 DEF Pull, JobType
  <2> QED
    BY <1>0, <2>1 DEF StInv, StTyped, ChunksInPlace, Receiving, Downloaded, Rowless, RowsLong
<1>2. ASSUME ListFiles PROVE StInv'
  <2>1. /\ job.at = "info" /\ job.source \in Sources /\ job.format \in Formats
        /\ todo' = Matching[job.format] /\ UNCHANGED <<row, disk, rest, broken>>
    BY <1>0, <1>2 DEF ListFiles, StTyped
  <2>2. /\ job' \in JobType /\ job'.at = "files" /\ job'.source = job.source
        /\ job'.format = job.format /\ job'.op = job.op
    BY <1>2, <1>t DEF ListFiles, GoOn, JobType
  <2>3. Matching[job.format] \in SUBSET Files
    BY <2>1, <1>t
  <2>4. StTyped'
    BY <1>0, <2>1, <2>2, <2>3 DEF StTyped
  <2>5. Downloaded'
    BY <2>1, <2>2 DEF Downloaded, Long
  <2> QED
    BY <1>0, <2>1, <2>2, <2>4, <2>5 DEF StInv, Receiving, Rowless, RowsLong
<1>3. ASSUME NEW f \in Files, SkipFile(f) PROVE StInv'
  <2>1. /\ job.at = "files" /\ todo' = todo \ {f} /\ UNCHANGED <<row, disk, job, rest, broken>>
        /\ Len(disk[f]) >= SizeOf[job.source][f]
    BY <1>3 DEF SkipFile, Complete, StartByte
  <2>2. StTyped'
    BY <1>0, <2>1 DEF StTyped
  <2>3. Downloaded'
    BY <1>0, <2>1 DEF Downloaded, Long
  <2> QED
    BY <1>0, <2>1, <2>2, <2>3 DEF StInv, Receiving, Rowless, RowsLong
<1>4. ASSUME NEW f \in Files, NEW p \in BOOLEAN, OpenFile(f, p) PROVE StInv'
  <2>1. /\ disk' \in [Files -> Seq(Chunk)] /\ rest' \in Seq(Chunk)
        /\ ChunksInPlace(disk') /\ Continues(disk', f, job.source, rest')
        /\ \A g \in Files \ {f} : disk'[g] = disk[g]
    BY <1>4, FileOpened
  <2>2. job.at = "files" /\ f \in todo /\ UNCHANGED <<row, todo, broken>>
    BY <1>4 DEF OpenFile
  <2>3. /\ job' \in JobType /\ job'.at = "body" /\ job'.file = f /\ job'.source = job.source
        /\ job'.format = job.format /\ job'.op = job.op
    BY <1>4, <1>t DEF OpenFile, JobType
  <2>4. StTyped'
    BY <1>0, <2>1, <2>2, <2>3 DEF StTyped
  <2>5. Receiving'
    BY <2>1, <2>2, <2>3 DEF Receiving
  <2>6. Downloaded'
    BY <1>0, <1>t, <2>1, <2>2, <2>3 DEF Downloaded, Long
  <2> QED
    BY <1>0, <2>1, <2>2, <2>3, <2>4, <2>5, <2>6 DEF StInv, Rowless, RowsLong
<1>5. ASSUME ReceiveChunk PROVE StInv'
  <2>1. /\ job.at = "body" /\ rest # <<>> /\ rest' = Tail(rest) /\ UNCHANGED <<row, job, todo, broken>>
        /\ disk' = [disk EXCEPT ![job.file] = Append(@, Head(rest))]
    BY <1>5 DEF ReceiveChunk
  <2>2. job.file \in todo /\ job.file \in Files /\ job.source \in Sources /\ Continues(disk, job.file, job.source, rest)
    BY <1>0, <1>t, <2>1 DEF Receiving, StTyped
  <2>3. /\ disk' \in [Files -> Seq(Chunk)] /\ rest' \in Seq(Chunk)
        /\ ChunksInPlace(disk') /\ Continues(disk', job.file, job.source, rest')
    BY <1>0, <2>1, <2>2, OneMore
  <2>4. \A g \in Files \ {job.file} : disk'[g] = disk[g]
    BY <1>t, <2>1
  <2>5. StTyped'
    BY <1>0, <2>1, <2>3 DEF StTyped
  <2>6. Receiving'
    BY <2>1, <2>2, <2>3 DEF Receiving
  <2>7. Downloaded'
    BY <1>0, <2>1, <2>2, <2>4 DEF Downloaded, Long
  <2> QED
    BY <1>0, <2>1, <2>3, <2>5, <2>6, <2>7 DEF StInv, Rowless, RowsLong
<1>6. ASSUME FileDone PROVE StInv'
  <2>1. job.at = "body" /\ rest = <<>> /\ todo' = todo \ {job.file} /\ UNCHANGED <<row, disk, rest, broken>>
    BY <1>6 DEF FileDone
  <2>2. /\ job' \in JobType /\ job'.at = "files" /\ job'.source = job.source
        /\ job'.format = job.format /\ job'.op = job.op
    BY <1>6, <1>t DEF FileDone, JobType
  <2>3. job.file \in Files /\ Len(disk[job.file]) >= SizeOf[job.source][job.file]
    <3>1. job.file \in Files /\ Len(disk[job.file]) + Len(rest) = SizeOf[job.source][job.file]
      BY <1>0, <1>t, <2>1 DEF Receiving, Continues
    <3>2. Len(disk[job.file]) \in Nat /\ Len(rest) = 0
      BY <1>t, <2>1, <3>1
    <3> QED
      BY <3>1, <3>2
  <2>4. StTyped'
    BY <1>0, <2>1, <2>2 DEF StTyped
  <2>5. Downloaded'
    BY <1>0, <2>1, <2>2, <2>3 DEF Downloaded, Long
  <2> QED
    BY <1>0, <2>1, <2>2, <2>4, <2>5 DEF StInv, Receiving, Rowless, RowsLong
<1>7. ASSUME Save PROVE StInv'
  <2>1. /\ job.at = "files" /\ todo = {} /\ row' = [source |-> job.source, format |-> job.format]
        /\ UNCHANGED <<disk, todo, rest, broken>>
    BY <1>7 DEF Save
  <2>2. job.source \in Sources /\ job.format \in Formats /\ row'.source = job.source /\ row'.format = job.format
    BY <1>0, <2>1 DEF StTyped
  <2>3. Long(disk, Matching[job.format], job.source)
    BY <1>0, <2>1 DEF Downloaded, Long
  <2>4. RowsLong'
    BY <2>1, <2>2, <2>3 DEF RowsLong, Long
  <2>5. row' \in [source : Sources, format : Formats]
    BY <2>1, <2>2
  <2>6. CASE job.op = "update"
    <3>1. /\ job' \in JobType /\ job'.at = "resave" /\ job'.source = job.source
          /\ job'.format = job.format /\ job'.op = job.op
      BY <1>7, <1>t, <2>6 DEF Save, JobType
    <3>2. StTyped'
      BY <1>0, <2>1, <2>2, <2>5, <3>1 DEF StTyped
    <3> QED
      BY <1>0, <2>1, <2>3, <2>4, <3>1, <3>2 DEF StInv, Receiving, Downloaded, Long, Rowless
  <2>7. CASE job.op # "update"
    <3>1. job' = Idle
      BY <1>7, <2>7 DEF Save
    <3>2. StTyped'
      BY <1>0, <1>i, <2>1, <2>5, <3>1 DEF StTyped
    <3> QED
      BY <1>0, <1>i, <2>1, <2>4, <3>1, <3>2 DEF StInv, Receiving, Downloaded, Rowless
  <2> QED
    BY <2>6, <2>7
<1>8. ASSUME SaveUpdated PROVE StInv'
  <2>1. /\ job.at = "resave" /\ row' = [source |-> job.source, format |-> job.format]
        /\ job' = Idle /\ UNCHANGED <<disk, todo, rest, broken>>
    BY <1>8 DEF SaveUpdated
  <2>2. job.source \in Sources /\ job.format \in Formats /\ row'.source = job.source /\ row'.format = job.format
    BY <1>0, <2>1 DEF StTyped
  <2>3. Long(disk, Matching[job.format], job.source)
    BY <1>0, <2>1 DEF Downloaded, Long, Rowless
  <2>4. RowsLong'
    BY <2>1, <2>2, <2>3 DEF RowsLong, Long
  <2>5. row' \in [source : Sources, format : Formats]
    BY <2>1, <2>2
  <2>6. StTyped'
    BY <1>0, <1>i, <2>1, <2>5 DEF StTyped
  <2> QED
    BY <1>0, <1>i, <2>1, <2>4, <2>6 DEF StInv, Receiving, Downloaded, Rowless
<1>9. ASSUME RemoveModel PROVE StInv'
  <2>1. broken' = TRUE /\ UNCHANGED <<row, disk, todo, rest>>
    BY <1>9 DEF RemoveModel
  <2>2. job' \in JobType /\ job'.at = "wipe" /\ job'.op = "remove"
    BY <1>9, <1>i DEF RemoveModel, Idle, JobType
  <2>3. StTyped'
    BY <1>0, <2>1, <2>2 DEF StTyped
  <2> QED
    BY <1>0, <2>1, <2>2, <2>3 DEF StInv, Receiving, Downloaded, Rowless, RowsLong
<1>10. ASSUME Update PROVE StInv'
  <2>1. row # NoRow /\ row' = NoRow /\ broken' = FALSE /\ UNCHANGED <<disk, todo, rest>>
    BY <1>10 DEF Update
  <2>2. row.source \in Sources /\ row.format \in Formats
    BY <1>0, <2>1 DEF StTyped
  <2>3. job' \in JobType /\ job'.at = "wipe" /\ job'.op = "update" /\ job'.source = row.source /\ job'.format = row.format
    BY <1>10, <2>2 DEF Update, JobType
  <2>4. StTyped'
    BY <1>0, <2>1, <2>2, <2>3 DEF StTyped
  <2> QED
    BY <1>0, <2>1, <2>3, <2>4 DEF StInv, Receiving, Downloaded, Rowless, RowsLong
<1>11. ASSUME NEW f \in Files, DeleteFile(f) PROVE StInv'
  <2>1. job.at = "wipe" /\ disk' = [disk EXCEPT ![f] = <<>>] /\ UNCHANGED <<row, job, todo, rest, broken>>
    BY <1>11 DEF DeleteFile
  <2>2. disk' \in [Files -> Seq(Chunk)] /\ ChunksInPlace(disk')
    BY <1>0, <1>t, <2>1, Emptied
  <2>3. StTyped'
    BY <1>0, <2>1, <2>2 DEF StTyped
  <2> QED
    BY <1>0, <2>1, <2>2, <2>3 DEF StInv, Receiving, Downloaded, Rowless, RowsLong
<1>12. ASSUME DeleteRow PROVE StInv'
  <2>1. row' = NoRow /\ broken' = FALSE /\ job' = Idle /\ UNCHANGED <<disk, todo, rest>>
    BY <1>12 DEF DeleteRow
  <2>2. StTyped'
    BY <1>0, <1>i, <2>1 DEF StTyped
  <2> QED
    BY <1>0, <1>i, <2>1, <2>2 DEF StInv, Receiving, Downloaded, Rowless, RowsLong
<1>13. ASSUME PullAgain PROVE StInv'
  <2>1. job.at = "wipe" /\ job.op = "update" /\ UNCHANGED <<row, disk, todo, rest, broken>>
    BY <1>13 DEF PullAgain, DirectoryGone
  <2>2. /\ job' \in JobType /\ job'.at = "info" /\ job'.source = job.source
        /\ job'.format = job.format /\ job'.op = job.op
    BY <1>13, <1>t DEF PullAgain, GoOn, JobType
  <2>3. StTyped'
    BY <1>0, <2>1, <2>2 DEF StTyped
  <2> QED
    BY <1>0, <2>1, <2>2, <2>3 DEF StInv, Receiving, Downloaded, Rowless, RowsLong
<1>14. ASSUME Interrupted PROVE StInv'
  <2>1. job' = Idle /\ todo' = {} /\ rest' = <<>> /\ UNCHANGED <<row, disk, broken>>
    BY <1>14 DEF Interrupted
  <2>2. StTyped'
    BY <1>0, <1>i, <2>1 DEF StTyped
  <2> QED
    BY <1>0, <1>i, <2>1, <2>2 DEF StInv, Receiving, Downloaded, Rowless, RowsLong
<1>15. ASSUME UNCHANGED storeVars PROVE StInv'
  BY <1>0, <1>15 DEF storeVars, StInv, StTyped, Receiving, Downloaded, Rowless, RowsLong
<1> QED
  BY <1>1, <1>2, <1>3, <1>4, <1>5, <1>6, <1>7, <1>8, <1>9, <1>10, <1>11, <1>12, <1>13, <1>14, <1>15
     DEF StoreNext

\* A model that is listed has all its files, whatever failed or was killed at
\* whatever step and whatever partial files were resumed, unless a remove broke off.
THEOREM RowsAlwaysHaveFiles ==
  ASSUME StoreAssumption PROVE StoreSpec => []RowsHaveFiles
<1>1. ASSUME StInv PROVE RowsHaveFiles
  <2> SUFFICES ASSUME row # NoRow, ~broken, NEW f \in Matching[row.format]
               PROVE  FileWhole(f, row.source)
    BY DEF RowsHaveFiles
  <2> DEFINE s == row.source
             d == disk[f]
             n == SizeOf[s][f]
  <2>1. s \in Sources /\ f \in Files
    BY <1>1 DEF StInv, StTyped, StoreAssumption
  <2>2. n \in Nat \ {0} /\ d \in Seq(Chunk) /\ Len(d) \in Nat /\ DOMAIN d = 1..Len(d)
    BY <1>1, <2>1 DEF StInv, StTyped, StoreAssumption
  <2>3. Len(d) >= n
    BY <1>1, <2>1 DEF StInv, RowsLong, Long
  <2>4. \A i \in 1..Len(d) : d[i].pos = i /\ i <= SizeOf[d[i].from][f]
    BY <1>1, <2>1 DEF StInv, ChunksInPlace
  <2> HIDE DEF d, n
  <2>5. ASSUME \A i \in DOMAIN d : d[i].from = s PROVE Len(d) = n
    <3>1. Len(d) \in 1..Len(d)
      BY <2>2, <2>3
    <3>2. d[Len(d)].from = s /\ Len(d) <= SizeOf[d[Len(d)].from][f]
      BY <2>2, <2>4, <2>5, <3>1
    <3>3. Len(d) <= n
      BY <3>2 DEF n
    <3> DEFINE k == Len(d)
    <3>4. k \in Int /\ n \in Int /\ k >= n /\ k <= n
      BY <2>2, <2>3, <3>3
    <3> HIDE DEF k
    <3>5. k = n
      BY <3>4
    <3> QED
      BY <3>5 DEF k
  <2> QED
    BY <2>2, <2>3, <2>4, <2>5 DEF FileWhole, FromOneSource, d, n
<1> QED
  BY <1>1, StInvInit, StInvNext, PTL DEF StoreSpec

(***************************************************************************)
(* The quantizer.  A job is alone with its script while no other of its    *)
(* method stands between the writing and the reading of the same file, or  *)
(* removes it meanwhile; crowded remembers those that ever were not.       *)
(***************************************************************************)
Steps == {"new", "fill", "start", "running", "writing", "exited", "report", "done"}

QzTyped ==
  /\ script \in [Scripted -> [file : Nat, text : Texts]]
  /\ step \in [Jobs -> Steps]
  /\ opened \in [Jobs -> Nat]
  /\ running \in [Jobs -> Texts \cup {Nothing}]
  /\ exit \in [Jobs -> BOOLEAN]
  /\ output \in [Jobs -> {"none", "partial", "whole"}]
  /\ report \in [Jobs -> {"none", "failed", "error", "success"}]

UsesScript(st, j) == MethodOf[j] \in Scripted /\ st[j] \notin {"new", "report", "done"}
Early(st, j)      == st[j] \in {"fill", "start"}
Shares(j, k)      == j # k /\ MethodOf[j] = MethodOf[k]

\* Two that have yet to read the same script are known to be crowded.
CrowdKnown ==
  \A j, k \in Jobs : Shares(j, k) /\ Early(step, j) /\ Early(step, k) => j \in crowded

\* The script of a job is there for another, or runs for another, only in a crowd.
TextKnown ==
  \A j, k \in Jobs : Shares(j, k) /\ Early(step, k) /\ script[MethodOf[k]].text = j => j \in crowded

\* A script is that of its method.
TextOfMethod == \A n \in Scripted, j \in Jobs : script[n].text = j => MethodOf[j] = n

RunKnown ==
  \A j, k \in Jobs : j # k /\ step[k] \in {"running", "writing"} /\ running[k] = j => j \in crowded

\* Only a script is filled and started.
OnlyScripted == \A j \in Jobs : step[j] \in {"fill", "start"} => MethodOf[j] \in Scripted

\* What a job that is not crowded finds.
Filling(j)  == step[j] = "fill" => script[MethodOf[j]] = [file |-> opened[j], text |-> Empty]
Starting(j) == step[j] = "start" => script[MethodOf[j]].text = j
Running(j)  == step[j] \in {"running", "writing"} => running[j] = j
Ended(j)    == step[j] \in {"exited", "report", "done"} /\ exit[j] => running[j] = j /\ output[j] = "whole"

Own == \A j \in Jobs : j \notin crowded => Filling(j) /\ Starting(j) /\ Running(j) /\ Ended(j)

Reported == \A j \in Jobs : report[j] = "success" => step[j] = "done" /\ exit[j]

\* No script is left that nobody uses, but where the last user failed over it.
Cleaned ==
  \A m \in Scripted \ littered :
    (\A j \in Jobs : MethodOf[j] = m => ~UsesScript(step, j)) => script[m].text = Gone

QzInv ==
  /\ QzTyped /\ CrowdKnown /\ TextOfMethod /\ TextKnown /\ RunKnown /\ OnlyScripted /\ Own
  /\ Reported /\ Cleaned

LEMMA QzInvInit == ASSUME QuantizerAssumption, QuantInit PROVE QzInv
<1> USE DEF QuantInit
<1>1. QzTyped
  BY DEF QzTyped, Steps, Texts
<1>2. \A j \in Jobs : step[j] = "new" /\ report[j] = "none"
  OBVIOUS
<1>3. \A m \in Scripted : script[m].text = Gone
  OBVIOUS
<1>4. TextOfMethod
  BY <1>3 DEF TextOfMethod, QuantizerAssumption
<1> QED
  BY <1>1, <1>2, <1>3, <1>4 DEF QzInv, CrowdKnown, TextKnown, RunKnown, OnlyScripted, Own, Filling,
     Starting, Running, Ended, Reported, Cleaned, UsesScript, Early

\* One job goes on.
Moved(j, here, next) ==
  step[j] = here /\ step' \in [Jobs -> Steps] /\ step'[j] = next /\ \A k \in Jobs \ {j} : step'[k] = step[k]

LEMMA GoesMoves ==
  ASSUME QzTyped, NEW j \in Jobs, NEW here, NEW next \in Steps, Goes(j, here, next)
  PROVE  Moved(j, here, next)
  BY DEF QzTyped, Goes, Moved

LEMMA OpenScriptKeeps ==
  ASSUME QuantizerAssumption, QzInv, NEW j \in Jobs, OpenScript(j) PROVE QzInv'
<1> DEFINE m == MethodOf[j]
<1>1. /\ QzTyped /\ CrowdKnown /\ TextOfMethod /\ TextKnown /\ RunKnown /\ OnlyScripted /\ Own
      /\ Reported /\ Cleaned
  BY DEF QzInv
<1>2. Moved(j, "new", "fill") /\ m \in Scripted /\ UNCHANGED <<running, exit, output, report, littered>>
  BY <1>1, GoesMoves DEF OpenScript, IsScripted, Steps
<1>3. PICK f \in Nat : /\ script' = [script EXCEPT ![m] = [file |-> f, text |-> Empty]]
                       /\ opened' = [opened EXCEPT ![j] = f]
  <2>1. script[m].file \in Nat /\ script[m].file + 1 \in Nat
    BY <1>1, <1>2 DEF QzTyped
  <2> QED
    BY <2>1 DEF OpenScript
<1>4. /\ script' \in [Scripted -> [file : Nat, text : Texts]] /\ opened' \in [Jobs -> Nat]
      /\ script'[m] = [file |-> f, text |-> Empty] /\ opened'[j] = f
      /\ \A n \in Scripted \ {m} : script'[n] = script[n]
      /\ \A k \in Jobs \ {j} : opened'[k] = opened[k]
  BY <1>1, <1>2, <1>3 DEF QzTyped, Texts
<1>5. crowded \subseteq crowded'
      /\ \A k \in Jobs : Shares(j, k) /\ Early(step, k) => k \in crowded' /\ j \in crowded'
  <2>1. \A k \in Jobs : Shares(j, k) /\ Early(step, k) => k \in Unread(m)
    BY DEF Shares, Early, Using, Unread
  <2>2. crowded' = IF Unread(m) = {} THEN crowded ELSE crowded \cup Unread(m) \cup {j}
    BY DEF OpenScript
  <2> QED
    BY <2>1, <2>2
<1>6. QzTyped'
  BY <1>1, <1>2, <1>4 DEF QzTyped, Moved
<1>7. \A k \in Jobs : k # j => (Early(step', k) <=> Early(step, k)) /\ (UsesScript(step', k) <=> UsesScript(step, k))
  BY <1>2 DEF UsesScript, Early, Moved
<1>8. CrowdKnown'
  BY <1>1, <1>5, <1>7 DEF CrowdKnown, Shares
<1>9. TextKnown'
  <2> SUFFICES ASSUME NEW i \in Jobs, NEW k \in Jobs, Shares(i, k), Early(step', k),
                      script'[MethodOf[k]].text = i
               PROVE  i \in crowded'
    BY DEF TextKnown
  <2>1. MethodOf[k] # m
    BY <1>4 DEF QuantizerAssumption
  <2>2. k # j /\ Early(step, k)
    BY <1>7, <2>1
  <2>3. MethodOf[k] \in Scripted
    BY <1>1, <2>2 DEF OnlyScripted, Early
  <2> QED
    BY <1>1, <1>4, <1>5, <2>1, <2>2, <2>3 DEF TextKnown
<1>10. RunKnown'
  BY <1>1, <1>2, <1>5 DEF RunKnown, Moved
<1>11. OnlyScripted'
  BY <1>1, <1>2 DEF OnlyScripted, Moved
<1>12. ASSUME NEW k \in Jobs, k \notin crowded'
       PROVE  Filling(k)' /\ Starting(k)' /\ Running(k)' /\ Ended(k)'
  <2>1. CASE k = j
    BY <1>2, <1>4, <2>1 DEF Filling, Starting, Running, Ended, Moved
  <2>2. CASE k # j
    <3>1. Filling(k) /\ Starting(k) /\ Running(k) /\ Ended(k) /\ step'[k] = step[k]
      BY <1>1, <1>2, <1>5, <1>12, <2>2 DEF Own, Moved
    <3>2. ASSUME step[k] \in {"fill", "start"} PROVE script'[MethodOf[k]] = script[MethodOf[k]]
      <4>1. Early(step, k) /\ MethodOf[k] \in Scripted
        BY <1>1, <3>2 DEF OnlyScripted, Early
      <4>2. MethodOf[k] # m
        BY <1>5, <1>12, <2>2, <4>1 DEF Shares
      <4> QED
        BY <1>4, <4>1, <4>2
    <3> QED
      BY <1>2, <1>4, <2>2, <3>1, <3>2 DEF Filling, Starting, Running, Ended
  <2> QED
    BY <2>1, <2>2
<1>13. Reported'
  BY <1>1, <1>2 DEF Reported, Moved
<1>14. Cleaned'
  <2> SUFFICES ASSUME NEW n \in Scripted \ littered,
                      \A k \in Jobs : MethodOf[k] = n => ~UsesScript(step', k)
               PROVE  script'[n].text = Gone
    BY <1>2 DEF Cleaned
  <2>1. n # m
    BY <1>2 DEF UsesScript, Moved
  <2>2. \A k \in Jobs : MethodOf[k] = n => ~UsesScript(step, k)
    BY <1>7, <2>1
  <2> QED
    BY <1>1, <1>4, <2>1, <2>2 DEF Cleaned
<1>15. TextOfMethod'
  BY <1>1, <1>4 DEF TextOfMethod, QuantizerAssumption
<1> QED
  BY <1>6, <1>8, <1>9, <1>10, <1>11, <1>12, <1>13, <1>14, <1>15 DEF QzInv, Own

\* A step after which nobody has yet to read a script who had not before.
QuietJob(j) ==
  /\ crowded \subseteq crowded' /\ step' \in [Jobs -> Steps]
  /\ \A k \in Jobs : Early(step', k) => Early(step, k)
  /\ \A k \in Jobs \ {j} : step'[k] = step[k]

LEMMA MovesQuietly ==
  ASSUME NEW j \in Jobs, NEW here, NEW next, Moved(j, here, next), crowded \subseteq crowded',
         here \in {"fill", "start"} \/ next \notin {"fill", "start"}
  PROVE  QuietJob(j)
<1>1. \A k \in Jobs : Early(step', k) => Early(step, k)
  BY DEF Moved, Early
<1> QED
  BY <1>1 DEF QuietJob, Moved

LEMMA QuietlyKnown ==
  ASSUME QzInv, NEW j \in Jobs, QuietJob(j)
  PROVE  /\ CrowdKnown'
         /\ (UNCHANGED script => TextKnown' /\ TextOfMethod')
         /\ (step'[j] \notin {"running", "writing"} /\ UNCHANGED running => RunKnown')
         /\ (step[j] \in {"running", "writing"} /\ UNCHANGED running => RunKnown')
         /\ (step'[j] \notin {"fill", "start"} => OnlyScripted')
<1> USE DEF QzInv, QuietJob
<1>1. CrowdKnown'
  BY DEF CrowdKnown
<1>2. ASSUME UNCHANGED script PROVE TextKnown' /\ TextOfMethod'
  BY <1>2 DEF TextKnown, TextOfMethod
<1>3. ASSUME step'[j] \notin {"running", "writing"} \/ step[j] \in {"running", "writing"},
             UNCHANGED running
      PROVE  RunKnown'
  <2>1. \A k \in Jobs : step'[k] \in {"running", "writing"} => step[k] \in {"running", "writing"}
    BY <1>3
  <2> QED
    BY <1>3, <2>1 DEF RunKnown
<1>4. ASSUME step'[j] \notin {"fill", "start"} PROVE OnlyScripted'
  BY <1>4 DEF OnlyScripted
<1> QED
  BY <1>1, <1>2, <1>3, <1>4

\* What a job finds that does not move.
LEMMA OthersKeep ==
  ASSUME QzInv, NEW j \in Jobs, QuietJob(j), UNCHANGED <<opened>>,
         NEW k \in Jobs \ {j}, k \notin crowded',
         step[k] \in {"fill", "start"} => script'[MethodOf[k]] = script[MethodOf[k]],
         running'[k] = running[k], exit'[k] = exit[k], output'[k] = output[k]
  PROVE  Filling(k)' /\ Starting(k)' /\ Running(k)' /\ Ended(k)'
<1>1. Filling(k) /\ Starting(k) /\ Running(k) /\ Ended(k) /\ step'[k] = step[k]
  BY DEF QzInv, Own, QuietJob
<1> QED
  BY <1>1 DEF Filling, Starting, Running, Ended

\* A script changes under the hands of those in a crowd only.
LEMMA ScriptOfOthers ==
  ASSUME QzInv, NEW j \in Jobs, Early(step, j), NEW k \in Jobs \ {j}, k \notin crowded,
         step[k] \in {"fill", "start"}
  PROVE  MethodOf[k] \in Scripted /\ MethodOf[k] # MethodOf[j]
<1>1. MethodOf[k] \in Scripted
  BY DEF QzInv, OnlyScripted
<1>2. Early(step, k)
  BY DEF Early
<1> QED
  BY <1>1, <1>2 DEF QzInv, CrowdKnown, Shares

\* Of the methods whose script does not change, it is clean while they are in use
\* or were not before.
LEMMA StaysClean ==
  ASSUME QzInv, NEW j \in Jobs, \A k \in Jobs \ {j} : step'[k] = step[k],
         \A n \in littered \ littered' : script'[n].text = Gone,
         \A n \in Scripted : script'[n].text = script[n].text \/ script'[n].text = Gone
           \/ (n = MethodOf[j] /\ UsesScript(step', j)),
         UsesScript(step, j) => \/ UsesScript(step', j) \/ MethodOf[j] \in littered'
                                \/ script'[MethodOf[j]].text = Gone
  PROVE  Cleaned'
<1> SUFFICES ASSUME NEW n \in Scripted, n \notin littered',
                    \A k \in Jobs : MethodOf[k] = n => ~UsesScript(step', k)
             PROVE  script'[n].text = Gone
  BY DEF Cleaned
<1>1. CASE n \in littered
  BY <1>1
<1>2. CASE n = MethodOf[j] /\ UsesScript(step, j)
  BY <1>2
<1>3. CASE n \notin littered /\ ~(n = MethodOf[j] /\ UsesScript(step, j))
  <2>1. \A k \in Jobs : MethodOf[k] = n => ~UsesScript(step, k)
    BY <1>3 DEF UsesScript
  <2>2. script[n].text = Gone
    BY <1>3, <2>1 DEF QzInv, Cleaned
  <2> QED
    BY <2>2
<1> QED
  BY <1>1, <1>2, <1>3

LEMMA StartToolKeeps ==
  ASSUME QzInv, NEW j \in Jobs, StartTool(j) PROVE QzInv'
<1>1. /\ QzTyped /\ CrowdKnown /\ TextOfMethod /\ TextKnown /\ RunKnown /\ OnlyScripted /\ Own
      /\ Reported /\ Cleaned
  BY DEF QzInv
<1>2. /\ MethodOf[j] \notin Scripted /\ running' = [running EXCEPT ![j] = j]
      /\ UNCHANGED <<script, opened, exit, output, report, crowded, littered>>
      /\ Moved(j, "new", "running")
  BY <1>1, GoesMoves DEF StartTool, IsScripted, Steps
<1>3. QuietJob(j)
  BY <1>2, MovesQuietly
<1>4. /\ running' \in [Jobs -> Texts \cup {Nothing}] /\ running'[j] = j
      /\ \A k \in Jobs \ {j} : running'[k] = running[k]
  BY <1>1, <1>2 DEF QzTyped, Texts
<1>5. QzTyped'
  BY <1>1, <1>2, <1>4 DEF QzTyped, Moved
<1>6. CrowdKnown' /\ TextKnown' /\ TextOfMethod' /\ OnlyScripted'
  BY <1>2, <1>3, QuietlyKnown DEF Moved
<1>7. RunKnown'
  BY <1>1, <1>2, <1>4 DEF RunKnown, Moved
<1>8. ASSUME NEW k \in Jobs, k \notin crowded' PROVE Filling(k)' /\ Starting(k)' /\ Running(k)' /\ Ended(k)'
  <2>1. CASE k = j
    BY <1>2, <1>4, <2>1 DEF Filling, Starting, Running, Ended, Moved
  <2>2. CASE k # j
    BY <1>2, <1>3, <1>4, <1>8, <2>2, OthersKeep
  <2> QED
    BY <2>1, <2>2
<1>9. Reported'
  BY <1>1, <1>2 DEF Reported, Moved
<1>10. Cleaned'
  BY <1>2, <1>3, StaysClean DEF UsesScript, QuietJob
<1> QED
  BY <1>5, <1>6, <1>7, <1>8, <1>9, <1>10 DEF QzInv, Own

\* A script is filled, wholly or in part, or the file has gone from its place.
Filled(j) ==
  LET m == MethodOf[j]
  IN  /\ \/ UNCHANGED script
         \/ \E text \in {j, Garbage} : script' = [script EXCEPT ![m].text = text]
      /\ UNCHANGED <<opened, running, output, report, crowded>>

LEMMA FilledKeeps ==
  ASSUME QuantizerAssumption, QzInv, NEW j \in Jobs, Filled(j),
         NEW next \in {"start", "report"}, Moved(j, "fill", next),
         next = "start" /\ script[MethodOf[j]] = [file |-> opened[j], text |-> Empty]
           => script' = [script EXCEPT ![MethodOf[j]].text = j],
         exit' \in [Jobs -> BOOLEAN], \A k \in Jobs \ {j} : exit'[k] = exit[k],
         next = "report" => ~exit'[j] /\ MethodOf[j] \in littered', littered \subseteq littered'
  PROVE  QzInv'
<1> DEFINE m == MethodOf[j]
<1>1. /\ QzTyped /\ CrowdKnown /\ TextOfMethod /\ TextKnown /\ RunKnown /\ OnlyScripted /\ Own
      /\ Reported /\ Cleaned
  BY DEF QzInv
<1>2. UNCHANGED <<opened, running, output, report, crowded>>
  BY DEF Filled
<1>3. QuietJob(j) /\ m \in Scripted /\ Early(step, j)
  BY <1>1, <1>2, MovesQuietly DEF OnlyScripted, Early, Moved
<1>5. /\ script' \in [Scripted -> [file : Nat, text : Texts]]
      /\ \A n \in Scripted \ {m} : script'[n] = script[n]
      /\ script'[m] = script[m] \/ script'[m].text \in {j, Garbage}
  <2>1. ASSUME NEW text \in {j, Garbage}, script' = [script EXCEPT ![m].text = text]
        PROVE  /\ script' \in [Scripted -> [file : Nat, text : Texts]]
               /\ \A n \in Scripted \ {m} : script'[n] = script[n]
               /\ script'[m].text = text
    BY <1>1, <1>3, <2>1 DEF QzTyped, Texts
  <2>2. CASE UNCHANGED script
    BY <1>1, <2>2 DEF QzTyped
  <2> QED
    BY <2>1, <2>2 DEF Filled
<1>6. QzTyped'
  BY <1>1, <1>2, <1>5 DEF QzTyped, Moved
<1>7. CrowdKnown' /\ RunKnown'
  BY <1>2, <1>3, QuietlyKnown DEF Moved
<1>8. OnlyScripted'
  BY <1>1, <1>3 DEF OnlyScripted, Moved
<1>9. TextKnown'
  <2> SUFFICES ASSUME NEW i \in Jobs, NEW k \in Jobs, Shares(i, k), Early(step', k),
                      script'[MethodOf[k]].text = i
               PROVE  i \in crowded
    BY <1>2 DEF TextKnown
  <2>1. Early(step, k) /\ MethodOf[k] \in Scripted
    BY <1>1, <1>3 DEF QuietJob, Early, OnlyScripted
  <2>2. CASE MethodOf[k] # m \/ script'[m] = script[m]
    BY <1>1, <1>5, <2>1, <2>2 DEF TextKnown
  <2>3. CASE MethodOf[k] = m /\ script'[m].text \in {j, Garbage}
    <3>1. i = j
      BY <2>3 DEF QuantizerAssumption
    <3> QED
      BY <1>1, <1>3, <2>1, <3>1 DEF CrowdKnown
  <2> QED
    BY <1>5, <2>2, <2>3
<1>10. ASSUME NEW k \in Jobs, k \notin crowded' PROVE Filling(k)' /\ Starting(k)' /\ Running(k)' /\ Ended(k)'
  <2>1. CASE k = j /\ next = "start"
    <3>1. script[m] = [file |-> opened[j], text |-> Empty]
      BY <1>1, <1>2, <1>10, <2>1 DEF Own, Filling, Moved
    <3>2. script' = [script EXCEPT ![m].text = j]
      BY <2>1, <3>1
    <3>3. script'[m].text = j
      BY <1>1, <1>3, <3>2 DEF QzTyped
    <3> QED
      BY <2>1, <3>3 DEF Filling, Starting, Running, Ended, Moved
  <2>2. CASE k = j /\ next = "report"
    BY <2>2 DEF Filling, Starting, Running, Ended, Moved
  <2>3. CASE k # j
    <3>1. ASSUME step[k] \in {"fill", "start"} PROVE script'[MethodOf[k]] = script[MethodOf[k]]
      BY <1>2, <1>3, <1>5, <1>10, <2>3, <3>1, ScriptOfOthers
    <3> QED
      BY <1>2, <1>3, <1>10, <2>3, <3>1, OthersKeep
  <2> QED
    BY <2>1, <2>2, <2>3
<1>11. Reported'
  <2> SUFFICES ASSUME NEW k \in Jobs, report[k] = "success" PROVE step'[k] = "done" /\ exit'[k]
    BY <1>2 DEF Reported
  <2>1. step[k] = "done" /\ exit[k]
    BY <1>1 DEF Reported
  <2> QED
    BY <2>1 DEF Moved
<1>12. Cleaned'
  <2>1. UsesScript(step', j) \/ m \in littered'
    BY <1>3 DEF UsesScript, Moved
  <2>2. \A n \in Scripted \ {m} : script'[n].text = script[n].text
    BY <1>5
  <2>3. SUFFICES ASSUME NEW n \in Scripted, n \notin littered',
                        \A k \in Jobs : MethodOf[k] = n => ~UsesScript(step', k)
                 PROVE  script'[n].text = Gone
    BY DEF Cleaned
  <2>4. n # m
    BY <2>1, <2>3
  <2>5. \A k \in Jobs : MethodOf[k] = n => ~UsesScript(step, k)
    BY <2>3, <2>4 DEF UsesScript, Moved
  <2> QED
    BY <1>1, <2>2, <2>3, <2>4, <2>5 DEF Cleaned
<1>13. TextOfMethod'
  BY <1>1, <1>5 DEF TextOfMethod, QuantizerAssumption
<1> QED
  BY <1>6, <1>7, <1>8, <1>9, <1>10, <1>11, <1>12, <1>13 DEF QzInv, Own

LEMMA FillScriptKeeps ==
  ASSUME QuantizerAssumption, QzInv, NEW j \in Jobs, FillScript(j) PROVE QzInv'
<1> DEFINE m == MethodOf[j]
<1>1. QzTyped
  BY DEF QzInv
<1>2. Moved(j, "fill", "start") /\ UNCHANGED <<exit, littered>>
  BY <1>1, GoesMoves DEF FillScript, Steps
<1>3. Filled(j)
  BY DEF FillScript, Filled
<1>4. ASSUME script[m] = [file |-> opened[j], text |-> Empty] PROVE script' = [script EXCEPT ![m].text = j]
  <2>1. script[m].text = Empty /\ script[m].file = opened[j] /\ Empty # Gone
    BY <1>4 DEF Empty, Gone
  <2> QED
    BY <2>1 DEF FillScript
<1>5. exit' \in [Jobs -> BOOLEAN] /\ \A k \in Jobs : exit'[k] = exit[k]
  BY <1>1, <1>2 DEF QzTyped
<1> QED
  BY <1>2, <1>3, <1>4, <1>5, FilledKeeps

LEMMA FillFailsKeeps ==
  ASSUME QuantizerAssumption, QzInv, NEW j \in Jobs, FillFails(j) PROVE QzInv'
<1> DEFINE m == MethodOf[j]
<1>1. QzTyped
  BY DEF QzInv
<1>2. Moved(j, "fill", "report") /\ littered' = littered \cup {m}
  BY <1>1, GoesMoves DEF FillFails, Steps
<1>3. Filled(j)
  <2>1. m \in Scripted
    BY <1>2 DEF QzInv, OnlyScripted, Moved
  <2>2. [script EXCEPT ![m].text = script[m].text] = script
    BY <1>1, <2>1 DEF QzTyped
  <2> QED
    BY <2>2 DEF FillFails, Filled
<1>4. exit' \in [Jobs -> BOOLEAN] /\ ~exit'[j] /\ \A k \in Jobs \ {j} : exit'[k] = exit[k]
  BY <1>1 DEF FillFails, QzTyped
<1> QED
  BY <1>2, <1>3, <1>4, FilledKeeps

LEMMA StartPythonKeeps ==
  ASSUME QuantizerAssumption, QzInv, NEW j \in Jobs, StartPython(j) PROVE QzInv'
<1> DEFINE text == script[MethodOf[j]].text
<1>1. /\ QzTyped /\ CrowdKnown /\ TextOfMethod /\ TextKnown /\ RunKnown /\ OnlyScripted /\ Own
      /\ Reported /\ Cleaned
  BY DEF QzInv
<1>2. PICK next \in {"running", "exited"} : Moved(j, "start", next) /\ (next = "exited" <=> text \notin Jobs)
  <2>1. CASE text \in Jobs
    <3>1. Moved(j, "start", "running")
      BY <1>1, <2>1, GoesMoves DEF StartPython, Steps
    <3> QED
      BY <2>1, <3>1
  <2>2. CASE text \notin Jobs
    <3>1. Moved(j, "start", "exited")
      BY <1>1, <2>2, GoesMoves DEF StartPython, Steps
    <3> QED
      BY <2>2, <3>1
  <2> QED
    BY <2>1, <2>2
<1>3. /\ running' = [running EXCEPT ![j] = text] /\ exit' = [exit EXCEPT ![j] = (text = Empty)]
      /\ UNCHANGED <<script, opened, output, report, crowded, littered>>
  BY DEF StartPython
<1>4. /\ QuietJob(j) /\ MethodOf[j] \in Scripted /\ Early(step, j)
      /\ UsesScript(step, j) /\ UsesScript(step', j)
  BY <1>1, <1>2, <1>3, MovesQuietly DEF OnlyScripted, UsesScript, Early, Moved
<1>5. /\ running' \in [Jobs -> Texts \cup {Nothing}] /\ running'[j] = text
      /\ \A k \in Jobs \ {j} : running'[k] = running[k]
  <2>1. text \in Texts
    BY <1>1, <1>4 DEF QzTyped
  <2> HIDE DEF text
  <2> QED
    BY <1>1, <1>3, <2>1 DEF QzTyped
<1>6. exit' \in [Jobs -> BOOLEAN] /\ \A k \in Jobs \ {j} : exit'[k] = exit[k]
  BY <1>1, <1>3 DEF QzTyped
<1>7. QzTyped'
  BY <1>1, <1>2, <1>3, <1>5, <1>6 DEF QzTyped, Moved
<1>8. CrowdKnown' /\ TextKnown' /\ TextOfMethod' /\ OnlyScripted'
  BY <1>2, <1>3, <1>4, QuietlyKnown DEF Moved
<1>9. RunKnown'
  <2> SUFFICES ASSUME NEW i \in Jobs, NEW k \in Jobs, i # k, step'[k] \in {"running", "writing"}, running'[k] = i
               PROVE  i \in crowded
    BY <1>3 DEF RunKnown
  <2>1. CASE k # j
    BY <1>1, <1>2, <1>5, <2>1 DEF RunKnown, Moved
  <2>2. CASE k = j
    <3>1. text = i
      BY <1>5, <2>2
    <3>2. CASE Shares(i, j)
      BY <1>1, <1>4, <3>1, <3>2 DEF TextKnown
    <3>3. MethodOf[i] = MethodOf[j]
      BY <1>1, <1>4, <3>1 DEF TextOfMethod
    <3> QED
      BY <2>2, <3>2, <3>3 DEF Shares
  <2> QED
    BY <2>1, <2>2
<1>10. ASSUME NEW k \in Jobs, k \notin crowded' PROVE Filling(k)' /\ Starting(k)' /\ Running(k)' /\ Ended(k)'
  <2>1. CASE k = j
    <3>1. text = j
      BY <1>1, <1>2, <1>3, <1>10, <2>1 DEF Own, Starting, Moved
    <3>2. step'[j] = "running" /\ running'[j] = j
      BY <1>2, <1>5, <3>1 DEF Moved
    <3> QED
      BY <2>1, <3>2 DEF Filling, Starting, Running, Ended
  <2>2. CASE k # j
    BY <1>3, <1>4, <1>5, <1>6, <1>10, <2>2, OthersKeep
  <2> QED
    BY <2>1, <2>2
<1>11. Reported'
  BY <1>1, <1>2, <1>3, <1>6 DEF Reported, Moved
<1>12. Cleaned'
  BY <1>3, <1>4, StaysClean DEF QuietJob
<1> QED
  BY <1>7, <1>8, <1>9, <1>10, <1>11, <1>12 DEF QzInv, Own

LEMMA SpawnFailsKeeps ==
  ASSUME QzInv, NEW j \in Jobs, SpawnFails(j) PROVE QzInv'
<1>1. /\ QzTyped /\ CrowdKnown /\ TextOfMethod /\ TextKnown /\ RunKnown /\ OnlyScripted /\ Own
      /\ Reported /\ Cleaned
  BY DEF QzInv
<1>2. PICK here \in {"new", "start"} :
        Moved(j, here, "report") /\ littered' = IF here = "new" THEN littered ELSE littered \cup {MethodOf[j]}
  <2>1. CASE Goes(j, "start", "report") /\ littered' = littered \cup {MethodOf[j]}
    <3>1. Moved(j, "start", "report")
      BY <1>1, <2>1, GoesMoves DEF Steps
    <3> QED
      BY <2>1, <3>1
  <2>2. CASE Goes(j, "new", "report") /\ UNCHANGED littered
    <3>1. Moved(j, "new", "report")
      BY <1>1, <2>2, GoesMoves DEF Steps
    <3> QED
      BY <2>2, <3>1
  <2> QED
    BY <2>1, <2>2 DEF SpawnFails
<1>3. exit' = [exit EXCEPT ![j] = FALSE] /\ UNCHANGED <<script, opened, running, output, report, crowded>>
  BY DEF SpawnFails
<1>4. QuietJob(j)
  BY <1>2, <1>3, MovesQuietly
<1>5. exit' \in [Jobs -> BOOLEAN] /\ ~exit'[j] /\ \A k \in Jobs \ {j} : exit'[k] = exit[k]
  BY <1>1, <1>3 DEF QzTyped
<1>6. QzTyped'
  BY <1>1, <1>2, <1>3, <1>5 DEF QzTyped, Moved
<1>7. CrowdKnown' /\ TextKnown' /\ TextOfMethod' /\ OnlyScripted' /\ RunKnown'
  BY <1>2, <1>3, <1>4, QuietlyKnown DEF Moved
<1>8. ASSUME NEW k \in Jobs, k \notin crowded' PROVE Filling(k)' /\ Starting(k)' /\ Running(k)' /\ Ended(k)'
  <2>1. CASE k = j
    BY <1>2, <1>5, <2>1 DEF Filling, Starting, Running, Ended, Moved
  <2>2. CASE k # j
    BY <1>3, <1>4, <1>5, <1>8, <2>2, OthersKeep
  <2> QED
    BY <2>1, <2>2
<1>9. Reported'
  BY <1>1, <1>2, <1>3, <1>5 DEF Reported, Moved
<1>10. Cleaned'
  <2>1. UsesScript(step, j) => MethodOf[j] \in littered'
    BY <1>2 DEF UsesScript, Moved
  <2>2. littered \subseteq littered'
    BY <1>2
  <2> QED
    BY <1>3, <1>4, <2>1, <2>2, StaysClean DEF QuietJob
<1> QED
  BY <1>6, <1>7, <1>8, <1>9, <1>10 DEF QzInv, Own

LEMMA WriteKeeps ==
  ASSUME QzInv, NEW j \in Jobs, Write(j) \/ ToolSucceeds(j) PROVE QzInv'
<1>1. /\ QzTyped /\ CrowdKnown /\ TextOfMethod /\ TextKnown /\ RunKnown /\ OnlyScripted /\ Own
      /\ Reported /\ Cleaned
  BY DEF QzInv
<1>2. \/ /\ Moved(j, "running", "writing") /\ output' = [output EXCEPT ![running[j]] = "partial"]
         /\ UNCHANGED exit
      \/ /\ Moved(j, "writing", "exited") /\ output' = [output EXCEPT ![running[j]] = "whole"]
         /\ exit' = [exit EXCEPT ![j] = TRUE]
  <2>1. CASE Write(j)
    <3>1. Moved(j, "running", "writing")
      BY <1>1, <2>1, GoesMoves DEF Write, Steps
    <3> QED
      BY <2>1, <3>1 DEF Write
  <2>2. CASE ToolSucceeds(j)
    <3>1. Moved(j, "writing", "exited")
      BY <1>1, <2>2, GoesMoves DEF ToolSucceeds, Steps
    <3> QED
      BY <2>2, <3>1 DEF ToolSucceeds
  <2> QED
    BY <2>1, <2>2
<1>3. UNCHANGED <<script, opened, running, report, crowded, littered>>
  BY DEF Write, ToolSucceeds
<1>4. QuietJob(j)
  BY <1>2, <1>3, MovesQuietly
<1>5. exit' \in [Jobs -> BOOLEAN] /\ \A k \in Jobs \ {j} : exit'[k] = exit[k]
  BY <1>1, <1>2 DEF QzTyped
<1>6. /\ output' \in [Jobs -> {"none", "partial", "whole"}]
      /\ \A k \in Jobs : k # running[j] => output'[k] = output[k]
      /\ running[j] = j /\ step'[j] = "exited" => output'[j] = "whole"
  BY <1>1, <1>2 DEF QzTyped, Moved
<1>7. step[j] \in {"running", "writing"}
  BY <1>2 DEF Moved
<1>8. QzTyped'
  BY <1>1, <1>3, <1>5, <1>6, <1>4 DEF QzTyped, QuietJob
<1>9. CrowdKnown' /\ TextKnown' /\ TextOfMethod' /\ OnlyScripted' /\ RunKnown'
  BY <1>2, <1>3, <1>4, <1>7, QuietlyKnown DEF Moved
<1>10. ASSUME NEW k \in Jobs, k \notin crowded' PROVE Filling(k)' /\ Starting(k)' /\ Running(k)' /\ Ended(k)'
  <2>1. CASE k = j
    <3>1. running[j] = j
      BY <1>1, <1>3, <1>7, <1>10, <2>1 DEF Own, Running
    <3> QED
      BY <1>2, <1>3, <1>6, <2>1, <3>1 DEF Filling, Starting, Running, Ended, Moved
  <2>2. CASE k # j
    <3>1. running[j] # k
      BY <1>1, <1>3, <1>7, <1>10, <2>2 DEF RunKnown
    <3> QED
      BY <1>3, <1>4, <1>5, <1>6, <1>10, <2>2, <3>1, OthersKeep
  <2> QED
    BY <2>1, <2>2
<1>11. Reported'
  <2> SUFFICES ASSUME NEW k \in Jobs, report[k] = "success" PROVE step'[k] = "done" /\ exit'[k]
    BY <1>3 DEF Reported
  <2>1. step[k] = "done" /\ exit[k]
    BY <1>1 DEF Reported
  <2>2. k # j
    BY <1>7, <2>1
  <2> QED
    BY <1>4, <1>5, <2>1, <2>2 DEF QuietJob
<1>12. Cleaned'
  <2>1. UsesScript(step, j) => UsesScript(step', j)
    BY <1>2 DEF UsesScript, Moved
  <2> QED
    BY <1>3, <1>4, <2>1, StaysClean DEF QuietJob
<1> QED
  BY <1>8, <1>9, <1>10, <1>11, <1>12 DEF QzInv, Own

LEMMA ToolFailsKeeps ==
  ASSUME QzInv, NEW j \in Jobs, ToolFails(j) PROVE QzInv'
<1>1. /\ QzTyped /\ CrowdKnown /\ TextOfMethod /\ TextKnown /\ RunKnown /\ OnlyScripted /\ Own
      /\ Reported /\ Cleaned
  BY DEF QzInv
<1>2. Moved(j, step[j], "exited") /\ step[j] \in {"running", "writing"}
  BY <1>1, GoesMoves DEF ToolFails, Steps
<1>3. exit' = [exit EXCEPT ![j] = FALSE]
      /\ UNCHANGED <<script, opened, running, output, report, crowded, littered>>
  BY DEF ToolFails
<1>4. QuietJob(j)
  BY <1>2, <1>3, MovesQuietly
<1>5. exit' \in [Jobs -> BOOLEAN] /\ ~exit'[j] /\ \A k \in Jobs \ {j} : exit'[k] = exit[k]
  BY <1>1, <1>3 DEF QzTyped
<1>6. QzTyped'
  BY <1>1, <1>2, <1>3, <1>5 DEF QzTyped, Moved
<1>7. CrowdKnown' /\ TextKnown' /\ TextOfMethod' /\ OnlyScripted' /\ RunKnown'
  BY <1>2, <1>3, <1>4, QuietlyKnown DEF Moved
<1>8. ASSUME NEW k \in Jobs, k \notin crowded' PROVE Filling(k)' /\ Starting(k)' /\ Running(k)' /\ Ended(k)'
  <2>1. CASE k = j
    BY <1>2, <1>5, <2>1 DEF Filling, Starting, Running, Ended, Moved
  <2>2. CASE k # j
    BY <1>3, <1>4, <1>5, <1>8, <2>2, OthersKeep
  <2> QED
    BY <2>1, <2>2
<1>9. Reported'
  BY <1>1, <1>2, <1>3, <1>5 DEF Reported, Moved
<1>10. Cleaned'
  <2>1. UsesScript(step, j) => UsesScript(step', j)
    BY <1>2 DEF UsesScript, Moved
  <2> QED
    BY <1>3, <1>4, <2>1, StaysClean DEF QuietJob
<1> QED
  BY <1>6, <1>7, <1>8, <1>9, <1>10 DEF QzInv, Own

LEMMA RemoveScriptKeeps ==
  ASSUME QuantizerAssumption, QzInv, NEW j \in Jobs, RemoveScript(j) PROVE QzInv'
<1> DEFINE m == MethodOf[j]
<1>1. /\ QzTyped /\ CrowdKnown /\ TextOfMethod /\ TextKnown /\ RunKnown /\ OnlyScripted /\ Own
      /\ Reported /\ Cleaned
  BY DEF QzInv
<1>2. Moved(j, "exited", "report") /\ UNCHANGED <<opened, running, exit, output, report>>
  BY <1>1, GoesMoves DEF RemoveScript, Steps
<1>4. /\ script' \in [Scripted -> [file : Nat, text : Texts]]
      /\ crowded \subseteq crowded'
      /\ \/ /\ m \in Scripted /\ script'[m].text = Gone /\ Unread(m) \subseteq crowded'
            /\ littered' = littered \ {m}
            /\ \A n \in Scripted \ {m} : script'[n] = script[n]
         \/ /\ UNCHANGED script /\ littered \subseteq littered'
            /\ m \in Scripted => m \in littered'
  <2>1. CASE m \in Scripted /\ script' = [script EXCEPT ![m].text = Gone]
             /\ crowded' = crowded \cup Unread(m) /\ littered' = littered \ {m}
    BY <1>1, <2>1 DEF QzTyped, Texts
  <2>2. CASE UNCHANGED <<script, crowded>> /\ littered' = littered \cup {m}
    BY <1>1, <2>2 DEF QzTyped
  <2>3. CASE m \notin Scripted /\ UNCHANGED <<script, crowded, littered>>
    BY <1>1, <2>3 DEF QzTyped
  <2> QED
    BY <2>1, <2>2, <2>3 DEF RemoveScript, IsScripted
<1>3. QuietJob(j)
  BY <1>2, <1>4, MovesQuietly
<1>5. QzTyped'
  BY <1>1, <1>2, <1>4 DEF QzTyped, Moved
<1>6. CrowdKnown' /\ OnlyScripted' /\ RunKnown'
  BY <1>2, <1>3, QuietlyKnown DEF Moved
<1>7. TextKnown'
  <2> SUFFICES ASSUME NEW i \in Jobs, NEW k \in Jobs, Shares(i, k), Early(step', k),
                      script'[MethodOf[k]].text = i
               PROVE  i \in crowded
    BY <1>4 DEF TextKnown
  <2>1. Early(step, k) /\ MethodOf[k] \in Scripted
    BY <1>1, <1>3 DEF QuietJob, Early, OnlyScripted
  <2>2. MethodOf[k] # m \/ UNCHANGED script
    BY <1>4, <2>1 DEF QuantizerAssumption
  <2> QED
    BY <1>1, <1>4, <2>1, <2>2 DEF TextKnown
<1>8. TextOfMethod'
  BY <1>1, <1>4 DEF TextOfMethod, QuantizerAssumption
<1>9. ASSUME NEW k \in Jobs, k \notin crowded' PROVE Filling(k)' /\ Starting(k)' /\ Running(k)' /\ Ended(k)'
  <2>1. CASE k = j
    BY <1>1, <1>2, <1>4, <1>9, <2>1 DEF Own, Filling, Starting, Running, Ended, Moved
  <2>2. CASE k # j
    <3>1. ASSUME step[k] \in {"fill", "start"} PROVE script'[MethodOf[k]] = script[MethodOf[k]]
      <4>1. MethodOf[k] \in Scripted
        BY <1>1, <3>1 DEF OnlyScripted
      <4>2. ASSUME Unread(m) \subseteq crowded' PROVE MethodOf[k] # m
        BY <1>9, <3>1, <4>2 DEF Unread, Using
      <4> QED
        BY <1>4, <4>1, <4>2
    <3> QED
      BY <1>2, <1>3, <1>9, <2>2, <3>1, OthersKeep
  <2> QED
    BY <2>1, <2>2
<1>10. Reported'
  BY <1>1, <1>2 DEF Reported, Moved
<1>11. Cleaned'
  <2>1. CASE m \in Scripted /\ script'[m].text = Gone /\ littered' = littered \ {m}
             /\ \A n \in Scripted \ {m} : script'[n] = script[n]
    BY <1>3, <2>1, StaysClean DEF QuietJob
  <2>2. CASE UNCHANGED script /\ littered \subseteq littered' /\ (m \in Scripted => m \in littered')
    BY <1>3, <2>2, StaysClean DEF QuietJob, UsesScript
  <2> QED
    BY <1>4, <2>1, <2>2
<1> QED
  BY <1>5, <1>6, <1>7, <1>8, <1>9, <1>10, <1>11 DEF QzInv, Own

LEMMA ReportKeeps ==
  ASSUME QzInv, NEW j \in Jobs, Report(j) PROVE QzInv'
<1>1. /\ QzTyped /\ CrowdKnown /\ TextOfMethod /\ TextKnown /\ RunKnown /\ OnlyScripted /\ Own
      /\ Reported /\ Cleaned
  BY DEF QzInv
<1>2. Moved(j, "report", "done") /\ UNCHANGED <<script, opened, running, exit, output, crowded, littered>>
  BY <1>1, GoesMoves DEF Report, Steps
<1>3. QuietJob(j)
  BY <1>2, MovesQuietly
<1>4. /\ report' \in [Jobs -> {"none", "failed", "error", "success"}]
      /\ report'[j] = "success" => exit[j]
      /\ \A k \in Jobs \ {j} : report'[k] = report[k]
  <2>1. PICK r \in {"failed", "error", "success"} :
          report' = [report EXCEPT ![j] = r] /\ (r = "success" => exit[j])
    BY DEF Report
  <2> QED
    BY <1>1, <2>1 DEF QzTyped
<1>5. QzTyped'
  BY <1>1, <1>2, <1>4 DEF QzTyped, Moved
<1>6. CrowdKnown' /\ TextKnown' /\ TextOfMethod' /\ OnlyScripted' /\ RunKnown'
  BY <1>2, <1>3, QuietlyKnown DEF Moved
<1>7. ASSUME NEW k \in Jobs, k \notin crowded' PROVE Filling(k)' /\ Starting(k)' /\ Running(k)' /\ Ended(k)'
  <2>1. CASE k = j
    BY <1>1, <1>2, <1>7, <2>1 DEF Own, Filling, Starting, Running, Ended, Moved
  <2>2. CASE k # j
    BY <1>2, <1>3, <1>7, <2>2, OthersKeep
  <2> QED
    BY <2>1, <2>2
<1>8. Reported'
  BY <1>1, <1>2, <1>4 DEF Reported, Moved
<1>9. Cleaned'
  <2>1. ~UsesScript(step, j)
    BY <1>2 DEF UsesScript, Moved
  <2> QED
    BY <1>2, <1>3, <2>1, StaysClean DEF QuietJob
<1> QED
  BY <1>5, <1>6, <1>7, <1>8, <1>9 DEF QzInv, Own

LEMMA QzInvNext ==
  ASSUME QuantizerAssumption, QzInv, [QuantNext]_(quantVars) PROVE QzInv'
<1>1. CASE UNCHANGED quantVars
  BY <1>1 DEF quantVars, QzInv, QzTyped, CrowdKnown, TextOfMethod, TextKnown, RunKnown,
     OnlyScripted, Own, Filling, Starting, Running, Ended, Reported, Cleaned, UsesScript, Early
<1>2. CASE QuantNext
  <2>1. PICK j \in Jobs :
          \/ StartTool(j) \/ OpenScript(j) \/ FillScript(j) \/ FillFails(j)
          \/ StartPython(j) \/ SpawnFails(j) \/ Write(j) \/ ToolSucceeds(j) \/ ToolFails(j)
          \/ RemoveScript(j) \/ Report(j)
    BY <1>2 DEF QuantNext
  <2> QED
    BY <2>1, StartToolKeeps, OpenScriptKeeps, FillScriptKeeps, FillFailsKeeps, StartPythonKeeps,
       SpawnFailsKeeps, WriteKeeps, ToolFailsKeeps, RemoveScriptKeeps, ReportKeeps
<1> QED
  BY <1>1, <1>2

\* A job that is reported a success, and whose script no other opened or removed
\* until it was read, has quantized its own model, wholly; and a script outlives the
\* jobs of its method only where the last of them failed to write, to start or to
\* remove it: for any number of jobs and methods and whichever steps fail.
THEOREM QuantizationAlwaysSound ==
  ASSUME QuantizerAssumption
  PROVE  QuantSpec => []QuantizationSound
<1>1. ASSUME QzInv PROVE QuantizationSound
  <2>1. SuccessIsOwn
    BY <1>1 DEF QzInv, Own, Ended, Reported, SuccessIsOwn
  <2>2. ASSUME NEW m \in Scripted \ littered, Using(m) = {}
        PROVE  \A j \in Jobs : MethodOf[j] = m => ~UsesScript(step, j)
    BY <2>2 DEF Using, UsesScript
  <2>3. ScriptsRemoved
    BY <1>1, <2>2 DEF QzInv, Cleaned, ScriptsRemoved
  <2> QED
    BY <2>1, <2>3 DEF QuantizationSound
<1> QED
  BY <1>1, QzInvInit, QzInvNext, PTL DEF QuantSpec

-----------------------------------------------------------------------------
(***************************************************************************)
(* The response cache, for every limit, every set of keys and every number *)
(* of threads, with expiry and clear and without.                          *)
(***************************************************************************)
USE CacheAssumption DEF CacheAssumption

\* The part of CacheTypeOK the argument needs: the map and the positions.
MapTyped ==
  /\ entries \in [Keys -> {"none", "fresh", "expired"}]
  /\ pc \in [Threads -> Pcs]
  /\ key \in [Threads -> Keys]

LEMMA MapTypedNext == MapTyped /\ [CacheNext]_cacheVars => MapTyped'
<1> SUFFICES ASSUME MapTyped, [CacheNext]_cacheVars PROVE MapTyped'
  OBVIOUS
<1> USE DEF MapTyped, Goto, Begin, Pcs, locals
<1>1. ASSUME NEW t \in Threads, NEW k \in Keys, Get(t, k) \/ Set(t, k) PROVE MapTyped'
  BY <1>1 DEF Get, Set
<1>2. ASSUME NEW t \in Threads, ClearEntries(t) PROVE MapTyped'
  BY <1>2 DEF ClearEntries
<1>3. ASSUME NEW t \in Threads, Touch(t) \/ Unlist(t) \/ ClearOrder(t) PROVE MapTyped'
  BY <1>3 DEF Touch, Unlist, ClearOrder
<1>4. ASSUME NEW t \in Threads, Cleanup(t) \/ RemoveVictim(t) \/ Insert(t) PROVE MapTyped'
  BY <1>4 DEF Cleanup, RemoveVictim, Insert
<1>5. ASSUME NEW t \in Threads, CheckFull(t) \/ PopOldest(t) PROVE MapTyped'
  BY <1>5 DEF CheckFull, PopOldest
<1>6. ASSUME NEW k \in Keys, Expire(k) PROVE MapTyped'
  BY <1>6 DEF Expire
<1>7. CASE UNCHANGED cacheVars
  BY <1>7 DEF cacheVars
<1> QED
  BY <1>1, <1>2, <1>3, <1>4, <1>5, <1>6, <1>7 DEF CacheNext, Step

-----------------------------------------------------------------------------
\* The two sets the bound is about are finite, before and after a step.
LEMMA CountsAreNat ==
  /\ IsFiniteSet(Present) /\ IsFiniteSet(Inserting)
  /\ Cardinality(Present) \in Nat /\ Cardinality(Inserting) \in Nat
  /\ Cardinality(Threads) \in Nat
  /\ Cardinality(Inserting) <= Cardinality(Threads)
<1>1. Present \in SUBSET Keys /\ Inserting \in SUBSET Threads
  BY DEF Present, Inserting
<1> QED
  BY <1>1, FS_Subset, FS_CardinalityType

LEMMA CountsAreNatNext ==
  /\ IsFiniteSet(Present') /\ IsFiniteSet(Inserting')
  /\ Cardinality(Present') \in Nat /\ Cardinality(Inserting') \in Nat
  /\ Cardinality(Inserting') <= Cardinality(Threads)
<1>1. Present' \in SUBSET Keys /\ Inserting' \in SUBSET Threads
  BY DEF Present, Inserting
<1> QED
  BY <1>1, FS_Subset, FS_CardinalityType

\* A step that neither adds an entry nor lets a call pass the loop of set keeps
\* the bound.
LEMMA OvershootFrame ==
  ASSUME OvershootBounded, Present' \subseteq Present, Inserting' \subseteq Inserting
  PROVE  OvershootBounded'
<1>1. Cardinality(Present') <= Cardinality(Present)
  BY CountsAreNat, FS_Subset
<1>2. Cardinality(Inserting') <= Cardinality(Inserting)
  BY CountsAreNat, FS_Subset
<1> QED
  BY <1>1, <1>2, CountsAreNat, CountsAreNatNext DEF OvershootBounded

\* A call passes the loop only when the map has room for one entry more, so
\* that there is room but for the other threads.
LEMMA CheckFullKeepsOvershootBounded ==
  ASSUME MapTyped, OvershootBounded, NEW t \in Threads, CheckFull(t)
  PROVE  OvershootBounded'
<1> USE DEF CheckFull, Goto, MapTyped
<1>1. Present' = Present
  BY DEF Present
<1>2. CASE Cardinality(Present) >= MaxEntries
  <2>1. Inserting' \subseteq Inserting
    BY <1>2 DEF Inserting
  <2> QED
    BY <1>1, <2>1, OvershootFrame
<1>3. CASE ~(Cardinality(Present) >= MaxEntries)
  BY <1>1, <1>3, CountsAreNat, CountsAreNatNext DEF OvershootBounded
<1> QED
  BY <1>2, <1>3

\* The insertion uses the place that the call counted on.
LEMMA InsertKeepsOvershootBounded ==
  ASSUME MapTyped, OvershootBounded, NEW t \in Threads, Insert(t)
  PROVE  OvershootBounded'
<1> USE DEF Insert, Goto, MapTyped
<1>1. Inserting' = Inserting \ {t} /\ t \in Inserting
  BY DEF Inserting
<1>2. Cardinality(Inserting') = Cardinality(Inserting) - 1
  BY <1>1, CountsAreNat, FS_RemoveElement
<1>3. Present' = Present \cup {key[t]}
  BY DEF Present
<1>4. Cardinality(Present') <= Cardinality(Present) + 1
  <2>1. Cardinality(Present') =
          IF key[t] \in Present THEN Cardinality(Present) ELSE Cardinality(Present) + 1
    BY <1>3, CountsAreNat, FS_AddElement
  <2> QED
    BY <2>1, CountsAreNat
<1> QED
  BY <1>2, <1>4, CountsAreNat, CountsAreNatNext DEF OvershootBounded

LEMMA OvershootNext ==
  MapTyped /\ OvershootBounded /\ [CacheNext]_cacheVars => OvershootBounded'
<1> SUFFICES ASSUME MapTyped, OvershootBounded, [CacheNext]_cacheVars
             PROVE  OvershootBounded'
  OBVIOUS
<1> USE DEF MapTyped, Goto, Begin, locals, Present, Inserting
<1>1. ASSUME NEW t \in Threads, NEW k \in Keys, Get(t, k) \/ Set(t, k)
      PROVE  OvershootBounded'
  BY <1>1, OvershootFrame DEF Get, Set
<1>2. ASSUME NEW t \in Threads, ClearEntries(t) PROVE OvershootBounded'
  BY <1>2, OvershootFrame DEF ClearEntries
<1>3. ASSUME NEW t \in Threads, Touch(t) \/ Unlist(t) \/ ClearOrder(t)
      PROVE  OvershootBounded'
  BY <1>3, OvershootFrame DEF Touch, Unlist, ClearOrder
<1>4. ASSUME NEW t \in Threads, Cleanup(t) \/ RemoveVictim(t) PROVE OvershootBounded'
  BY <1>4, OvershootFrame DEF Cleanup, RemoveVictim
<1>5. ASSUME NEW t \in Threads, PopOldest(t) PROVE OvershootBounded'
  BY <1>5, OvershootFrame DEF PopOldest
<1>6. ASSUME NEW t \in Threads, CheckFull(t) PROVE OvershootBounded'
  BY <1>6, CheckFullKeepsOvershootBounded
<1>7. ASSUME NEW t \in Threads, Insert(t) PROVE OvershootBounded'
  BY <1>7, InsertKeepsOvershootBounded
<1>8. ASSUME NEW k \in Keys, Expire(k) PROVE OvershootBounded'
  BY <1>8, OvershootFrame DEF Expire
<1>9. CASE UNCHANGED cacheVars
  BY <1>9, OvershootFrame DEF cacheVars
<1> QED
  BY <1>1, <1>2, <1>3, <1>4, <1>5, <1>6, <1>7, <1>8, <1>9 DEF CacheNext, Step

\* set checks the size, evicts and inserts under separate locks, so max_entries
\* is exceeded, but with N threads never by more than N - 1 entries; one thread
\* alone keeps the limit exactly.
THEOREM CacheOvershootAlwaysBounded == CacheSpec => []OvershootBounded
<1>1. CacheInit => MapTyped
  BY DEF CacheInit, MapTyped, Pcs
<1>2. CacheInit => OvershootBounded
  <2> SUFFICES ASSUME CacheInit PROVE OvershootBounded
    OBVIOUS
  <2>1. Present = {} /\ Inserting = {}
    BY DEF CacheInit, Present, Inserting
  <2>2. Cardinality(Threads) >= 1
    BY FS_EmptySet, FS_CardinalityType
  <2> QED
    BY <2>1, <2>2, FS_EmptySet, CountsAreNat DEF OvershootBounded
<1> QED
  BY <1>1, <1>2, MapTypedNext, OvershootNext, PTL DEF CacheSpec

-----------------------------------------------------------------------------
(***************************************************************************)
(* The entries and their order.  As long as calls come one at a time, each *)
(* position of a call says how the two differ; as long as nothing expires  *)
(* or is cleared, an entry that the order does not know is the business of *)
(* a thread that is about to list it or to remove it.                      *)
(***************************************************************************)
CacheTyped ==
  /\ MapTyped
  /\ lru \in Seq(Keys) /\ Once(lru)
  /\ victim \in [Threads -> Keys]
  /\ calls \in 0..MaxCalls

LEMMA KeepsKept == ASSUME NEW q, NEW K PROVE KeepAt(q, K) = KeptAt(q, K)
  BY DEF KeepAt, KeptAt

LEMMA ListedIsInSeq == Listed = InSeq(lru) /\ Listed' = InSeq(lru')
  BY DEF Listed, InSeq

LEMMA UnlistedOrder ==
  ASSUME lru \in Seq(Keys), Once(lru), NEW k \in Keys
  PROVE  /\ Unlisted(k) \in Seq(Keys) /\ Once(Unlisted(k))
         /\ InSeq(Unlisted(k)) = Listed \ {k}
         /\ <<k>> \o Unlisted(k) \in Seq(Keys) /\ Once(<<k>> \o Unlisted(k))
         /\ InSeq(<<k>> \o Unlisted(k)) = Listed \cup {k}
<1> DEFINE u == Unlisted(k)
<1>1. u = KeptAt(lru, {i \in DOMAIN lru : lru[i] # k})
  BY KeepsKept DEF Unlisted
<1>2. u \in Seq(Keys) /\ Once(u)
  BY <1>1, KeptAtSeq, KeptAtElements
<1>3. InSeq(u) = Listed \ {k}
  <2>1. InSeq(u) = {lru[i] : i \in {j \in DOMAIN lru : lru[j] # k} \cap DOMAIN lru}
    BY <1>1, KeptAtElements
  <2> QED
    BY <2>1 DEF Listed
<1> HIDE DEF u
<1>4. /\ <<k>> \o u \in Seq(Keys) /\ Once(<<k>> \o u) /\ InSeq(<<k>> \o u) = InSeq(u) \cup {k}
  BY <1>2, <1>3, FrontElements
<1> QED
  BY <1>2, <1>3, <1>4 DEF u

LEMMA CacheTypedNext == CacheTyped /\ [CacheNext]_cacheVars => CacheTyped'
<1> SUFFICES ASSUME CacheTyped, [CacheNext]_cacheVars PROVE CacheTyped'
  OBVIOUS
<1>0. MapTyped'
  BY MapTypedNext DEF CacheTyped
<1> DEFINE Rest == /\ lru \in Seq(Keys) /\ Once(lru)
                   /\ victim \in [Threads -> Keys] /\ calls \in 0..MaxCalls
<1>1. ASSUME NEW t \in Threads, NEW k \in Keys, Get(t, k) \/ Set(t, k) PROVE Rest'
  BY <1>1 DEF Get, Set, Begin, CacheTyped, Once
<1>2. ASSUME NEW t \in Threads, ClearEntries(t) PROVE Rest'
  BY <1>2 DEF ClearEntries, Begin, CacheTyped, Once
<1>3. ASSUME NEW t \in Threads, Touch(t) \/ Unlist(t) PROVE Rest'
  <2>1. key[t] \in Keys
    BY DEF CacheTyped, MapTyped
  <2>2. lru' \in Seq(Keys) /\ Once(lru')
    BY <1>3, <2>1, UnlistedOrder DEF Touch, Unlist, CacheTyped
  <2>3. Once(lru)'
    BY <2>2 DEF Once
  <2> QED
    BY <1>3, <2>2, <2>3 DEF Touch, Unlist, locals, cacheHistory, CacheTyped
<1>4. ASSUME NEW t \in Threads, ClearOrder(t) PROVE Rest'
  BY <1>4 DEF ClearOrder, locals, cacheHistory, CacheTyped, Once
<1>5. ASSUME NEW t \in Threads, PopOldest(t) PROVE Rest'
  <2>1. CASE lru = <<>>
    BY <1>5, <2>1 DEF PopOldest, cacheHistory, CacheTyped, Once
  <2>2. CASE lru # <<>>
    <3>0. lru' = SubSeq(lru, 1, Len(lru) - 1) /\ lru \in Seq(Keys) /\ Once(lru)
      BY <1>5, <2>2 DEF PopOldest, CacheTyped
    <3>1. lru' \in Seq(Keys) /\ Once(lru') /\ lru[Len(lru)] \in Keys
      BY <2>2, <3>0, LastTaken
    <3>2. Once(lru)'
      BY <3>1 DEF Once
    <3> QED
      BY <1>5, <2>2, <3>1, <3>2 DEF PopOldest, cacheHistory, CacheTyped
  <2> QED
    BY <2>1, <2>2
<1>6. ASSUME NEW t \in Threads, Cleanup(t) \/ CheckFull(t) \/ RemoveVictim(t) \/ Insert(t) PROVE Rest'
  BY <1>6 DEF Cleanup, CheckFull, RemoveVictim, Insert, locals, cacheHistory, CacheTyped, Once
<1>7. ASSUME NEW k \in Keys, Expire(k) PROVE Rest'
  BY <1>7 DEF Expire, locals, CacheTyped, Once
<1>8. ASSUME UNCHANGED cacheVars PROVE Rest'
  <2>1. UNCHANGED <<lru, victim, calls>>
    BY <1>8 DEF cacheVars, locals
  <2> QED
    BY <2>1 DEF CacheTyped, Once
<1> HIDE DEF Rest
<1>9. Rest'
  BY <1>1, <1>2, <1>3, <1>4, <1>5, <1>6, <1>7, <1>8 DEF CacheNext, Step
<1> QED
  BY <1>0, <1>9 DEF CacheTyped, Rest

\* While nothing expires or is cleared, an entry is in the order, or a thread is
\* about to list it or to remove it.
EntriesFound ==
  /\ \A k \in Keys : entries[k] # "expired"
  /\ \A t \in Threads : pc[t] \notin {"unlist", "clear"}
  /\ \A k \in Present :
       \/ k \in Listed
       \/ \E t \in Threads : (pc[t] = "touch" /\ key[t] = k) \/ (pc[t] = "remove" /\ victim[t] = k)

LEMMA EntriesFoundNext ==
  CacheTyped /\ EntriesFound /\ [CacheNext]_cacheVars /\ ~aged' => EntriesFound'
<1> SUFFICES ASSUME CacheTyped, EntriesFound, [CacheNext]_cacheVars, ~aged'
             PROVE  EntriesFound'
  OBVIOUS
<1> USE DEF EntriesFound, CacheTyped, MapTyped, Present, Goto
<1>1. ASSUME NEW t \in Threads, NEW k \in Keys, Get(t, k) \/ Set(t, k) PROVE EntriesFound'
  <2>1. CASE Get(t, k)
    BY <2>1 DEF Get, Begin, Listed
  <2>2. CASE Set(t, k)
    BY <2>2 DEF Set, Begin, Listed
  <2> QED
    BY <1>1, <2>1, <2>2
<1>2. ASSUME NEW t \in Threads, Touch(t) PROVE EntriesFound'
  <2>1. Listed' = Listed \cup {key[t]}
    BY <1>2, UnlistedOrder, ListedIsInSeq DEF Touch
  <2> QED
    BY <1>2, <2>1 DEF Touch, locals
<1>3. ASSUME NEW t \in Threads, PopOldest(t) PROVE EntriesFound'
  <2>1. CASE lru = <<>>
    BY <1>3, <2>1 DEF PopOldest, Listed
  <2>2. CASE lru # <<>>
    <3>1. Listed' = Listed \ {lru[Len(lru)]}
      BY <1>3, <2>2, LastTaken, ListedIsInSeq DEF PopOldest
    <3> QED
      BY <1>3, <2>2, <3>1 DEF PopOldest
  <2> QED
    BY <2>1, <2>2
<1>4. ASSUME NEW t \in Threads, Cleanup(t) \/ CheckFull(t) \/ RemoveVictim(t) \/ Insert(t) PROVE EntriesFound'
  BY <1>4 DEF Cleanup, CheckFull, RemoveVictim, Insert, locals, Listed
<1>5. CASE UNCHANGED cacheVars
  <2>1. UNCHANGED <<entries, lru, pc, key, victim>>
    BY <1>5 DEF cacheVars, locals
  <2> QED
    BY <2>1 DEF Listed
<1>6. ASSUME NEW t \in Threads PROVE ~Unlist(t) /\ ~ClearOrder(t) /\ ~ClearEntries(t)
  BY DEF Unlist, ClearOrder, ClearEntries
<1>7. ASSUME NEW k \in Keys PROVE ~Expire(k)
  BY DEF Expire
<1> QED
  BY <1>1, <1>2, <1>3, <1>4, <1>5, <1>6, <1>7 DEF CacheNext, Step

\* What the position of a call that is alone says of the entries and the order.
Between(t) ==
  /\ pc[t] \in {"cleanup", "check", "evict", "insert"} => Present = Listed
  /\ pc[t] = "touch"  => Present = Listed \cup {key[t]}
  /\ pc[t] = "unlist" => Present = Listed \ {key[t]}
  /\ pc[t] = "remove" => Present = Listed \cup {victim[t]} /\ victim[t] \notin Listed
  /\ pc[t] = "clear"  => Present = {}

OneAtATime ==
  /\ Quiet => Present = Listed
  /\ \A t \in Threads : pc[t] # "idle" =>
       Between(t) /\ \A u \in Threads : pc[u] # "idle" => u = t

LEMMA OneAtATimeNext ==
  CacheTyped /\ OneAtATime /\ [CacheNext]_cacheVars /\ ~interleaved' => OneAtATime'
<1> SUFFICES ASSUME CacheTyped, OneAtATime, [CacheNext]_cacheVars, ~interleaved'
             PROVE  OneAtATime'
  OBVIOUS
<1> USE DEF CacheTyped, MapTyped, Goto
\* What is left to show of a step: the thread that takes it is the one busy thread.
<1>a. ASSUME NEW t \in Threads, \A u \in Threads : u # t => pc[u] = "idle" /\ pc'[u] = "idle",
             pc'[t] = "idle" => Present' = Listed', pc'[t] # "idle" => Between(t)'
      PROVE  OneAtATime'
  BY <1>a DEF OneAtATime, Quiet, Between
<1>b. ASSUME NEW t \in Threads, pc[t] # "idle" PROVE Between(t) /\ \A u \in Threads : u # t => pc[u] = "idle"
  BY <1>b DEF OneAtATime
<1>c. ASSUME NEW t \in Threads, NEW k \in Keys, NEW next, Begin(t, k, next)
      PROVE  /\ \A u \in Threads : u # t => pc[u] = "idle" /\ pc'[u] = "idle"
             /\ Present = Listed /\ key'[t] = k /\ pc'[t] = next
  <2>1. Quiet
    BY <1>c DEF Begin
  <2> QED
    BY <1>c, <2>1 DEF Begin, OneAtATime, Quiet
<1>d. UNCHANGED entries => Present' = Present
  BY DEF Present
<1>e. UNCHANGED lru => Listed' = Listed
  BY DEF Listed
<1>1. ASSUME NEW t \in Threads, NEW k \in Keys, Get(t, k) PROVE OneAtATime'
  <2>1. Present' = Present /\ Listed' = Listed
    BY <1>1, <1>d, <1>e DEF Get
  <2>2. entries[k] = "fresh" => k \in Present
    BY DEF Present
  <2> QED
    BY <1>1, <1>a, <1>c, <2>1, <2>2 DEF Get, Between
<1>2. ASSUME NEW t \in Threads, NEW k \in Keys, Set(t, k) PROVE OneAtATime'
  BY <1>2, <1>a, <1>c, <1>d, <1>e DEF Set, Between
<1>3. ASSUME NEW t \in Threads, ClearEntries(t) PROVE OneAtATime'
  <2>1. Present' = {}
    BY <1>3 DEF ClearEntries, Present
  <2> QED
    BY <1>3, <1>a, <1>c, <2>1 DEF ClearEntries, Between
<1>4. ASSUME NEW t \in Threads, Touch(t) PROVE OneAtATime'
  <2>1. Listed' = Listed \cup {key[t]} /\ Present' = Present
    BY <1>4, <1>d, UnlistedOrder, ListedIsInSeq DEF Touch
  <2> QED
    BY <1>4, <1>a, <1>b, <2>1 DEF Touch, Between
<1>5. ASSUME NEW t \in Threads, Unlist(t) PROVE OneAtATime'
  <2>1. Listed' = Listed \ {key[t]} /\ Present' = Present
    BY <1>5, <1>d, UnlistedOrder, ListedIsInSeq DEF Unlist
  <2> QED
    BY <1>5, <1>a, <1>b, <2>1 DEF Unlist, Between
<1>6. ASSUME NEW t \in Threads, ClearOrder(t) PROVE OneAtATime'
  <2>1. Listed' = {} /\ Present' = Present
    BY <1>6, <1>d DEF ClearOrder, Listed
  <2> QED
    BY <1>6, <1>a, <1>b, <2>1 DEF ClearOrder, Between
<1>7. ASSUME NEW t \in Threads, Cleanup(t) PROVE OneAtATime'
  <2>1. /\ Listed' = Listed
        /\ Present' = IF entries[key[t]] = "expired" THEN Present \ {key[t]} ELSE Present
    BY <1>7, <1>e DEF Cleanup, Present
  <2> QED
    BY <1>7, <1>a, <1>b, <2>1 DEF Cleanup, Between, locals
<1>8. ASSUME NEW t \in Threads, CheckFull(t) PROVE OneAtATime'
  BY <1>8, <1>a, <1>b, <1>d, <1>e DEF CheckFull, Between
<1>9. ASSUME NEW t \in Threads, PopOldest(t) PROVE OneAtATime'
  <2>1. CASE lru = <<>>
    BY <1>9, <2>1, <1>a, <1>b, <1>d, <1>e DEF PopOldest, Between
  <2>2. CASE lru # <<>>
    <3>1. lru' = SubSeq(lru, 1, Len(lru) - 1) /\ lru \in Seq(Keys) /\ Once(lru) /\ Present' = Present
      BY <1>9, <2>2, <1>d DEF PopOldest
    <3>2. Listed' = Listed \ {lru[Len(lru)]} /\ lru[Len(lru)] \in Listed
      BY <2>2, <3>1, LastTaken, ListedIsInSeq
    <3>3. victim'[t] = lru[Len(lru)] /\ pc[t] = "evict" /\ pc'[t] = "remove"
      BY <1>9, <2>2 DEF PopOldest
    <3>4. \A u \in Threads : u # t => pc[u] = "idle" /\ pc'[u] = "idle"
      BY <1>9, <2>2, <1>b DEF PopOldest
    <3> QED
      BY <1>a, <1>b, <3>1, <3>2, <3>3, <3>4 DEF Between
  <2> QED
    BY <2>1, <2>2
<1>10. ASSUME NEW t \in Threads, RemoveVictim(t) PROVE OneAtATime'
  <2>1. Listed' = Listed /\ Present' = Present \ {victim[t]}
    BY <1>10, <1>e DEF RemoveVictim, Present
  <2> QED
    BY <1>10, <1>a, <1>b, <2>1 DEF RemoveVictim, Between
<1>11. ASSUME NEW t \in Threads, Insert(t) PROVE OneAtATime'
  <2>1. Listed' = Listed /\ Present' = Present \cup {key[t]} /\ key'[t] = key[t]
    BY <1>11, <1>e DEF Insert, Present, locals
  <2> QED
    BY <1>11, <1>a, <1>b, <2>1 DEF Insert, Between
<1>12. ASSUME NEW k \in Keys, Expire(k) PROVE OneAtATime'
  <2>1. Present' = Present /\ Listed' = Listed /\ UNCHANGED <<pc, key, victim>>
    BY <1>12, <1>e DEF Expire, Present, locals
  <2> QED
    BY <2>1 DEF OneAtATime, Quiet, Between
<1>13. CASE UNCHANGED cacheVars
  <2>1. Present' = Present /\ Listed' = Listed /\ UNCHANGED <<pc, key, victim>>
    BY <1>13, <1>d, <1>e DEF cacheVars, locals
  <2> QED
    BY <2>1 DEF OneAtATime, Quiet, Between
<1> QED
  BY <1>1, <1>2, <1>3, <1>4, <1>5, <1>6, <1>7, <1>8, <1>9, <1>10, <1>11, <1>12, <1>13
  DEF CacheNext, Step

\* Between calls that come one at a time the order lists exactly the entries, and
\* while nothing expires or is cleared it lists every entry however calls interleave,
\* so that evict_lru can find it.
THEOREM OrderAlwaysAgrees == CacheSpec => []OrderAgrees
<1> DEFINE I == CacheTyped /\ (~interleaved => OneAtATime) /\ (~aged => EntriesFound)
<1>1. CacheInit => I
  <2> SUFFICES ASSUME CacheInit PROVE I
    OBVIOUS
  <2>1. Present = {} /\ Listed = {} /\ \A t \in Threads : pc[t] = "idle"
    BY DEF CacheInit, Present, Listed
  <2>2. CacheTyped
    BY DEF CacheInit, CacheTyped, MapTyped, Pcs, Once
  <2>3. OneAtATime
    BY <2>1 DEF OneAtATime
  <2>4. EntriesFound
    BY <2>1 DEF EntriesFound, CacheInit
  <2> QED
    BY <2>2, <2>3, <2>4
<1>2. I /\ [CacheNext]_cacheVars => I'
  <2> SUFFICES ASSUME I, [CacheNext]_cacheVars PROVE I'
    OBVIOUS
  <2>1. CacheTyped'
    BY CacheTypedNext
  <2>2. ASSUME ~interleaved' PROVE OneAtATime'
    <3>1. ~interleaved
      BY <2>2 DEF CacheNext, Step, cacheVars, cacheHistory, Get, Set, Begin, ClearEntries, Touch, Unlist,
                  ClearOrder, PopOldest, Cleanup, CheckFull, RemoveVictim, Insert, Expire
    <3> QED
      BY <2>2, <3>1, OneAtATimeNext
  <2>3. ASSUME ~aged' PROVE EntriesFound'
    <3>1. ~aged
      BY <2>3 DEF CacheNext, Step, cacheVars, cacheHistory, Get, Set, ClearEntries, Touch, Unlist,
                  ClearOrder, PopOldest, Cleanup, CheckFull, RemoveVictim, Insert, Expire
    <3> QED
      BY <2>3, <3>1, EntriesFoundNext
  <2> QED
    BY <2>1, <2>2, <2>3
<1>3. I => OrderAgrees
  <2> SUFFICES ASSUME I PROVE OrderAgrees
    OBVIOUS
  <2>1. ~aged => EntriesEvictable
    BY DEF EntriesFound, EntriesEvictable, Quiet
  <2> QED
    BY <2>1 DEF OneAtATime, OrderAgrees
<1> QED
  BY <1>1, <1>2, <1>3, PTL DEF CacheSpec

-----------------------------------------------------------------------------
(***************************************************************************)
(* The types of the parts.  Each bound needs a step more than the          *)
(* invariant above: a job opens a script once, so that a path has seen no  *)
(* more files than there are jobs, and what the order lists it lists once. *)
(***************************************************************************)
PastNew == {j \in Jobs : step[j] # "new"}

QzCounted ==
  /\ \A m \in Scripted : script[m].file <= Cardinality(PastNew)
  /\ \A j \in Jobs : opened[j] <= Cardinality(PastNew)
  /\ crowded \subseteq Jobs /\ littered \subseteq Scripted

\* A set of jobs is counted, and a larger one has no fewer.
LEMMA JobsCounted ==
  ASSUME QuantizerAssumption, NEW A \in SUBSET Jobs, NEW B \in SUBSET Jobs, A \subseteq B
  PROVE  /\ Cardinality(A) \in Nat /\ Cardinality(B) \in Nat /\ Cardinality(A) <= Cardinality(B)
         /\ A # B => Cardinality(A) + 1 <= Cardinality(B)
<1>1. IsFiniteSet(A) /\ IsFiniteSet(B)
  BY FS_Subset, Zenon DEF QuantizerAssumption
<1>2. Cardinality(A) \in Nat /\ Cardinality(B) \in Nat
  BY <1>1, FS_CardinalityType
<1>3. Cardinality(A) <= Cardinality(B) /\ (Cardinality(A) = Cardinality(B) => A = B)
  BY <1>1, FS_Subset
<1> QED
  BY <1>2, <1>3

LEMMA QzCountedNext ==
  ASSUME QuantizerAssumption, QzInv, QzCounted, [QuantNext]_quantVars PROVE QzCounted'
<1>0. QzTyped /\ OnlyScripted
  BY DEF QzInv
<1> DEFINE Before == PastNew
           After == PastNew'
<1>1. Before \in SUBSET Jobs /\ After \in SUBSET Jobs
  BY DEF PastNew
\* What is left to show of a step that opens no script.
<1>a. ASSUME NEW j \in Jobs, NEW here, NEW next \in Steps \ {"new"}, Goes(j, here, next)
      PROVE  Before \subseteq After /\ (here = "new" => Before # After)
  <2>1. Moved(j, here, next)
    BY <1>0, <1>a, GoesMoves
  <2> QED
    BY <2>1 DEF Moved, PastNew
<1>b. ASSUME Before \subseteq After, \A m \in Scripted : script'[m].file = script[m].file,
             opened' = opened, crowded' \subseteq Jobs, littered' \subseteq Scripted
      PROVE  QzCounted'
  <2>1. Cardinality(Before) <= Cardinality(After)
        /\ Cardinality(Before) \in Nat /\ Cardinality(After) \in Nat
    BY <1>1, <1>b, JobsCounted
  <2> HIDE DEF Before, After
  <2>2. \A m \in Scripted : script[m].file \in Nat /\ script[m].file <= Cardinality(Before)
    BY <1>0 DEF QzTyped, QzCounted, Before
  <2>3. \A j \in Jobs : opened[j] \in Nat /\ opened[j] <= Cardinality(Before)
    BY <1>0 DEF QzTyped, QzCounted, Before
  <2>4. \A m \in Scripted : script'[m].file <= Cardinality(After)
    BY <1>b, <2>1, <2>2
  <2>5. \A j \in Jobs : opened'[j] <= Cardinality(After)
    BY <1>b, <2>1, <2>3
  <2> QED
    BY <1>b, <2>4, <2>5 DEF QzCounted, After
<1>c. crowded \subseteq Jobs /\ littered \subseteq Scripted
  BY DEF QzCounted
<1>2. ASSUME NEW j \in Jobs, OpenScript(j) PROVE QzCounted'
  <2> DEFINE m == MethodOf[j]
  <2>1. m \in Scripted /\ Goes(j, "new", "fill")
    BY <1>2 DEF OpenScript, IsScripted
  <2>2. Before \subseteq After /\ Before # After
    BY <1>a, <2>1 DEF Steps
  <2>3. /\ Cardinality(Before) + 1 <= Cardinality(After)
        /\ Cardinality(Before) \in Nat /\ Cardinality(After) \in Nat
    BY <1>1, <2>2, JobsCounted
  <2>4. PICK f \in {script[m].file, script[m].file + 1} :
          /\ script' = [script EXCEPT ![m] = [file |-> f, text |-> Empty]]
          /\ opened' = [opened EXCEPT ![j] = f]
    BY <1>2 DEF OpenScript
  <2>5. crowded' \subseteq Jobs /\ littered' = littered
    BY <1>2, <1>c DEF OpenScript, Unread, Using
  <2> HIDE DEF Before, After
  <2>6. f \in Nat /\ f <= Cardinality(Before) + 1
    <3>1. script[m].file \in Nat /\ script[m].file <= Cardinality(Before)
      BY <1>0, <2>1 DEF QzTyped, QzCounted, Before
    <3> QED
      BY <2>3, <3>1
  <2>7. \A n \in Scripted : script'[n].file = IF n = m THEN f ELSE script[n].file
    BY <1>0, <2>4 DEF QzTyped
  <2>8. \A k \in Jobs : opened'[k] = IF k = j THEN f ELSE opened[k]
    BY <1>0, <2>4 DEF QzTyped
  <2>9. \A n \in Scripted : script[n].file \in Nat /\ script[n].file <= Cardinality(Before)
    BY <1>0 DEF QzTyped, QzCounted, Before
  <2>10. \A k \in Jobs : opened[k] \in Nat /\ opened[k] <= Cardinality(Before)
    BY <1>0 DEF QzTyped, QzCounted, Before
  <2>11. \A n \in Scripted : script'[n].file <= Cardinality(After)
    BY <2>3, <2>6, <2>7, <2>9
  <2>12. \A k \in Jobs : opened'[k] <= Cardinality(After)
    BY <2>3, <2>6, <2>8, <2>10
  <2> QED
    BY <1>c, <2>5, <2>11, <2>12 DEF QzCounted, After
<1>3. ASSUME NEW j \in Jobs, FillScript(j) PROVE QzCounted'
  <2>1. Before \subseteq After
    BY <1>a, <1>3 DEF FillScript, Steps
  <2>2. \A n \in Scripted : script'[n].file = script[n].file
    BY <1>0, <1>3 DEF FillScript, QzTyped
  <2> QED
    BY <1>3, <1>b, <1>c, <2>1, <2>2 DEF FillScript
<1>8. ASSUME NEW j \in Jobs, FillFails(j) PROVE QzCounted'
  <2>1. Before \subseteq After
    BY <1>a, <1>8 DEF FillFails, Steps
  <2>2. \A n \in Scripted : script'[n].file = script[n].file
    BY <1>0, <1>8 DEF FillFails, QzTyped
  <2>3. littered' \subseteq Scripted
    BY <1>0, <1>8, <1>c DEF FillFails, OnlyScripted, Goes
  <2> QED
    BY <1>8, <1>b, <1>c, <2>1, <2>2, <2>3 DEF FillFails
<1>4. ASSUME NEW j \in Jobs, RemoveScript(j) PROVE QzCounted'
  <2>1. Before \subseteq After
    BY <1>a, <1>4 DEF RemoveScript, Steps
  <2>2. \A n \in Scripted : script'[n].file = script[n].file
    BY <1>0, <1>4 DEF RemoveScript, QzTyped
  <2>3. crowded' \subseteq Jobs /\ littered' \subseteq Scripted
    BY <1>4, <1>c DEF RemoveScript, IsScripted, Unread, Using
  <2> QED
    BY <1>4, <1>b, <1>c, <2>1, <2>2, <2>3 DEF RemoveScript
<1>5. ASSUME NEW j \in Jobs, SpawnFails(j) PROVE QzCounted'
  <2>1. Before \subseteq After
    BY <1>a, <1>5 DEF SpawnFails, Steps
  <2>2. littered' \subseteq Scripted
    BY <1>0, <1>5, <1>c DEF SpawnFails, OnlyScripted, Goes
  <2> QED
    BY <1>5, <1>b, <1>c, <2>1, <2>2 DEF SpawnFails
<1>6. ASSUME NEW j \in Jobs, \/ StartTool(j) \/ StartPython(j) \/ Write(j) \/ ToolSucceeds(j)
                             \/ ToolFails(j) \/ Report(j)
      PROVE  QzCounted'
  <2>1. Before \subseteq After
    <3>1. \E here, next : next \in Steps \ {"new"} /\ Goes(j, here, next)
      BY <1>6 DEF StartTool, StartPython, Write, ToolSucceeds, ToolFails, Report, Steps
    <3> QED
      BY <1>a, <3>1
  <2>2. UNCHANGED <<script, opened, crowded, littered>>
    BY <1>6, Zenon DEF StartTool, StartPython, Write, ToolSucceeds, ToolFails, Report
  <2> QED
    BY <1>b, <1>c, <2>1, <2>2
<1>7. CASE UNCHANGED quantVars
  BY <1>b, <1>c, <1>7 DEF quantVars, PastNew
<1> QED
  BY <1>2, <1>3, <1>4, <1>5, <1>6, <1>7, <1>8, Zenon DEF QuantNext

LEMMA QuantizerTypes == ASSUME QuantizerAssumption PROVE QuantSpec => []QuantTypeOK
<1>1. QuantInit => QzCounted
  <2> SUFFICES ASSUME QuantInit PROVE QzCounted
    OBVIOUS
  <2>1. Cardinality(PastNew) \in Nat
    BY JobsCounted DEF PastNew
  <2> QED
    BY <2>1 DEF QuantInit, QzCounted
<1>2. ASSUME QzInv, QzCounted PROVE QuantTypeOK
  <2>0. QzTyped
    BY <1>2 DEF QzInv
  <2> DEFINE n == Cardinality(PastNew)
             all == Cardinality(Jobs)
  <2>1. n \in Nat /\ all \in Nat /\ n <= all
    BY JobsCounted DEF PastNew
  <2> HIDE DEF n, all
  <2>2. \A m \in Scripted : script[m].file \in Nat /\ script[m].file <= n /\ script[m].text \in Texts
    BY <1>2, <2>0 DEF QzTyped, QzCounted, n
  <2>3. \A m \in Scripted : script[m].file \in 0..all
    BY <2>1, <2>2
  <2>4. script \in [Scripted -> [file : 0..all, text : Texts]]
    <3>1. script \in [Scripted -> [file : Nat, text : Texts]]
      BY <2>0 DEF QzTyped
    <3> QED
      BY <2>3, <3>1
  <2>5. \A j \in Jobs : opened[j] \in Nat /\ opened[j] <= n
    BY <1>2, <2>0 DEF QzTyped, QzCounted, n
  <2>6. opened \in [Jobs -> 0..all]
    <3>1. \A j \in Jobs : opened[j] \in 0..all
      BY <2>1, <2>5
    <3> QED
      BY <2>0, <3>1 DEF QzTyped
  <2> QED
    BY <1>2, <2>0, <2>4, <2>6, Zenon DEF QzTyped, QzCounted, QuantTypeOK, Steps, all
<1> QED
  BY <1>1, <1>2, QzInvInit, QzInvNext, QzCountedNext, PTL DEF QuantSpec

\* The bound on the pulls.
LEMMA HubTypes == ASSUME Hub!HubAssumption PROVE Hub!HubSpec => []Hub!HubTypeOK
<1> DEFINE Bounded == pulls \in 0..MaxPulls
<1>1. Hub!HubInit => Bounded
  BY DEF Hub!HubInit, Hub!HubAssumption
<1>2. Bounded /\ [Hub!HubNext]_(Hub!hubVars) => Bounded'
  <2> SUFFICES ASSUME Bounded, [Hub!HubNext]_(Hub!hubVars) PROVE Bounded'
    OBVIOUS
  <2>1. ASSUME NEW p \in Pullers, Hub!Begin(p) PROVE Bounded'
    <3>1. pulls < MaxPulls /\ pulls' = pulls + 1
      BY <2>1, Zenon DEF Hub!Begin
    <3>2. pulls \in 0..MaxPulls /\ MaxPulls \in Nat
      BY DEF Hub!HubAssumption
    <3> QED
      BY <3>1, <3>2
  <2>2. ASSUME NEW p \in Pullers, \/ Hub!Respond(p) \/ Hub!OpenToAppend(p) \/ Hub!Create(p)
                                  \/ Hub!WriteChunk(p) \/ Hub!Finish(p) \/ Hub!Stop(p)
        PROVE  pulls' = pulls
    BY <2>2, Zenon DEF Hub!Respond, Hub!OpenToAppend, Hub!Create, Hub!WriteChunk, Hub!Finish, Hub!Stop
  <2>3. Hub!Remove \/ UNCHANGED Hub!hubVars => pulls' = pulls
    BY Zenon DEF Hub!Remove, Hub!hubVars
  <2> QED
    BY <2>1, <2>2, <2>3, Zenon DEF Hub!HubNext
<1>3. ASSUME HubBase, Bounded PROVE Hub!HubTypeOK
  <2>1. HubTyped
    BY <1>3 DEF HubBase
  <2>2. \A p \in Pullers : pull[p] \in PullType
    BY <2>1 DEF HubTyped
  <2>3. \A p \in Pullers :
          /\ pull[p].at \in {"idle", "request", "open", "append", "write"}
          /\ pull[p].file \in Inodes \cup {NoFile}
          /\ pull[p].rest \in Seq(1..Size)
    BY <2>2 DEF PullType
  <2> QED
    BY <1>3, <2>1, <2>3, Zenon DEF HubTyped, Hub!HubTypeOK
<1> HIDE DEF Bounded
<1> QED
  BY <1>1, <1>2, <1>3, HubInit, HubBaseNext, PTL DEF Hub!HubSpec

LEMMA StoreTypes == ASSUME StoreAssumption PROVE StoreSpec => []StoreTypeOK
<1>1. StInv => StoreTypeOK
  BY DEF StInv, StTyped, JobType, StoreTypeOK
<1> QED
  BY <1>1, StInvInit, StInvNext, PTL DEF StoreSpec

LEMMA KvTypes == ASSUME KvAssumption PROVE KvSpec => []KvTypeOK
<1> DEFINE Counts == seqLen \in [Layers -> Nat]
<1>1. KvInit => Counts
  BY DEF KvInit
<1>2. Counts /\ [KvNext]_kvVars => Counts'
  <2> SUFFICES ASSUME Counts, [KvNext]_kvVars PROVE Counts'
    OBVIOUS
  <2>1. ASSUME NEW l \in Layers, AppendToNewPage(l) \/ AppendToLastPage(l) PROVE Counts'
    <3>1. seqLen' = [seqLen EXCEPT ![l] = @ + 1]
      BY <2>1, Zenon DEF AppendToNewPage, AppendToLastPage
    <3> QED
      BY <3>1
  <2>2. ASSUME NEW l \in Layers, Clear(l) PROVE Counts'
    <3>1. seqLen' = [seqLen EXCEPT ![l] = 0]
      BY <2>2, Zenon DEF Clear
    <3> QED
      BY <3>1
  <2>3. ASSUME NEW l \in Layers,
               PoolExhausted(l) \/ \E tokens \in SeqOf(Tokens, MaxAppend) : BeginAppend(l, tokens)
        PROVE  seqLen' = seqLen
    BY <2>3, Zenon DEF PoolExhausted, BeginAppend
  <2>4. UNCHANGED kvVars => seqLen' = seqLen
    BY Zenon DEF kvVars
  <2> QED
    BY <2>1, <2>2, <2>3, <2>4, Zenon DEF KvNext
<1>3. ASSUME KvInv, LogInv, Counts PROVE KvTypeOK
  <2>1. /\ freePages \in Seq(PageIds) /\ pageTable \in [Layers -> Seq(PageIds)]
        /\ allocated = SumOf(Lens(pageTable), Layers)
        /\ Len(freePages) + SumOf(Lens(pageTable), Layers) = MaxPages
    BY <1>3 DEF KvInv, Tabled, PagesKept
  <2>2. allocated \in Nat
    <3> DEFINE f == Lens(pageTable)
    <3>1. NatValued(f, Layers)
      BY <2>1, LensValued DEF Lens, NatValued, IntValued
    <3> HIDE DEF f
    <3>2. SumOf(f, Layers) \in Nat
      BY <3>1, SumGrows
    <3> QED
      BY <2>1, <3>2 DEF f
  <2> QED
    BY <1>3, <2>1, <2>2, Zenon DEF LogInv, KvTypeOK
<1> HIDE DEF Counts
<1> QED
  BY <1>1, <1>2, <1>3, KvInvInit, KvInvNext, LogInvInit, LogInvNext, PTL DEF KvSpec

LEMMA CacheTypes == CacheSpec => []CacheTypeOK
<1>1. CacheInit => CacheTyped
  BY DEF CacheInit, CacheTyped, MapTyped, Pcs, Once
<1>2. ASSUME CacheTyped PROVE CacheTypeOK
  <2>1. lru \in Seq(Keys) /\ Once(lru)
    BY <1>2 DEF CacheTyped
  <2>2. Len(lru) = Cardinality(InSeq(lru))
    BY <2>1, OnceCounts
  <2> QED
    BY <1>2, <2>1, <2>2, ListedIsInSeq, Zenon DEF CacheTyped, MapTyped, CacheTypeOK
<1> QED
  BY <1>1, <1>2, CacheTypedNext, PTL DEF CacheSpec

-----------------------------------------------------------------------------
(***************************************************************************)
(* The parts together.  A step of one leaves the others alone, so that     *)
(* every part behaves as it does on its own.                               *)
(***************************************************************************)
LEMMA CacheRests == Stays("cache") => UNCHANGED cacheVars
  BY DEF Stays
LEMMA PagesRest == Stays("pages") => UNCHANGED kvVars
  BY DEF Stays
LEMMA FileRests == Stays("file") => UNCHANGED dlVars
  BY DEF Stays
LEMMA ModelsRest == Stays("models") => UNCHANGED storeVars
  BY DEF Stays
LEMMA HubRests == Stays("hub") => UNCHANGED hubVars
  BY DEF Stays
LEMMA QuantizerRests == Stays("quantizer") => UNCHANGED quantVars
  BY DEF Stays
LEMMA GgufRests == Stays("gguf") => UNCHANGED ggufVars
  BY DEF Stays

LEMMA StepOfStores ==
  ASSUME [StoresNext]_mcVars
  PROVE  /\ [CacheNext]_cacheVars /\ [KvNext]_kvVars /\ [Dl!DownloadNext]_(Dl!dlVars)
         /\ [StoreNext]_storeVars /\ [Hub!HubNext]_(Hub!hubVars) /\ [QuantNext]_quantVars
         /\ [GgufNext]_ggufVars
<1>1. /\ dlVars = Dl!dlVars /\ hubVars = Hub!hubVars
      /\ dlVars' = (Dl!dlVars)' /\ hubVars' = (Hub!hubVars)'
  BY DEF dlVars, Dl!dlVars, hubVars, Hub!hubVars
<1> DEFINE Moves(p) ==
             CASE p = "cache" -> CacheNext
               [] p = "pages" -> KvNext
               [] p = "file" -> Dl!DownloadNext
               [] p = "models" -> StoreNext
               [] p = "hub" -> Hub!HubNext
               [] p = "quantizer" -> QuantNext
               [] p = "gguf" -> GgufNext
<1>2. CASE UNCHANGED mcVars
  BY <1>1, <1>2, Zenon DEF mcVars
<1>3. CASE StoresNext
  <2>1. PICK p \in PartNames : Moves(p) /\ \A q \in PartNames \ {p} : Stays(q)
    BY <1>3, Zenon DEF StoresNext, Of, PartNames
  <2>2. \A q \in PartNames : Moves(q) \/ Stays(q)
    BY <2>1
  <2>3. /\ Moves("cache") \/ Stays("cache")
        /\ Moves("pages") \/ Stays("pages")
        /\ Moves("file") \/ Stays("file")
        /\ Moves("models") \/ Stays("models")
        /\ Moves("hub") \/ Stays("hub")
        /\ Moves("quantizer") \/ Stays("quantizer")
        /\ Moves("gguf") \/ Stays("gguf")
    <3> HIDE DEF Moves
    <3> QED
      BY <2>2, Zenon DEF PartNames
  <2> QED
    BY <1>1, <2>3, CacheRests, PagesRest, FileRests, ModelsRest, HubRests, QuantizerRests,
       GgufRests
<1> QED
  BY <1>2, <1>3

\* Composing the parts adds nothing to what each of them does: the composition
\* implements every part (they store in places of their own).
THEOREM StoresBehaveAsAlone ==
  FairSpec =>
    /\ CacheSpec /\ KvSpec /\ Dl!DownloadSpec /\ StoreSpec /\ Hub!HubSpec /\ QuantSpec
    /\ GgufSpec
<1>1. StoresInit =>
        /\ CacheInit /\ KvInit /\ Dl!DownloadInit /\ StoreInit /\ Hub!HubInit /\ QuantInit
        /\ GgufInit
  BY Zenon DEF StoresInit
<1> QED
  BY <1>1, StepOfStores, PTL DEF FairSpec, CacheSpec, KvSpec, Dl!DownloadSpec, StoreSpec,
     Hub!HubSpec, QuantSpec, GgufSpec

\* What is reported as downloaded, what the hub client gives the name of a model and
\* what the reader of model files returns is the whole file (downloader.rs,
\* huggingface.rs, gguf.rs), for files of every size, any number of pulls and of
\* values, cut off wherever, under the conditions the three modules state.
THEOREM CompletedAlwaysWhole == FairSpec => []CompletedIsWhole
<1>1. Dl!DownloadSpec => []Dl!CompletedIsWhole
  BY StoresAssumption, DownloadsAlwaysWhole
<1>2. Hub!HubSpec => []Hub!FinalIsWhole
  BY StoresAssumption, FinalAlwaysWhole
<1>3. GgufSpec => []ParsedIsWhole
  BY StoresAssumption, ModelFilesAlwaysWhole, PTL
<1>4. Dl!CompletedIsWhole /\ Hub!FinalIsWhole /\ ParsedIsWhole => CompletedIsWhole
  BY DEF CompletedIsWhole
<1> QED
  BY <1>1, <1>2, <1>3, <1>4, StoresBehaveAsAlone, PTL

\* Every value keeps to its type, whatever the parts do: the order of the cache lists
\* no key twice (cache.rs), the files a method's script has been are no more than the
\* jobs (quantizer.rs), and the reader never stands beyond the end of its file, nor
\* is a tensor of a type it does not know (gguf.rs).
THEOREM StoresTypesAlwaysOK == FairSpec => []TypesOK
<1>1. CacheSpec => []CacheTypeOK
  BY CacheTypes
<1>2. KvSpec => []KvTypeOK
  BY StoresAssumption, KvTypes
<1>3. Dl!DownloadSpec => []Dl!DownloadTypeOK
  <2>1. Dl!DownloadSpec => []DlInv
    BY StoresAssumption, DownloadAlwaysSound
  <2>2. DlInv => Dl!DownloadTypeOK
    BY DEF DlInv
  <2> QED
    BY <2>1, <2>2, PTL
<1>4. StoreSpec => []StoreTypeOK
  BY StoresAssumption, StoreTypes
<1>5. Hub!HubSpec => []Hub!HubTypeOK
  BY StoresAssumption, HubTypes
<1>6. QuantSpec => []QuantTypeOK
  BY StoresAssumption, QuantizerTypes
<1>7. GgufSpec => []GgufTypeOK
  BY StoresAssumption, ModelFilesAlwaysWhole, PTL
<1>8. /\ CacheTypeOK /\ KvTypeOK /\ Dl!DownloadTypeOK /\ StoreTypeOK /\ Hub!HubTypeOK
      /\ QuantTypeOK /\ GgufTypeOK
      => TypesOK
  BY DEF TypesOK
<1> QED
  BY <1>1, <1>2, <1>3, <1>4, <1>5, <1>6, <1>7, <1>8, StoresBehaveAsAlone, PTL

\* Everything the run of the stores checks of a state, and the log of the key-value
\* cache, hold together, for every value of the constants.
THEOREM StoresAlwaysSafe ==
  FairSpec => /\ [](TypesOK /\ CompletedIsWhole /\ OvershootBounded /\ OrderAgrees)
              /\ [](PagesAccounted /\ RowsHaveFiles /\ QuantizationSound)
              /\ ImplementsLog
<1>1. KvSpec => []PagesAccounted
  BY StoresAssumption, PagesAlwaysAccounted
<1>2. KvSpec => ImplementsLog
  BY StoresAssumption, CacheKeepsLog
<1>3. StoreSpec => []RowsHaveFiles
  BY StoresAssumption, RowsAlwaysHaveFiles
<1>4. QuantSpec => []QuantizationSound
  BY StoresAssumption, QuantizationAlwaysSound
<1> QED
  BY <1>1, <1>2, <1>3, <1>4, StoresBehaveAsAlone, StoresTypesAlwaysOK, CompletedAlwaysWhole,
     CacheOvershootAlwaysBounded, OrderAlwaysAgrees, PTL
=============================================================================
