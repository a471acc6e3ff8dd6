---------------------------- MODULE DataTheorems ----------------------------
(***************************************************************************)
(* What the proofs of several components need to know about data: sums     *)
(* over finite sets, and sequences.  What holds of all natural numbers is  *)
(* proved with the set of those it holds of, which takes no operator as a  *)
(* parameter.                                                              *)
(***************************************************************************)
EXTENDS Integers, Sequences, FiniteSets, FiniteSetsExt, FiniteSetTheorems,
        SequenceTheorems, WellFoundedInduction, TLAPS

\* Of the natural numbers that are not in A one would be the least.
LEMMA EveryNat ==
  ASSUME NEW A, 0 \in A, \A n \in Nat : n \in A => n + 1 \in A
  PROVE  Nat \subseteq A
<1> DEFINE R == {ss \in Nat \X Nat : ss[1] < ss[2]}
           Out == Nat \ A
<1>1. IsWellFoundedOn(R, Nat)
  BY NatLessThanWellFounded DEF OpToRel
<1> SUFFICES ASSUME Out # {} PROVE FALSE
  OBVIOUS
<1>2. PICK n \in Out : \A m \in Out : ~ (<<m, n>> \in R)
  <2> HIDE DEF R
  <2> QED
    BY <1>1, WFMin
<1>3. n - 1 \in Out
  BY <1>2
<1>4. <<n - 1, n>> \in R
  BY <1>3
<1> QED
  BY <1>2, <1>3, <1>4

-----------------------------------------------------------------------------
(***************************************************************************)
(* The sum of f over a finite set, as FiniteSetsExt computes it: from the  *)
(* sum over the rest, once an element is chosen.                           *)
(***************************************************************************)
SumOf(f, S) == MapThenSumSet(LAMBDA x : f[x], S)

Pick(s) == CHOOSE x \in s : TRUE

\* it is the table that MapThenSumSet builds of the sums over the subsets of S.
Sums(f, S, it) ==
  it = [s \in SUBSET S |-> IF s = {} THEN 0 ELSE f[Pick(s)] + it[s \ {Pick(s)}]]

LEMMA SumOfTable == ASSUME NEW f, NEW S PROVE SumOf(f, S) = (CHOOSE it : Sums(f, S, it))[S]
  BY DEF SumOf, MapThenSumSet, MapThenFoldSet, Sums, Pick

LEMMA PickIn == ASSUME NEW s, s # {} PROVE Pick(s) \in s
  BY DEF Pick

LEMMA WithoutOne ==
  ASSUME NEW S, IsFiniteSet(S), NEW s \in SUBSET S, NEW x \in s
  PROVE  /\ IsFiniteSet(s) /\ Cardinality(s) \in Nat /\ Cardinality(s) # 0
         /\ s \ {x} \in SUBSET S
         /\ Cardinality(s \ {x}) = Cardinality(s) - 1
<1>1. IsFiniteSet(s)
  BY FS_Subset
<1> QED
  BY <1>1, FS_CardinalityType, FS_RemoveElement, FS_EmptySet

LEMMA TableExists ==
  ASSUME NEW S, IsFiniteSet(S), NEW f \in [S -> Int]
  PROVE  \E it \in [SUBSET S -> Int] : Sums(f, S, it)
<1> DEFINE Next(it) == [s \in SUBSET S |-> IF s = {} THEN 0 ELSE f[Pick(s)] + it[s \ {Pick(s)}]]
           UpTo(it, n) == \A s \in SUBSET S : Cardinality(s) <= n => it[s] = Next(it)[s]
           A == {n \in Nat : \E it \in [SUBSET S -> Int] : UpTo(it, n)}
<1>0. ASSUME NEW it \in [SUBSET S -> Int] PROVE Next(it) \in [SUBSET S -> Int]
  <2> SUFFICES ASSUME NEW s \in SUBSET S, s # {} PROVE f[Pick(s)] + it[s \ {Pick(s)}] \in Int
    OBVIOUS
  <2> QED
    BY PickIn
<1>1. 0 \in A
  <2> DEFINE zero == [s \in SUBSET S |-> 0]
  <2>1. ASSUME NEW s \in SUBSET S, Cardinality(s) <= 0 PROVE s = {}
    BY <2>1, FS_Subset, FS_CardinalityType, FS_EmptySet
  <2>2. zero \in [SUBSET S -> Int] /\ UpTo(zero, 0)
    BY <2>1
  <2> HIDE DEF UpTo
  <2> QED
    BY <2>2
<1>2. ASSUME NEW n \in Nat, n \in A PROVE n + 1 \in A
  <2>1. PICK it \in [SUBSET S -> Int] : UpTo(it, n)
    BY <1>2
  <2>2. ASSUME NEW s \in SUBSET S, Cardinality(s) <= n + 1, s # {}
        PROVE  Next(it)[s \ {Pick(s)}] = it[s \ {Pick(s)}]
    <3>1. s \ {Pick(s)} \in SUBSET S /\ Cardinality(s \ {Pick(s)}) <= n
      BY <2>2, PickIn, WithoutOne
    <3> HIDE DEF Next
    <3> QED
      BY <2>1, <3>1
  <2>3. UpTo(Next(it), n + 1)
    <3> SUFFICES ASSUME NEW s \in SUBSET S, Cardinality(s) <= n + 1
                 PROVE  Next(it)[s] = Next(Next(it))[s]
      OBVIOUS
    <3> QED
      BY <2>2
  <2>4. Next(it) \in [SUBSET S -> Int]
    BY <1>0
  <2> HIDE DEF UpTo, Next
  <2> QED
    BY <2>3, <2>4
<1>3. Nat \subseteq A
  <2> HIDE DEF A
  <2> QED
    BY <1>1, <1>2, EveryNat
<1>4. PICK it \in [SUBSET S -> Int] : UpTo(it, Cardinality(S))
  <2>1. Cardinality(S) \in A
    BY <1>3, FS_CardinalityType
  <2> HIDE DEF UpTo
  <2> QED
    BY <2>1
<1>5. ASSUME NEW s \in SUBSET S PROVE Cardinality(s) <= Cardinality(S)
  BY FS_Subset
<1> QED
  BY <1>4, <1>5 DEF Sums

\* The tables of two sets agree on the subsets they share.
LEMMA TablesAgree ==
  ASSUME NEW S, IsFiniteSet(S), NEW f, NEW it, Sums(f, S, it),
         NEW T \in SUBSET S, NEW jt, Sums(f, T, jt)
  PROVE  \A s \in SUBSET T : jt[s] = it[s]
<1> DEFINE A == {n \in Nat : \A s \in SUBSET T : Cardinality(s) = n => jt[s] = it[s]}
<1>0. ASSUME NEW s \in SUBSET T
      PROVE  /\ s = {} => jt[s] = 0 /\ it[s] = 0
             /\ s # {} => /\ jt[s] = f[Pick(s)] + jt[s \ {Pick(s)}]
                         /\ it[s] = f[Pick(s)] + it[s \ {Pick(s)}]
  BY DEF Sums
<1>1. 0 \in A
  <2>1. ASSUME NEW s \in SUBSET T, Cardinality(s) = 0 PROVE s = {}
    BY <2>1, FS_Subset, FS_EmptySet
  <2> QED
    BY <1>0, <2>1
<1>2. ASSUME NEW n \in Nat, n \in A PROVE n + 1 \in A
  <2> SUFFICES ASSUME NEW s \in SUBSET T, Cardinality(s) = n + 1 PROVE jt[s] = it[s]
    OBVIOUS
  <2>1. CASE s = {}
    BY <2>1, <1>0
  <2>2. CASE s # {}
    <3>1. s \ {Pick(s)} \in SUBSET T /\ Cardinality(s \ {Pick(s)}) = n
      BY <2>2, PickIn, WithoutOne
    <3>2. jt[s \ {Pick(s)}] = it[s \ {Pick(s)}]
      BY <3>1, <1>2
    <3> QED
      BY <2>2, <1>0, <3>2
  <2> QED
    BY <2>1, <2>2
<1>3. Nat \subseteq A
  <2> HIDE DEF A
  <2> QED
    BY <1>1, <1>2, EveryNat
<1> SUFFICES ASSUME NEW s \in SUBSET T PROVE jt[s] = it[s]
  OBVIOUS
<1>4. Cardinality(s) \in A
  BY <1>3, FS_Subset, FS_CardinalityType
<1> QED
  BY <1>4

\* Whichever element is taken out first.
AnyFirst(f, S, it) == \A s \in SUBSET S : \A x \in s : it[s] = f[x] + it[s \ {x}]

LEMMA SumsAnyFirst ==
  ASSUME NEW S, IsFiniteSet(S), NEW f \in [S -> Int],
         NEW it \in [SUBSET S -> Int], Sums(f, S, it)
  PROVE  AnyFirst(f, S, it)
<1> DEFINE A == {n \in Nat : \A s \in SUBSET S : Cardinality(s) = n =>
                               \A x \in s : it[s] = f[x] + it[s \ {x}]}
<1>0. ASSUME NEW s \in SUBSET S, s # {} PROVE it[s] = f[Pick(s)] + it[s \ {Pick(s)}]
  BY <1>0 DEF Sums
<1>1. 0 \in A
  BY WithoutOne
<1>2. ASSUME NEW n \in Nat, n \in A PROVE n + 1 \in A
  <2> SUFFICES ASSUME NEW s \in SUBSET S, Cardinality(s) = n + 1, NEW x \in s
               PROVE  it[s] = f[x] + it[s \ {x}]
    OBVIOUS
  <2> DEFINE c == Pick(s)
             rest == (s \ {c}) \ {x}
  <2>0. c \in s /\ it[s] = f[c] + it[s \ {c}]
    BY <1>0, PickIn
  <2>1. CASE x = c
    BY <2>0, <2>1
  <2>2. CASE x # c
    <3> HIDE DEF c
    <3>1. /\ s \ {c} \in SUBSET S /\ Cardinality(s \ {c}) = n /\ x \in s \ {c}
          /\ s \ {x} \in SUBSET S /\ Cardinality(s \ {x}) = n /\ c \in s \ {x}
      BY <2>0, <2>2, WithoutOne
    <3>2. it[s \ {c}] = f[x] + it[rest]
      BY <3>1, <1>2
    <3>3. it[s \ {x}] = f[c] + it[rest]
      <4>1. rest = (s \ {x}) \ {c}
        OBVIOUS
      <4> QED
        BY <3>1, <1>2, <4>1
    <3>4. f[x] \in Int /\ f[c] \in Int /\ it[rest] \in Int
      BY <2>0
    <3> HIDE DEF rest
    <3> QED
      BY <2>0, <3>2, <3>3, <3>4
  <2> QED
    BY <2>1, <2>2
<1>3. Nat \subseteq A
  <2> HIDE DEF A
  <2> QED
    BY <1>1, <1>2, EveryNat
<1> SUFFICES ASSUME NEW s \in SUBSET S, NEW x \in s PROVE it[s] = f[x] + it[s \ {x}]
  BY DEF AnyFirst
<1>4. Cardinality(s) \in A
  BY <1>3, FS_Subset, FS_CardinalityType
<1> QED
  BY <1>4

\* Summands, over a finite set.
IntValued(f, S) == IsFiniteSet(S) /\ f \in [S -> Int]
NatValued(f, S) == IsFiniteSet(S) /\ f \in [S -> Nat]

\* What is needed of a sum: nothing adds up to 0, and one element after the other.
THEOREM SumAdds ==
  ASSUME NEW S, NEW f, IntValued(f, S)
  PROVE  /\ SumOf(f, {}) = 0
         /\ \A s \in SUBSET S : SumOf(f, s) \in Int
         /\ \A s \in SUBSET S : \A x \in s : SumOf(f, s) = f[x] + SumOf(f, s \ {x})
<1> USE DEF IntValued
<1>1. PICK it \in [SUBSET S -> Int] : Sums(f, S, it)
  BY TableExists
<1>2. ASSUME NEW T \in SUBSET S PROVE SumOf(f, T) = it[T]
  <2> DEFINE g == [x \in T |-> f[x]]
             jt == CHOOSE jt : Sums(f, T, jt)
  <2>1. \E kt : Sums(f, T, kt)
    <3>1. PICK kt \in [SUBSET T -> Int] : Sums(g, T, kt)
      BY TableExists, FS_Subset
    <3>2. \A s \in SUBSET T : s # {} => Pick(s) \in T
      BY PickIn
    <3>3. Sums(f, T, kt)
      BY <3>1, <3>2 DEF Sums
    <3> QED
      BY <3>3
  <2>2. Sums(f, T, jt)
    BY <2>1
  <2>3. SumOf(f, T) = jt[T]
    BY SumOfTable
  <2> HIDE DEF jt
  <2> QED
    BY <1>1, <2>2, <2>3, TablesAgree
<1>3. it[{}] = 0
  BY <1>1 DEF Sums
<1>4. AnyFirst(f, S, it)
  BY <1>1, SumsAnyFirst
<1>5. ASSUME NEW s \in SUBSET S, NEW x \in s PROVE SumOf(f, s) = f[x] + SumOf(f, s \ {x})
  BY <1>2, <1>4 DEF AnyFirst
<1> QED
  BY <1>1, <1>2, <1>3, <1>5

LEMMA SumStep ==
  ASSUME NEW f, NEW n \in Nat, IntValued(f, 1..n), NEW i \in 1..n
  PROVE  SumOf(f, 1..i) = f[i] + SumOf(f, 1..(i - 1))
<1>1. 1..i \in SUBSET (1..n) /\ i \in 1..i
  OBVIOUS
<1>2. SumOf(f, 1..i) = f[i] + SumOf(f, (1..i) \ {i})
  BY <1>1, SumAdds
<1>3. (1..i) \ {i} = 1..(i - 1)
  OBVIOUS
<1> QED
  BY <1>2, <1>3

LEMMA SumSame ==
  ASSUME NEW S, NEW f, IntValued(f, S), NEW T, NEW g, IntValued(g, T),
         NEW s \in SUBSET (S \cap T), \A x \in s : f[x] = g[x]
  PROVE  SumOf(f, s) = SumOf(g, s)
<1> USE DEF IntValued
<1> DEFINE A == {n \in Nat : \A t \in SUBSET s : Cardinality(t) = n => SumOf(f, t) = SumOf(g, t)}
<1>1. 0 \in A
  <2>1. ASSUME NEW t \in SUBSET s, Cardinality(t) = 0 PROVE t = {}
    BY <2>1, FS_Subset, FS_EmptySet
  <2> QED
    BY <2>1, SumAdds
<1>2. ASSUME NEW n \in Nat, n \in A PROVE n + 1 \in A
  <2> SUFFICES ASSUME NEW t \in SUBSET s, Cardinality(t) = n + 1 PROVE SumOf(f, t) = SumOf(g, t)
    OBVIOUS
  <2>1. PICK x : x \in t
    BY FS_EmptySet
  <2>2. t \ {x} \in SUBSET s /\ Cardinality(t \ {x}) = n
    <3> HIDE DEF A
    <3>1. t \in SUBSET S
      OBVIOUS
    <3> QED
      BY <2>1, <3>1, WithoutOne
  <2>3. SumOf(f, t \ {x}) = SumOf(g, t \ {x})
    BY <2>2, <1>2
  <2>4. SumOf(f, t) = f[x] + SumOf(f, t \ {x}) /\ SumOf(g, t) = g[x] + SumOf(g, t \ {x})
    BY <2>1, SumAdds
  <2> QED
    BY <2>1, <2>3, <2>4
<1>3. Nat \subseteq A
  <2> HIDE DEF A
  <2> QED
    BY <1>1, <1>2, EveryNat
<1>4. Cardinality(s) \in A
  BY <1>3, FS_Subset, FS_CardinalityType
<1> QED
  BY <1>4

\* The order of the summands does not matter.
LEMMA SumPermuted ==
  ASSUME NEW S, NEW f, IntValued(f, S), NEW g, IntValued(g, S),
         NEW b \in [S -> S], \A x, y \in S : b[x] = b[y] => x = y,
         \A y \in S : \E x \in S : b[x] = y, \A x \in S : g[x] = f[b[x]]
  PROVE  SumOf(g, S) = SumOf(f, S)
<1> USE DEF IntValued
<1> DEFINE To(t) == {b[x] : x \in t}
           A == {n \in Nat : \A t \in SUBSET S : Cardinality(t) = n => SumOf(g, t) = SumOf(f, To(t))}
<1>1. 0 \in A
  <2> SUFFICES ASSUME NEW t \in SUBSET S, Cardinality(t) = 0 PROVE SumOf(g, t) = SumOf(f, To(t))
    OBVIOUS
  <2>1. t = {} /\ To(t) = {}
    BY FS_Subset, FS_EmptySet
  <2> QED
    BY <2>1, SumAdds
<1>2. ASSUME NEW n \in Nat, n \in A PROVE n + 1 \in A
  <2> SUFFICES ASSUME NEW t \in SUBSET S, Cardinality(t) = n + 1
               PROVE  SumOf(g, t) = SumOf(f, To(t))
    OBVIOUS
  <2>0. Cardinality(t) = n + 1 /\ t \in SUBSET S /\ n \in Nat /\ IsFiniteSet(S)
    OBVIOUS
  <2>1. PICK y : y \in t
    BY ONLY <2>0, FS_EmptySet
  <2> DEFINE u == t \ {y}
  <2>2. u \in SUBSET S /\ Cardinality(u) = n
    BY ONLY <2>0, <2>1, WithoutOne
  <2>3. SumOf(g, u) = SumOf(f, To(u))
    BY <2>2, <1>2
  <2>4. To(t) \in SUBSET S /\ b[y] \in To(t) /\ To(t) \ {b[y]} = To(u)
    BY <2>1
  <2> HIDE DEF To, A, u
  <2>5. SumOf(g, t) = g[y] + SumOf(g, u)
    BY <2>1, SumAdds DEF u
  <2>6. SumOf(f, To(t)) = f[b[y]] + SumOf(f, To(u))
    BY <2>4, SumAdds, SMTT(30)
  <2> QED
    BY <2>1, <2>3, <2>5, <2>6
<1>3. Nat \subseteq A
  <2> HIDE DEF A
  <2> QED
    BY <1>1, <1>2, EveryNat
<1>4. Cardinality(S) \in A
  BY <1>3, FS_CardinalityType
<1>5. S \in SUBSET S /\ To(S) = S
  OBVIOUS
<1> HIDE DEF To
<1>6. SumOf(g, S) = SumOf(f, To(S))
  BY <1>4, <1>5
<1> QED
  BY <1>5, <1>6

LEMMA SumOfNothing ==
  ASSUME NEW S, IsFiniteSet(S), NEW f, f = [x \in S |-> 0]
  PROVE  SumOf(f, S) = 0
<1> USE DEF IntValued
<1> DEFINE A == {n \in Nat : \A s \in SUBSET S : Cardinality(s) = n => SumOf(f, s) = 0}
<1>0. f \in [S -> Int]
  OBVIOUS
<1>1. 0 \in A
  <2>1. ASSUME NEW s \in SUBSET S, Cardinality(s) = 0 PROVE s = {}
    BY <2>1, FS_Subset, FS_EmptySet
  <2> QED
    BY <1>0, <2>1, SumAdds
<1>2. ASSUME NEW n \in Nat, n \in A PROVE n + 1 \in A
  <2> SUFFICES ASSUME NEW s \in SUBSET S, Cardinality(s) = n + 1 PROVE SumOf(f, s) = 0
    OBVIOUS
  <2>1. PICK x : x \in s
    BY FS_EmptySet
  <2>2. s \ {x} \in SUBSET S /\ Cardinality(s \ {x}) = n
    BY <2>1, WithoutOne
  <2>3. SumOf(f, s) = f[x] + SumOf(f, s \ {x})
    BY <1>0, <2>1, SumAdds
  <2> QED
    BY <2>1, <2>2, <2>3, <1>2
<1>3. Nat \subseteq A
  <2> HIDE DEF A
  <2> QED
    BY <1>1, <1>2, EveryNat
<1>4. Cardinality(S) \in A
  BY <1>3, FS_CardinalityType
<1> QED
  BY <1>4

\* The sum of a field of records.
Field(g, a, S) == [x \in S |-> g[x][a]]

LEMMA SumOfField ==
  ASSUME NEW g, NEW a, NEW S
  PROVE  MapThenSumSet(LAMBDA x : g[x][a], S) = SumOf(Field(g, a, S), S)
<1>1. MapThenSumSet(LAMBDA x : g[x][a], S) =
        (CHOOSE it : it = [s \in SUBSET S |->
                             IF s = {} THEN 0 ELSE g[Pick(s)][a] + it[s \ {Pick(s)}]])[S]
  BY DEF MapThenSumSet, MapThenFoldSet, Pick
<1>2. \A s \in SUBSET S : s # {} => Field(g, a, S)[Pick(s)] = g[Pick(s)][a]
  BY PickIn DEF Field
<1>3. \A it : it = [s \in SUBSET S |->
                     IF s = {} THEN 0 ELSE g[Pick(s)][a] + it[s \ {Pick(s)}]]
                <=> Sums(Field(g, a, S), S, it)
  BY <1>2 DEF Sums
<1> QED
  BY <1>1, <1>3, SumOfTable

\* One value changes.
THEOREM SumUpdate ==
  ASSUME NEW S, NEW f, IntValued(f, S), NEW g, IntValued(g, S), NEW x \in S,
         \A y \in S \ {x} : f[y] = g[y]
  PROVE  SumOf(g, S) = SumOf(f, S) - f[x] + g[x]
<1>0. f[x] \in Int /\ g[x] \in Int /\ S \in SUBSET S
  BY DEF IntValued
<1>1. SumOf(f, S \ {x}) = SumOf(g, S \ {x})
  BY SumSame
<1>2. SumOf(f, S) = f[x] + SumOf(f, S \ {x}) /\ SumOf(g, S) = g[x] + SumOf(g, S \ {x})
  BY SumAdds
<1>3. SumOf(f, S \ {x}) \in Int
  BY SumAdds
<1> QED
  BY <1>0, <1>1, <1>2, <1>3

\* Natural numbers add up to more the more there are of them.
THEOREM SumGrows ==
  ASSUME NEW S, NEW f, NatValued(f, S),
         NEW t \in SUBSET S, NEW s \in SUBSET t
  PROVE  SumOf(f, s) \in Nat /\ SumOf(f, t) \in Nat /\ SumOf(f, s) <= SumOf(f, t)
<1> USE DEF IntValued, NatValued
<1> DEFINE A == {n \in Nat : \A u \in SUBSET t : Cardinality(u) = n =>
                     /\ SumOf(f, u) \in Nat
                     /\ SumOf(f, u \cap s) \in Nat
                     /\ SumOf(f, u \cap s) <= SumOf(f, u)}
<1>0. f \in [S -> Int]
  OBVIOUS
<1>1. 0 \in A
  <2>1. ASSUME NEW u \in SUBSET t, Cardinality(u) = 0 PROVE u = {} /\ u \cap s = {}
    BY <2>1, FS_Subset, FS_EmptySet
  <2>2. SumOf(f, {}) = 0
    BY <1>0, SumAdds
  <2> QED
    BY <2>1, <2>2
<1>2. ASSUME NEW n \in Nat, n \in A PROVE n + 1 \in A
  <2> SUFFICES ASSUME NEW u \in SUBSET t, Cardinality(u) = n + 1
               PROVE  /\ SumOf(f, u) \in Nat
                      /\ SumOf(f, u \cap s) \in Nat
                      /\ SumOf(f, u \cap s) <= SumOf(f, u)
    OBVIOUS
  <2> HIDE DEF A
  <2>1. PICK x : x \in u
    <3>1. u # {}
      BY FS_EmptySet
    <3> QED
      BY <3>1
  <2> DEFINE w == u \ {x}
  <2>2. w \in SUBSET t /\ Cardinality(w) = n
    <3>1. u \in SUBSET S
      OBVIOUS
    <3> QED
      BY <2>1, <3>1, WithoutOne
  <2> USE DEF A
  <2>3. SumOf(f, w) \in Nat /\ SumOf(f, w \cap s) \in Nat /\ SumOf(f, w \cap s) <= SumOf(f, w)
    <3> HIDE DEF w
    <3> QED
      BY <2>2, <1>2
  <2>4. SumOf(f, u) = f[x] + SumOf(f, w)
    BY <1>0, <2>1, SumAdds
  <2>5. f[x] \in Nat
    BY <2>1
  <2>6. CASE x \in s
    <3>1. w \cap s = (u \cap s) \ {x} /\ x \in u \cap s /\ u \cap s \in SUBSET S
      BY <2>1, <2>6
    <3>2. SumOf(f, u \cap s) = f[x] + SumOf(f, w \cap s)
      <4> HIDE DEF w
      <4> QED
        BY <1>0, <3>1, SumAdds
    <3> HIDE DEF w
    <3> QED
      BY <2>3, <2>4, <2>5, <3>2
  <2>7. CASE x \notin s
    <3>1. w \cap s = u \cap s
      BY <2>7
    <3>2. SumOf(f, w \cap s) = SumOf(f, u \cap s)
      BY <3>1
    <3> HIDE DEF w, A
    <3> QED
      BY <2>3, <2>4, <2>5, <3>2
  <2> QED
    BY <2>6, <2>7
<1>3. Nat \subseteq A
  <2> HIDE DEF A
  <2> QED
    BY <1>1, <1>2, EveryNat
<1>4. Cardinality(t) \in A
  BY <1>3, FS_Subset, FS_CardinalityType
<1>5. t \cap s = s
  OBVIOUS
<1> QED
  BY <1>4, <1>5

-----------------------------------------------------------------------------
(***************************************************************************)
(* The part of a sequence at the positions in K, as a loop over the        *)
(* sequence collects it.                                                   *)
(***************************************************************************)
KeptAt(q, K) ==
  LET part[k \in 0..Len(q)] ==
        IF k = 0 THEN <<>>
        ELSE IF k \in K THEN Append(part[k - 1], q[k]) ELSE part[k - 1]
  IN  part[Len(q)]

\* t[k] is what the loop has collected from the first k.
Parts(q, K, t) ==
  t = [k \in 0..Len(q) |->
         IF k = 0 THEN <<>> ELSE IF k \in K THEN Append(t[k - 1], q[k]) ELSE t[k - 1]]

LEMMA PartsExist == ASSUME NEW q, Len(q) \in Nat, NEW K PROVE \E t : Parts(q, K, t)
<1> DEFINE Next(t) == [k \in 0..Len(q) |->
              IF k = 0 THEN <<>> ELSE IF k \in K THEN Append(t[k - 1], q[k]) ELSE t[k - 1]]
           UpTo(t, n) == t = [k \in 0..Len(q) |-> t[k]] /\
                         \A k \in 0..Len(q) : k <= n => t[k] = Next(t)[k]
           A == {n \in Nat : \E t : UpTo(t, n)}
<1>1. 0 \in A
  <2> DEFINE none == [k \in 0..Len(q) |-> <<>>]
  <2>1. UpTo(none, 0)
    OBVIOUS
  <2> HIDE DEF UpTo
  <2> QED
    BY <2>1
<1>2. ASSUME NEW n \in Nat, n \in A PROVE n + 1 \in A
  <2>1. PICK t : UpTo(t, n)
    BY <1>2
  <2>2. UpTo(Next(t), n + 1)
    <3>1. ASSUME NEW k \in 0..Len(q), k <= n + 1, k # 0 PROVE Next(t)[k - 1] = t[k - 1]
      <4>1. k - 1 \in 0..Len(q) /\ k - 1 <= n
        BY <3>1
      <4> HIDE DEF Next
      <4> QED
        BY <2>1, <4>1
    <3> SUFFICES ASSUME NEW k \in 0..Len(q), k <= n + 1 PROVE Next(t)[k] = Next(Next(t))[k]
      OBVIOUS
    <3> QED
      BY <3>1
  <2> HIDE DEF UpTo, Next
  <2> QED
    BY <2>2
<1>3. Nat \subseteq A
  <2> HIDE DEF A
  <2> QED
    BY <1>1, <1>2, EveryNat
<1>4. PICK t : UpTo(t, Len(q))
  BY <1>3
<1>5. t = Next(t)
  BY <1>4
<1> QED
  BY <1>5 DEF Parts

PartOf(q, K) == CHOOSE t : Parts(q, K, t)

LEMMA KeptAtIsPart ==
  ASSUME NEW q, Len(q) \in Nat, NEW K
  PROVE  Parts(q, K, PartOf(q, K)) /\ KeptAt(q, K) = PartOf(q, K)[Len(q)]
<1>1. Parts(q, K, PartOf(q, K))
  BY PartsExist DEF PartOf
<1> QED
  BY <1>1 DEF KeptAt, PartOf, Parts

LEMMA KeptAtSeq ==
  ASSUME NEW T, NEW q \in Seq(T), NEW K
  PROVE  KeptAt(q, K) \in Seq(T)
<1> DEFINE t == PartOf(q, K)
           A == {n \in Nat : n <= Len(q) => t[n] \in Seq(T)}
<1>1. Parts(q, K, t) /\ KeptAt(q, K) = t[Len(q)]
  BY KeptAtIsPart
<1> HIDE DEF t
<1>2. 0 \in A
  BY <1>1 DEF Parts
<1>3. ASSUME NEW n \in Nat, n \in A PROVE n + 1 \in A
  <2> SUFFICES ASSUME n + 1 <= Len(q) PROVE t[n + 1] \in Seq(T)
    OBVIOUS
  <2>1. t[n] \in Seq(T) /\ q[n + 1] \in T
    BY <1>3
  <2>2. t[n + 1] = IF n + 1 \in K THEN Append(t[n], q[n + 1]) ELSE t[n]
    <3>1. n + 1 \in 0..Len(q) /\ n + 1 # 0 /\ (n + 1) - 1 = n
      OBVIOUS
    <3> HIDE DEF A
    <3> QED
      BY <1>1, <3>1 DEF Parts
  <2> QED
    BY <2>1, <2>2
<1>4. Nat \subseteq A
  <2> HIDE DEF A
  <2> QED
    BY <1>2, <1>3, EveryNat
<1>5. Len(q) \in A
  BY <1>4
<1> QED
  BY <1>1, <1>5

InSeq(s)  == {s[i] : i \in DOMAIN s}
Once(s)   == \A i, j \in DOMAIN s : s[i] = s[j] => i = j

\* A sequence without repetition is as long as the set of its elements is large.
LEMMA OnceCounts ==
  ASSUME NEW T, NEW s \in Seq(T), Once(s)
  PROVE  Len(s) = Cardinality(InSeq(s))
<1> DEFINE n == Len(s)
<1>1. n \in Nat /\ DOMAIN s = 1..n
  OBVIOUS
<1>2. s \in Bijection(1..n, InSeq(s))
  BY <1>1 DEF Bijection, Injection, Surjection, IsInjective, InSeq, Once
<1>3. IsFiniteSet(1..n) /\ Cardinality(1..n) = n
  <2>1. 1 \in Int /\ n \in Int /\ (IF 1 > n THEN 0 ELSE n - 1 + 1) = n
    BY <1>1
  <2> HIDE DEF n
  <2> QED
    BY <2>1, FS_Interval
<1> HIDE DEF n
<1>4. Cardinality(1..n) = Cardinality(InSeq(s))
  BY <1>2, <1>3, FS_Bijection, Zenon DEF ExistsBijection
<1> QED
  BY <1>3, <1>4 DEF n

LEMMA AppendedElements ==
  ASSUME NEW T, NEW s \in Seq(T), NEW x \in T
  PROVE  /\ Append(s, x) \in Seq(T) /\ InSeq(Append(s, x)) = InSeq(s) \cup {x}
         /\ Once(s) /\ x \notin InSeq(s) => Once(Append(s, x))
<1> DEFINE u == Append(s, x)
           n == Len(s)
<1>1. /\ u \in Seq(T) /\ n \in Nat /\ DOMAIN s = 1..n /\ DOMAIN u = 1..(n + 1)
      /\ u[n + 1] = x /\ \A i \in 1..n : u[i] = s[i]
  OBVIOUS
<1> HIDE DEF u, n
<1>2. \A y : y \in InSeq(u) <=> y \in InSeq(s) \cup {x}
  BY <1>1 DEF InSeq
<1>3. Once(s) /\ x \notin InSeq(s) => Once(u)
  BY <1>1 DEF InSeq, Once
<1> QED
  BY <1>1, <1>2, <1>3 DEF u

LEMMA FrontElements ==
  ASSUME NEW T, NEW s \in Seq(T), NEW x \in T
  PROVE  /\ <<x>> \o s \in Seq(T) /\ InSeq(<<x>> \o s) = InSeq(s) \cup {x}
         /\ Once(s) /\ x \notin InSeq(s) => Once(<<x>> \o s)
<1> DEFINE u == <<x>> \o s
           n == Len(s)
<1>1. /\ u \in Seq(T) /\ n \in Nat /\ DOMAIN s = 1..n /\ DOMAIN u = 1..(n + 1)
      /\ u[1] = x /\ \A i \in 2..(n + 1) : u[i] = s[i - 1]
  OBVIOUS
<1> HIDE DEF u, n
<1>2. ASSUME NEW i \in 1..n PROVE u[i + 1] = s[i]
  BY <1>1
<1>3. \A y : y \in InSeq(u) <=> y \in InSeq(s) \cup {x}
  <2>1. ASSUME NEW i \in 1..(n + 1) PROVE u[i] \in InSeq(s) \cup {x}
    BY <1>1 DEF InSeq
  <2>2. ASSUME NEW i \in 1..n PROVE s[i] \in InSeq(u)
    <3>1. i + 1 \in 1..(n + 1)
      BY <1>1
    <3> QED
      BY <1>1, <1>2, <3>1 DEF InSeq
  <2>3. x \in InSeq(u)
    BY <1>1 DEF InSeq
  <2> QED
    BY <1>1, <2>1, <2>2, <2>3 DEF InSeq
<1>4. Once(s) /\ x \notin InSeq(s) => Once(u)
  <2> SUFFICES ASSUME Once(s), x \notin InSeq(s), NEW i \in 1..(n + 1), NEW j \in 1..(n + 1), u[i] = u[j]
               PROVE  i = j
    BY <1>1 DEF Once
  <2>1. ASSUME NEW k \in 1..(n + 1), k # 1 PROVE k - 1 \in 1..n /\ u[k] = s[k - 1] /\ u[k] # x
    <3>1. k \in 2..(n + 1) /\ k - 1 \in 1..n
      BY <1>1, <2>1
    <3>2. u[k] = s[k - 1] /\ s[k - 1] \in InSeq(s)
      BY <1>1, <3>1 DEF InSeq
    <3> QED
      BY <3>1, <3>2
  <2>2. CASE i = 1 \/ j = 1
    BY <1>1, <2>1, <2>2
  <2>3. CASE i # 1 /\ j # 1
    <3>1. i - 1 \in 1..n /\ j - 1 \in 1..n /\ s[i - 1] = s[j - 1]
      BY <2>1, <2>3
    <3>2. i - 1 = j - 1
      BY <1>1, <3>1 DEF Once
    <3> QED
      BY <1>1, <3>2
  <2> QED
    BY <2>2, <2>3
<1> QED
  BY <1>1, <1>3, <1>4 DEF u

LEMMA ConcatElements ==
  ASSUME NEW T, NEW s \in Seq(T), NEW u \in Seq(T)
  PROVE  /\ s \o u \in Seq(T) /\ InSeq(s \o u) = InSeq(s) \cup InSeq(u)
         /\ Once(s) /\ Once(u) /\ InSeq(s) \cap InSeq(u) = {} => Once(s \o u)
<1> DEFINE c == s \o u
           n == Len(s)
           m == Len(u)
<1>1. /\ c \in Seq(T) /\ n \in Nat /\ m \in Nat
      /\ DOMAIN s = 1..n /\ DOMAIN u = 1..m /\ DOMAIN c = 1..(n + m)
      /\ \A i \in 1..(n + m) : c[i] = IF i <= n THEN s[i] ELSE u[i - n]
  OBVIOUS
<1> HIDE DEF c, n, m
<1>2. ASSUME NEW i \in 1..(n + m) PROVE IF i <= n THEN i \in 1..n ELSE i - n \in 1..m
  BY <1>1
<1>3. ASSUME NEW x, x \in InSeq(c) PROVE x \in InSeq(s) \/ x \in InSeq(u)
  BY <1>1, <1>2, <1>3 DEF InSeq
<1>4. ASSUME NEW i \in 1..n PROVE i \in 1..(n + m) /\ c[i] = s[i]
  BY <1>1
<1>5. ASSUME NEW i \in 1..m PROVE i + n \in 1..(n + m) /\ c[i + n] = u[i]
  <2>1. i + n \in 1..(n + m) /\ ~(i + n <= n) /\ (i + n) - n = i
    BY <1>1
  <2> QED
    BY <1>1, <2>1
<1>6. InSeq(c) = InSeq(s) \cup InSeq(u)
  <2>1. ASSUME NEW x, x \in InSeq(s) PROVE x \in InSeq(c)
    <3>1. PICK i \in 1..n : x = s[i]
      BY <1>1, <2>1 DEF InSeq
    <3> QED
      BY <1>1, <1>4, <3>1 DEF InSeq
  <2>2. ASSUME NEW x, x \in InSeq(u) PROVE x \in InSeq(c)
    <3>1. PICK i \in 1..m : x = u[i]
      BY <1>1, <2>2 DEF InSeq
    <3> QED
      BY <1>1, <1>5, <3>1 DEF InSeq
  <2> QED
    BY <1>3, <2>1, <2>2
<1>7. ASSUME Once(s), Once(u), InSeq(s) \cap InSeq(u) = {} PROVE Once(c)
  <2> SUFFICES ASSUME NEW i \in 1..(n + m), NEW j \in 1..(n + m), c[i] = c[j] PROVE i = j
    BY <1>1 DEF Once
  <2>1. ASSUME NEW k \in 1..n, NEW l \in 1..m PROVE s[k] # u[l]
    BY <1>1, <1>7 DEF InSeq
  <2>2. CASE i <= n /\ j <= n
    BY <1>1, <1>2, <1>7, <2>2 DEF Once
  <2>3. CASE ~(i <= n) /\ ~(j <= n)
    <3>1. i - n \in 1..m /\ j - n \in 1..m /\ u[i - n] = u[j - n]
      BY <1>1, <1>2, <2>3
    <3>2. i - n = j - n
      BY <1>1, <1>7, <3>1 DEF Once
    <3> QED
      BY <1>1, <3>2
  <2>4. CASE i <= n /\ ~(j <= n)
    BY <1>1, <1>2, <2>1, <2>4
  <2>5. CASE ~(i <= n) /\ j <= n
    BY <1>1, <1>2, <2>1, <2>5
  <2> QED
    BY <2>2, <2>3, <2>4, <2>5
<1> QED
  BY <1>1, <1>6, <1>7 DEF c

LEMMA LastTaken ==
  ASSUME NEW T, NEW s \in Seq(T), s # <<>>, Once(s)
  PROVE  LET rest == SubSeq(s, 1, Len(s) - 1) IN
         /\ s[Len(s)] \in T /\ s[Len(s)] \in InSeq(s)
         /\ rest \in Seq(T) /\ Once(rest) /\ InSeq(rest) = InSeq(s) \ {s[Len(s)]}
<1> DEFINE rest == SubSeq(s, 1, Len(s) - 1)
           n == Len(s)
<1>1. /\ n \in Nat /\ n >= 1 /\ DOMAIN s = 1..n /\ \A i \in 1..n : s[i] \in T
  OBVIOUS
<1>2. /\ rest \in Seq(T) /\ DOMAIN rest = 1..(n - 1) /\ \A i \in 1..(n - 1) : rest[i] = s[i]
  BY <1>1
<1> HIDE DEF rest, n
<1>3. Once(rest)
  BY <1>1, <1>2 DEF Once
<1>4. \A y : y \in InSeq(rest) <=> y \in InSeq(s) \ {s[n]}
  BY <1>1, <1>2 DEF InSeq, Once
<1>5. s[n] \in T /\ s[n] \in InSeq(s)
  BY <1>1 DEF InSeq
<1> QED
  BY <1>2, <1>3, <1>4, <1>5 DEF rest, n

LEMMA KeptAtElements ==
  ASSUME NEW T, NEW q \in Seq(T), NEW K
  PROVE  /\ InSeq(KeptAt(q, K)) = {q[i] : i \in K \cap DOMAIN q}
         /\ Once(q) => Once(KeptAt(q, K))
<1> DEFINE t == PartOf(q, K)
           Elements(n) == {q[i] : i \in K \cap 1..n}
           Good(n) == /\ t[n] \in Seq(T) /\ InSeq(t[n]) = Elements(n)
                      /\ Once(q) => Once(t[n])
           A == {n \in Nat : n <= Len(q) => Good(n)}
<1>1. Parts(q, K, t) /\ KeptAt(q, K) = t[Len(q)]
  BY KeptAtIsPart
<1> HIDE DEF t
<1>2. 0 \in A
  BY <1>1 DEF Parts, InSeq, Once
<1>3. ASSUME NEW n \in Nat, n \in A PROVE n + 1 \in A
  <2> SUFFICES ASSUME n + 1 <= Len(q) PROVE Good(n + 1)
    OBVIOUS
  <2>1. Good(n) /\ q[n + 1] \in T /\ n + 1 \in DOMAIN q
    BY <1>3
  <2>2. t[n + 1] = IF n + 1 \in K THEN Append(t[n], q[n + 1]) ELSE t[n]
    <3>1. n + 1 \in 0..Len(q) /\ n + 1 # 0 /\ (n + 1) - 1 = n
      OBVIOUS
    <3> HIDE DEF A
    <3> QED
      BY <1>1, <3>1 DEF Parts
  <2>3. Elements(n + 1) = IF n + 1 \in K THEN Elements(n) \cup {q[n + 1]} ELSE Elements(n)
    OBVIOUS
  <2>4. Once(q) => q[n + 1] \notin Elements(n)
    BY <2>1 DEF Once
  <2> HIDE DEF A, Elements
  <2>5. CASE n + 1 \in K
    <3> DEFINE u == t[n]
               x == q[n + 1]
    <3>1. u \in Seq(T) /\ x \in T
      BY <2>1
    <3>2. Append(u, x) \in Seq(T) /\ InSeq(Append(u, x)) = InSeq(u) \cup {x}
      BY <3>1, AppendedElements
    <3>3. Once(u) /\ x \notin InSeq(u) => Once(Append(u, x))
      BY <3>1, AppendedElements
    <3>4. t[n + 1] = Append(u, x) /\ Elements(n + 1) = Elements(n) \cup {x}
      BY <2>2, <2>3, <2>5
    <3>5. InSeq(u) = Elements(n) /\ (Once(q) => Once(u) /\ x \notin InSeq(u))
      BY <2>1, <2>4
    <3> HIDE DEF u, x
    <3> QED
      BY <3>2, <3>3, <3>4, <3>5
  <2>6. CASE n + 1 \notin K
    BY <2>1, <2>2, <2>3, <2>6
  <2> QED
    BY <2>5, <2>6
<1>4. Nat \subseteq A
  <2> HIDE DEF A
  <2> QED
    BY <1>2, <1>3, EveryNat
<1>5. Len(q) \in Nat /\ DOMAIN q = 1..Len(q)
  OBVIOUS
<1>6. Good(Len(q))
  <2>1. Len(q) \in A
    <3> HIDE DEF A
    <3> QED
      BY <1>4, <1>5
  <2> QED
    BY <2>1, <1>5
<1> QED
  BY <1>1, <1>5, <1>6

-----------------------------------------------------------------------------
(***************************************************************************)
(* A sequence of sequences, as a loop joins them.                          *)
(***************************************************************************)
JoinOf(s) ==
  LET upTo[i \in 0..Len(s)] == IF i = 0 THEN <<>> ELSE upTo[i - 1] \o s[i]
  IN  upTo[Len(s)]

\* t[i] is what the loop has joined of the first i.
JoinSteps(s, t) == t = [i \in 0..Len(s) |-> IF i = 0 THEN <<>> ELSE t[i - 1] \o s[i]]

JoinTable(s) == CHOOSE t : JoinSteps(s, t)

LEMMA JoinsExist == ASSUME NEW s, Len(s) \in Nat PROVE \E t : JoinSteps(s, t)
<1> DEFINE Next(t) == [i \in 0..Len(s) |-> IF i = 0 THEN <<>> ELSE t[i - 1] \o s[i]]
           UpTo(t, n) == t = [i \in 0..Len(s) |-> t[i]] /\
                         \A i \in 0..Len(s) : i <= n => t[i] = Next(t)[i]
           A == {n \in Nat : \E t : UpTo(t, n)}
<1>1. 0 \in A
  <2> DEFINE none == [i \in 0..Len(s) |-> <<>>]
  <2>1. none[0] = <<>> /\ Next(none)[0] = <<>>
    OBVIOUS
  <2>2. \A i \in 0..Len(s) : i <= 0 => i = 0
    OBVIOUS
  <2>3. none = [i \in 0..Len(s) |-> none[i]]
    OBVIOUS
  <2> HIDE DEF none, Next
  <2>4. UpTo(none, 0)
    BY <2>1, <2>2, <2>3
  <2> HIDE DEF UpTo
  <2> QED
    BY <2>4
<1>2. ASSUME NEW n \in Nat, n \in A PROVE n + 1 \in A
  <2>1. PICK t : UpTo(t, n)
    BY <1>2
  <2>2. UpTo(Next(t), n + 1)
    <3>1. ASSUME NEW i \in 0..Len(s), i <= n + 1, i # 0 PROVE Next(t)[i - 1] = t[i - 1]
      <4>1. i - 1 \in 0..Len(s) /\ i - 1 <= n
        BY <3>1
      <4> HIDE DEF Next
      <4> QED
        BY <2>1, <4>1
    <3> SUFFICES ASSUME NEW i \in 0..Len(s), i <= n + 1 PROVE Next(t)[i] = Next(Next(t))[i]
      OBVIOUS
    <3> QED
      BY <3>1
  <2> HIDE DEF UpTo, Next
  <2> QED
    BY <2>2
<1>3. Nat \subseteq A
  <2> HIDE DEF A
  <2> QED
    BY <1>1, <1>2, EveryNat
<1>4. PICK t : UpTo(t, Len(s))
  BY <1>3
<1>5. t = Next(t)
  BY <1>4
<1> QED
  BY <1>5 DEF JoinSteps

LEMMA JoinIsTabled ==
  ASSUME NEW s, Len(s) \in Nat
  PROVE  /\ JoinOf(s) = JoinTable(s)[Len(s)] /\ JoinTable(s)[0] = <<>>
         /\ \A n \in Nat : n < Len(s) => JoinTable(s)[n + 1] = JoinTable(s)[n] \o s[n + 1]
<1> DEFINE t == JoinTable(s)
<1>1. JoinSteps(s, t)
  BY JoinsExist DEF JoinTable
<1>2. JoinOf(s) = t[Len(s)]
  BY <1>1 DEF JoinOf, JoinTable, JoinSteps
<1> HIDE DEF t
<1>3. t[0] = <<>>
  BY <1>1 DEF JoinSteps
<1>4. ASSUME NEW n \in Nat, n < Len(s) PROVE t[n + 1] = t[n] \o s[n + 1]
  <2>1. n + 1 \in 0..Len(s) /\ n + 1 # 0 /\ (n + 1) - 1 = n
    BY <1>4
  <2> QED
    BY <1>1, <2>1 DEF JoinSteps
<1> QED
  BY <1>2, <1>3, <1>4 DEF t

LEMMA JoinedLast ==
  ASSUME NEW T, NEW s \in Seq(Seq(T)), NEW u \in Seq(Seq(T)), Len(s) = Len(u) + 1,
         \A i \in 1..Len(u) : u[i] = s[i]
  PROVE  JoinOf(s) = JoinOf(u) \o s[Len(s)]
<1> DEFINE a == JoinTable(s)
           b == JoinTable(u)
           m == Len(u)
           A == {n \in Nat : n <= m => a[n] = b[n]}
<1> HIDE DEF a, b, A
<1>1. m \in Nat /\ Len(s) \in Nat /\ Len(s) = m + 1 /\ \A i \in 1..m : u[i] = s[i]
  <2>1. Len(u) \in Nat /\ Len(s) \in Nat
    OBVIOUS
  <2> QED
    BY <2>1, Zenon
<1> USE DEF a, b
<1>2. /\ JoinOf(s) = a[Len(s)] /\ a[0] = <<>>
      /\ \A n \in Nat : n < m + 1 => a[n + 1] = a[n] \o s[n + 1]
  BY <1>1, JoinIsTabled
<1>3. /\ JoinOf(u) = b[m] /\ b[0] = <<>>
      /\ \A n \in Nat : n < m => b[n + 1] = b[n] \o u[n + 1]
  BY <1>1, JoinIsTabled
<1> USE DEF A
<1> HIDE DEF a, b, m
<1>4. 0 \in A
  BY <1>2, <1>3
<1>5. ASSUME NEW n \in Nat, n \in A PROVE n + 1 \in A
  <2> SUFFICES ASSUME n + 1 <= m PROVE a[n + 1] = b[n + 1]
    OBVIOUS
  <2>1. n < m /\ n < m + 1 /\ n <= m /\ n + 1 \in 1..m
    BY <1>1
  <2>2. a[n] = b[n] /\ u[n + 1] = s[n + 1]
    BY <1>1, <1>5, <2>1
  <2> HIDE DEF A
  <2> QED
    BY <1>2, <1>3, <2>1, <2>2
<1>6. Nat \subseteq A
  <2> HIDE DEF A
  <2> QED
    BY <1>4, <1>5, EveryNat
<1>7. a[m] = b[m]
  <2>1. m \in A
    <3> HIDE DEF A
    <3> QED
      BY <1>1, <1>6
  <2> QED
    BY <1>1, <2>1
<1>8. a[m + 1] = a[m] \o s[m + 1]
  <2> HIDE DEF A
  <2>1. m < m + 1
    BY <1>1
  <2> QED
    BY <1>1, <1>2, <2>1
<1> QED
  BY <1>1, <1>2, <1>3, <1>7, <1>8

LEMMA JoinedSeq == ASSUME NEW T, NEW s \in Seq(Seq(T)) PROVE JoinOf(s) \in Seq(T)
<1> DEFINE t == JoinTable(s)
           A == {n \in Nat : n <= Len(s) => t[n] \in Seq(T)}
<1>1. Len(s) \in Nat
  OBVIOUS
<1>2. /\ JoinOf(s) = t[Len(s)] /\ t[0] = <<>>
      /\ \A n \in Nat : n < Len(s) => t[n + 1] = t[n] \o s[n + 1]
  BY <1>1, JoinIsTabled
<1> HIDE DEF t
<1>3. 0 \in A
  <2>1. t[0] \in Seq(T)
    BY <1>2
  <2> QED
    BY <2>1
<1>4. ASSUME NEW n \in Nat, n \in A PROVE n + 1 \in A
  <2> SUFFICES ASSUME n + 1 <= Len(s) PROVE t[n + 1] \in Seq(T)
    OBVIOUS
  <2>1. n < Len(s) /\ n <= Len(s) /\ n + 1 \in 1..Len(s)
    BY <1>1
  <2>2. t[n] \in Seq(T) /\ s[n + 1] \in Seq(T)
    BY <1>4, <2>1
  <2> DEFINE x == t[n]
             y == s[n + 1]
  <2>3. t[n + 1] = x \o y /\ x \in Seq(T) /\ y \in Seq(T)
    <3> HIDE DEF A
    <3> QED
      BY <1>2, <2>1, <2>2
  <2> HIDE DEF A, x, y
  <2> QED
    BY <2>3
<1>5. Nat \subseteq A
  <2> HIDE DEF A
  <2> QED
    BY <1>3, <1>4, EveryNat
<1>6. Len(s) \in A
  <2> HIDE DEF A
  <2> QED
    BY <1>1, <1>5
<1> QED
  BY <1>1, <1>2, <1>6

-----------------------------------------------------------------------------
(***************************************************************************)
(* Sequences whose ends change.                                            *)
(***************************************************************************)
LEMMA AppendedAsOne ==
  ASSUME NEW T, NEW s \in Seq(T), NEW x \in T
  PROVE  Append(s, x) = s \o <<x>> /\ <<x>> \in Seq(T)
  OBVIOUS

LEMMA HeadBeforeTail ==
  ASSUME NEW T, NEW s \in Seq(T), s # <<>>
  PROVE  /\ s = <<Head(s)>> \o Tail(s) /\ Head(s) \in T /\ Tail(s) \in Seq(T)
         /\ Tail(s) = <<>> <=> Len(s) = 1
<1>1. /\ Head(s) \in T /\ Tail(s) \in Seq(T) /\ Len(Tail(s)) = Len(s) - 1 /\ Len(s) \in Nat
      /\ Head(s) = s[1] /\ \A i \in 1..Len(Tail(s)) : Tail(s)[i] = s[i + 1]
  OBVIOUS
<1>2. /\ <<Head(s)>> \o Tail(s) \in Seq(T) /\ Len(<<Head(s)>> \o Tail(s)) = Len(s)
      /\ \A i \in 1..Len(s) : (<<Head(s)>> \o Tail(s))[i] = IF i = 1 THEN Head(s) ELSE Tail(s)[i - 1]
  BY <1>1
<1>3. \A i \in 1..Len(s) : i # 1 => i - 1 \in 1..Len(Tail(s)) /\ (i - 1) + 1 = i
  BY <1>1
<1>4. \A i \in 1..Len(s) : (<<Head(s)>> \o Tail(s))[i] = s[i]
  <2> DEFINE t == <<Head(s)>> \o Tail(s)
             u == Tail(s)
  <2>1. \A i \in 1..Len(u) : u[i] = s[i + 1]
    BY <1>1
  <2>2. \A i \in 1..Len(s) : t[i] = IF i = 1 THEN Head(s) ELSE u[i - 1]
    BY <1>2
  <2>3. \A i \in 1..Len(s) : i # 1 => i - 1 \in 1..Len(u) /\ (i - 1) + 1 = i
    BY <1>3
  <2> HIDE DEF t, u
  <2>4. \A i \in 1..Len(s) : t[i] = s[i]
    BY <1>1, <2>1, <2>2, <2>3
  <2> QED
    BY <2>4 DEF t
<1>5. <<Head(s)>> \o Tail(s) = s
  BY <1>2, <1>4, SeqEqual
<1>6. Tail(s) = <<>> <=> Len(s) = 1
  <2>1. Len(s) = 1 <=> Len(Tail(s)) = 0
    BY <1>1
  <2>2. Tail(s) = <<>> <=> Len(Tail(s)) = 0
    BY <1>1, EmptySeq
  <2> QED
    BY <2>1, <2>2
<1> QED
  BY <1>1, <1>5, <1>6

LEMMA ConcatMoves ==
  ASSUME NEW T, NEW s \in Seq(T), NEW t \in Seq(T)
  PROVE  /\ \A x \in T : s \o Append(t, x) = Append(s \o t, x)
         /\ t # <<>> => Append(s, Head(t)) \o Tail(t) = s \o t
<1>1. ASSUME NEW x \in T PROVE s \o Append(t, x) = Append(s \o t, x)
  <2>1. Append(t, x) = t \o <<x>> /\ <<x>> \in Seq(T) /\ s \o t \in Seq(T)
    BY AppendedAsOne
  <2>2. Append(s \o t, x) = (s \o t) \o <<x>>
    BY <2>1, AppendedAsOne
  <2> QED
    BY <2>1, <2>2, ConcatAssociative
<1>2. ASSUME t # <<>> PROVE Append(s, Head(t)) \o Tail(t) = s \o t
  <2>1. t = <<Head(t)>> \o Tail(t) /\ Head(t) \in T /\ Tail(t) \in Seq(T)
    BY <1>2, HeadBeforeTail
  <2>2. Append(s, Head(t)) = s \o <<Head(t)>> /\ <<Head(t)>> \in Seq(T)
    BY <2>1, AppendedAsOne
  <2>3. (s \o <<Head(t)>>) \o Tail(t) = s \o (<<Head(t)>> \o Tail(t))
    BY <2>1, <2>2, ConcatAssociative
  <2> QED
    BY <2>1, <2>2, <2>3
<1> QED
  BY <1>1, <1>2

-----------------------------------------------------------------------------
(***************************************************************************)
(* The least and the greatest of finitely many.                            *)
(***************************************************************************)
LEMMA GreatestOf ==
  ASSUME NEW n \in Nat, n > 0, NEW f \in [1..n -> Int]
  PROVE  \E i \in 1..n : \A j \in 1..n : f[j] <= f[i]
<1> DEFINE A == {m \in Nat : m < n => \E i \in 1..(m + 1) : \A j \in 1..(m + 1) : f[j] <= f[i]}
<1>1. 0 \in A
  BY 1 \in 1..(0 + 1)
<1>2. ASSUME NEW m \in Nat, m \in A PROVE m + 1 \in A
  <2> SUFFICES ASSUME m + 1 < n
               PROVE  \E i \in 1..(m + 2) : \A j \in 1..(m + 2) : f[j] <= f[i]
    BY (m + 1) + 1 = m + 2
  <2>1. PICK i \in 1..(m + 1) : \A j \in 1..(m + 1) : f[j] <= f[i]
    BY <1>2
  <2>2. i \in 1..(m + 2) /\ m + 2 \in 1..(m + 2) /\ f[i] \in Int /\ f[m + 2] \in Int
    OBVIOUS
  <2>3. \A j \in 1..(m + 2) : (j \in 1..(m + 1) \/ j = m + 2) /\ f[j] \in Int
    OBVIOUS
  <2> HIDE DEF A
  <2>4. CASE f[m + 2] <= f[i]
    BY <2>1, <2>2, <2>3, <2>4
  <2>5. CASE ~(f[m + 2] <= f[i])
    <3>1. \A j \in 1..(m + 2) : f[j] <= f[m + 2]
      BY <2>1, <2>2, <2>3, <2>5
    <3> QED
      BY <2>2, <3>1
  <2> QED
    BY <2>4, <2>5
<1>3. Nat \subseteq A
  <2> HIDE DEF A
  <2> QED
    BY <1>1, <1>2, EveryNat
<1>4. n - 1 \in Nat /\ n - 1 < n /\ (n - 1) + 1 = n
  OBVIOUS
<1>5. n - 1 \in A
  BY <1>3, <1>4
<1> QED
  BY <1>4, <1>5

LEMMA LastOfSet ==
  ASSUME NEW n \in Nat, NEW S \in SUBSET (1..n), S # {}
  PROVE  Max(S) \in S /\ \A i \in S : i <= Max(S)
<1> DEFINE f == [i \in 1..n |-> IF i \in S THEN i ELSE 0]
<1>0. PICK e \in 1..n : e \in S
  OBVIOUS
<1>1. n > 0 /\ f \in [1..n -> Int]
  BY <1>0
<1>2. PICK m \in 1..n : \A j \in 1..n : f[j] <= f[m]
  <2> HIDE DEF f
  <2> QED
    BY <1>1, GreatestOf
<1>3. m \in S
  BY <1>0, <1>2, f[e] <= f[m]
<1>4. \A i \in S : m >= i
  BY <1>2, <1>3
<1> QED
  BY <1>3, <1>4 DEF Max

LEMMA FirstOfSet ==
  ASSUME NEW n \in Nat, NEW S \in SUBSET (1..n), S # {}
  PROVE  Min(S) \in S /\ \A i \in S : Min(S) <= i
<1> DEFINE f == [i \in 1..n |-> IF i \in S THEN -i ELSE -(n + 1)]
<1>0. PICK e \in 1..n : e \in S
  OBVIOUS
<1>1. n > 0 /\ f \in [1..n -> Int]
  BY <1>0
<1>2. PICK m \in 1..n : \A j \in 1..n : f[j] <= f[m]
  <2> HIDE DEF f
  <2> QED
    BY <1>1, GreatestOf
<1>3. m \in S
  BY <1>0, <1>2, f[e] <= f[m]
<1>4. ASSUME NEW i \in S PROVE m <= i
  <2>1. i \in 1..n /\ f[i] = -i /\ f[m] = -m
    BY <1>3
  <2> HIDE DEF f
  <2> QED
    BY <1>2, <2>1
<1> QED
  BY <1>3, <1>4 DEF Min
-----------------------------------------------------------------------------
(***************************************************************************)
(* What the loop collects from sequences that are alike.                   *)
(***************************************************************************)
LEMMA PartStep ==
  ASSUME NEW q, Len(q) \in Nat, NEW K, NEW n \in 0..Len(q)
  PROVE  PartOf(q, K)[n] = IF n = 0 THEN <<>>
                           ELSE IF n \in K THEN Append(PartOf(q, K)[n - 1], q[n])
                           ELSE PartOf(q, K)[n - 1]
<1> DEFINE t == PartOf(q, K)
<1>1. Parts(q, K, t)
  BY KeptAtIsPart
<1> HIDE DEF t
<1>2. t[n] = IF n = 0 THEN <<>> ELSE IF n \in K THEN Append(t[n - 1], q[n]) ELSE t[n - 1]
  BY <1>1 DEF Parts
<1> QED
  BY <1>2 DEF t

LEMMA PartsAgree ==
  ASSUME NEW q, NEW r, Len(q) \in Nat, Len(r) \in Nat, NEW K, NEW L,
         NEW m \in Nat, m <= Len(q), m <= Len(r),
         \A i \in 1..m : q[i] = r[i] /\ (i \in K <=> i \in L)
  PROVE  PartOf(q, K)[m] = PartOf(r, L)[m]
<1> DEFINE t == PartOf(q, K)
           u == PartOf(r, L)
           A == {n \in Nat : n <= m => t[n] = u[n]}
<1>1. \A n \in 0..Len(q) : t[n] = IF n = 0 THEN <<>>
                           ELSE IF n \in K THEN Append(t[n - 1], q[n]) ELSE t[n - 1]
  BY PartStep
<1>2. \A n \in 0..Len(r) : u[n] = IF n = 0 THEN <<>>
                           ELSE IF n \in L THEN Append(u[n - 1], r[n]) ELSE u[n - 1]
  BY PartStep
<1> HIDE DEF t, u
<1>3. 0 \in A
  BY <1>1, <1>2
<1>4. ASSUME NEW n \in Nat, n \in A PROVE n + 1 \in A
  <2> SUFFICES ASSUME n + 1 <= m PROVE t[n + 1] = u[n + 1]
    OBVIOUS
  <2>1. t[n] = u[n] /\ q[n + 1] = r[n + 1] /\ (n + 1 \in K <=> n + 1 \in L)
    BY <1>4
  <2>2. n + 1 \in 0..Len(q) /\ n + 1 \in 0..Len(r) /\ n + 1 # 0 /\ (n + 1) - 1 = n
    OBVIOUS
  <2> HIDE DEF A
  <2> QED
    BY <1>1, <1>2, <2>1, <2>2
<1>5. Nat \subseteq A
  <2> HIDE DEF A
  <2> QED
    BY <1>3, <1>4, EveryNat
<1>6. m \in A
  BY <1>5
<1> QED
  BY <1>6 DEF t, u

LEMMA KeptSame ==
  ASSUME NEW q, Len(q) \in Nat, NEW K, NEW L, \A i \in 1..Len(q) : i \in K <=> i \in L
  PROVE  KeptAt(q, K) = KeptAt(q, L)
  BY PartsAgree, KeptAtIsPart, SMTT(30)

LEMMA KeptAppend ==
  ASSUME NEW T, NEW q \in Seq(T), NEW x \in T, NEW K
  PROVE  KeptAt(Append(q, x), K) =
           IF Len(q) + 1 \in K THEN Append(KeptAt(q, K), x) ELSE KeptAt(q, K)
<1> DEFINE r == Append(q, x)
           n == Len(q)
<1>1. /\ n \in Nat /\ Len(r) = n + 1 /\ r[n + 1] = x /\ \A i \in 1..n : r[i] = q[i]
  OBVIOUS
<1>2. KeptAt(q, K) = PartOf(q, K)[n]
  BY <1>1, KeptAtIsPart
<1> HIDE DEF r, n
<1>3. KeptAt(r, K) = PartOf(r, K)[n + 1]
  BY <1>1, KeptAtIsPart
<1>4. PartOf(r, K)[n] = PartOf(q, K)[n]
  <2>1. Len(q) \in Nat /\ Len(r) \in Nat /\ n \in Nat /\ n <= Len(q) /\ n <= Len(r)
    BY <1>1 DEF n
  <2>2. \A i \in 1..n : r[i] = q[i] /\ (i \in K <=> i \in K)
    BY <1>1
  <2> QED
    BY <2>1, <2>2, PartsAgree
<1>5. PartOf(r, K)[n + 1] = IF n + 1 \in K THEN Append(PartOf(r, K)[n], r[n + 1]) ELSE PartOf(r, K)[n]
  <2>1. n + 1 \in 0..Len(r) /\ n + 1 # 0 /\ (n + 1) - 1 = n /\ Len(r) \in Nat
    BY <1>1
  <2>2. PartOf(r, K)[n + 1] = IF n + 1 = 0 THEN <<>>
          ELSE IF n + 1 \in K THEN Append(PartOf(r, K)[(n + 1) - 1], r[n + 1]) ELSE PartOf(r, K)[(n + 1) - 1]
    BY <2>1, PartStep
  <2> QED
    BY <2>1, <2>2
<1>6. KeptAt(r, K) = IF n + 1 \in K THEN Append(KeptAt(q, K), x) ELSE KeptAt(q, K)
  BY <1>1, <1>2, <1>3, <1>4, <1>5
<1> QED
  BY <1>6 DEF r, n

LEMMA KeptNothing ==
  ASSUME NEW q, Len(q) \in Nat, NEW K, \A i \in 1..Len(q) : i \notin K
  PROVE  KeptAt(q, K) = <<>>
<1> DEFINE t == PartOf(q, K)
           A == {n \in Nat : n <= Len(q) => t[n] = <<>>}
<1>1. \A n \in 0..Len(q) : t[n] = IF n = 0 THEN <<>>
                           ELSE IF n \in K THEN Append(t[n - 1], q[n]) ELSE t[n - 1]
  BY PartStep
<1>2. KeptAt(q, K) = t[Len(q)]
  BY KeptAtIsPart
<1> HIDE DEF t
<1>3. 0 \in A
  BY <1>1
<1>4. ASSUME NEW n \in Nat, n \in A PROVE n + 1 \in A
  <2> SUFFICES ASSUME n + 1 <= Len(q) PROVE t[n + 1] = <<>>
    OBVIOUS
  <2>1. t[n] = <<>> /\ n + 1 \notin K
    BY <1>4
  <2>2. n + 1 \in 0..Len(q) /\ n + 1 # 0 /\ (n + 1) - 1 = n
    OBVIOUS
  <2> HIDE DEF A
  <2> QED
    BY <1>1, <2>1, <2>2
<1>5. Nat \subseteq A
  <2> HIDE DEF A
  <2> QED
    BY <1>3, <1>4, EveryNat
<1> QED
  BY <1>2, <1>5

LEMMA KeptCount ==
  ASSUME NEW T, NEW q \in Seq(T), NEW K
  PROVE  /\ IsFiniteSet(K \cap DOMAIN q)
         /\ Len(KeptAt(q, K)) = Cardinality(K \cap DOMAIN q)
<1> DEFINE t == PartOf(q, K)
           Some(n) == K \cap 1..n
           A == {n \in Nat : n <= Len(q) => t[n] \in Seq(T) /\ IsFiniteSet(Some(n)) /\ Len(t[n]) = Cardinality(Some(n))}
<1>1. \A n \in 0..Len(q) : t[n] = IF n = 0 THEN <<>>
                           ELSE IF n \in K THEN Append(t[n - 1], q[n]) ELSE t[n - 1]
  BY PartStep
<1>2. KeptAt(q, K) = t[Len(q)]
  BY KeptAtIsPart
<1> HIDE DEF t
<1>3. 0 \in A
  <2>1. Some(0) = {} /\ t[0] = <<>>
    <3>1. 0 \in 0..Len(q) /\ 1..0 = {}
      OBVIOUS
    <3> HIDE DEF A
    <3> QED
      BY <1>1, <3>1
  <2>2. IsFiniteSet({}) /\ Cardinality({}) = 0
    BY FS_EmptySet
  <2>3. <<>> \in Seq(T) /\ Len(<<>>) = 0
    OBVIOUS
  <2> HIDE DEF Some
  <2> QED
    BY <2>1, <2>2, <2>3
<1>4. ASSUME NEW n \in Nat, n \in A PROVE n + 1 \in A
  <2> SUFFICES ASSUME n + 1 <= Len(q)
               PROVE  t[n + 1] \in Seq(T) /\ IsFiniteSet(Some(n + 1)) /\ Len(t[n + 1]) = Cardinality(Some(n + 1))
    OBVIOUS
  <2>1. t[n] \in Seq(T) /\ IsFiniteSet(Some(n)) /\ Len(t[n]) = Cardinality(Some(n)) /\ q[n + 1] \in T
    BY <1>4
  <2>2. n + 1 \in 0..Len(q) /\ n + 1 # 0 /\ (n + 1) - 1 = n
    OBVIOUS
  <2>3. /\ n + 1 \in K => Some(n + 1) = Some(n) \cup {n + 1} /\ n + 1 \notin Some(n)
        /\ n + 1 \notin K => Some(n + 1) = Some(n)
    OBVIOUS
  <2> HIDE DEF A, Some
  <2>4. t[n + 1] = IF n + 1 \in K THEN Append(t[n], q[n + 1]) ELSE t[n]
    BY <1>1, <2>2
  <2>5. CASE n + 1 \in K
    <3>1. IsFiniteSet(Some(n + 1)) /\ Cardinality(Some(n + 1)) = Cardinality(Some(n)) + 1
      <4>1. IsFiniteSet(Some(n)) /\ n + 1 \notin Some(n)
        BY <2>1, <2>3, <2>5
      <4>2. /\ IsFiniteSet(Some(n) \cup {n + 1})
            /\ Cardinality(Some(n) \cup {n + 1}) = Cardinality(Some(n)) + 1
        BY <4>1, FS_AddElement, Zenon
      <4> QED
        BY <4>2, <2>3, <2>5, Zenon
    <3>2. t[n + 1] \in Seq(T) /\ Len(t[n + 1]) = Len(t[n]) + 1
      BY <2>1, <2>4, <2>5
    <3> QED
      BY <2>1, <3>1, <3>2
  <2>6. CASE n + 1 \notin K
    BY <2>1, <2>3, <2>4, <2>6
  <2> QED
    BY <2>5, <2>6
<1>5. Nat \subseteq A
  <2> HIDE DEF A
  <2> QED
    BY <1>3, <1>4, EveryNat
<1>6. Len(q) \in A /\ DOMAIN q = 1..Len(q)
  <2>1. Len(q) \in Nat /\ DOMAIN q = 1..Len(q)
    OBVIOUS
  <2> HIDE DEF A
  <2> QED
    BY <1>5, <2>1
<1> QED
  BY <1>2, <1>6

LEMMA TailOfAppend ==
  ASSUME NEW T, NEW a \in Seq(T), NEW x \in T
  PROVE  /\ Append(a, x) \in Seq(T) /\ Append(a, x) # <<>>
         /\ a # <<>> => Tail(Append(a, x)) = Append(Tail(a), x)
         /\ a = <<>> => Tail(Append(a, x)) = <<>>
<1>1. /\ Append(a, x) \in Seq(T) /\ Append(a, x) # <<>>
  <2>1. Append(a, x) \in Seq(T) /\ Len(Append(a, x)) = Len(a) + 1 /\ Len(a) \in Nat /\ Len(<<>>) = 0
    OBVIOUS
  <2>2. Len(Append(a, x)) # Len(<<>>)
    BY <2>1
  <2> QED
    BY <2>1, <2>2, Zenon
<1>2. ASSUME a # <<>> PROVE Tail(Append(a, x)) = Append(Tail(a), x)
  <2> DEFINE c == Tail(Append(a, x))
             d == Append(Tail(a), x)
             n == Len(a)
  <2>1. c \in Seq(T) /\ d \in Seq(T) /\ Len(c) = n /\ Len(d) = n
    BY <1>2
  <2>2. \A i \in 1..n : c[i] = d[i]
    BY <1>2
  <2> HIDE DEF c, d, n
  <2>3. c = d
    BY <2>1, <2>2
  <2> QED
    BY <2>3 DEF c, d
<1>3. a = <<>> => Tail(Append(a, x)) = <<>>
  OBVIOUS
<1> QED
  BY <1>1, <1>2, <1>3

\* Without the first of its positions the loop collects the rest.
LEMMA KeptWithoutFirst ==
  ASSUME NEW T, NEW q \in Seq(T), NEW K, NEW p \in K \cap 1..Len(q), \A i \in K : p <= i
  PROVE  KeptAt(q, K) # <<>> /\ KeptAt(q, K \ {p}) = Tail(KeptAt(q, K))
<1> DEFINE t == PartOf(q, K)
           u == PartOf(q, K \ {p})
           Good(n) == /\ t[n] \in Seq(T) /\ u[n] \in Seq(T)
                      /\ n < p => t[n] = <<>> /\ u[n] = <<>>
                      /\ p <= n => t[n] # <<>> /\ u[n] = Tail(t[n])
           A == {n \in Nat : n <= Len(q) => Good(n)}
<1>1. \A n \in 0..Len(q) : t[n] = IF n = 0 THEN <<>>
                           ELSE IF n \in K THEN Append(t[n - 1], q[n]) ELSE t[n - 1]
  BY PartStep
<1>2. \A n \in 0..Len(q) : u[n] = IF n = 0 THEN <<>>
                           ELSE IF n \in K \ {p} THEN Append(u[n - 1], q[n]) ELSE u[n - 1]
  BY PartStep
<1>3. KeptAt(q, K) = t[Len(q)] /\ KeptAt(q, K \ {p}) = u[Len(q)]
  BY KeptAtIsPart
<1> HIDE DEF t, u
<1>4. 0 \in A
  <2>1. 0 \in 0..Len(q) /\ 0 < p /\ ~(p <= 0)
    OBVIOUS
  <2>2. t[0] = <<>> /\ u[0] = <<>> /\ <<>> \in Seq(T)
    BY <1>1, <1>2, <2>1
  <2> QED
    BY <2>1, <2>2
<1>5. ASSUME NEW n \in Nat, n \in A PROVE n + 1 \in A
  <2> SUFFICES ASSUME n + 1 <= Len(q) PROVE Good(n + 1)
    OBVIOUS
  <2> DEFINE a == t[n]
             b == u[n]
             x == q[n + 1]
  <2>1. /\ a \in Seq(T) /\ b \in Seq(T) /\ x \in T
        /\ n < p => a = <<>> /\ b = <<>>
        /\ p <= n => a # <<>> /\ b = Tail(a)
    BY <1>5
  <2>2. n + 1 \in 0..Len(q) /\ n + 1 # 0 /\ (n + 1) - 1 = n
    OBVIOUS
  <2>3. /\ t[n + 1] = IF n + 1 \in K THEN Append(a, x) ELSE a
        /\ u[n + 1] = IF n + 1 \in K /\ n + 1 # p THEN Append(b, x) ELSE b
    <3> HIDE DEF A
    <3> QED
      BY <1>1, <1>2, <2>2
  <2>4. /\ Append(a, x) \in Seq(T) /\ Append(b, x) \in Seq(T) /\ Append(a, x) # <<>>
        /\ a # <<>> => Tail(Append(a, x)) = Append(Tail(a), x)
        /\ a = <<>> => Tail(Append(a, x)) = <<>>
    <3> HIDE DEF a, b, x, A
    <3>1. a \in Seq(T) /\ b \in Seq(T) /\ x \in T
      BY <2>1
    <3>2. Append(b, x) \in Seq(T)
      BY <3>1, TailOfAppend, Zenon
    <3>3. /\ Append(a, x) \in Seq(T) /\ Append(a, x) # <<>>
          /\ a # <<>> => Tail(Append(a, x)) = Append(Tail(a), x)
          /\ a = <<>> => Tail(Append(a, x)) = <<>>
      BY <3>1, TailOfAppend
    <3> QED
      BY <3>2, <3>3, Zenon
  <2>5. p \in Nat /\ p \in K /\ (n + 1 \in K => p <= n + 1)
    OBVIOUS
  <2> HIDE DEF a, b, x, A
  <2>6. CASE n + 1 < p
    BY <2>1, <2>3, <2>5, <2>6
  <2>7. CASE n + 1 = p
    BY <2>1, <2>3, <2>4, <2>5, <2>7
  <2>8. CASE p <= n
    <3>1. /\ ~(n + 1 < p) /\ p <= n + 1 /\ n + 1 # p
      BY <2>5, <2>8
    <3>2. /\ t[n + 1] \in Seq(T) /\ u[n + 1] \in Seq(T)
          /\ t[n + 1] # <<>> /\ u[n + 1] = Tail(t[n + 1])
      BY <2>1, <2>3, <2>4, <2>8, <3>1, Zenon
    <3> QED
      BY <3>1, <3>2
  <2> QED
    BY <2>5, <2>6, <2>7, <2>8
<1>6. Nat \subseteq A
  <2> HIDE DEF A
  <2> QED
    BY <1>4, <1>5, EveryNat
<1>7. Good(Len(q))
  <2>1. Len(q) \in Nat
    OBVIOUS
  <2>2. Len(q) \in A
    <3> HIDE DEF A
    <3> QED
      BY <1>6, <2>1
  <2> QED
    BY <2>1, <2>2
<1>8. p <= Len(q)
  OBVIOUS
<1> QED
  BY <1>3, <1>7, <1>8
=============================================================================
