-------------------------- MODULE GgufFile_proofs --------------------------
(***************************************************************************)
(* What parse returns of a model file is what the file holds, and what is  *)
(* written parses to the same, for every value of the constants.  The      *)
(* reader is placed in the file: so many records are through, and of the   *)
(* next one it has the values of the first fields.                         *)
(***************************************************************************)
EXTENDS GgufFile, DataTheorems

FieldKinds == {"byte", "short", "word", "long", "text"}
Fields     == [kind : FieldKinds, val : Nat]

FileValues  == Scalars \cup [tag : {9}, elem : Nat, items : Seq(Scalars)]
FileTensors == [name : Nat, dims : Seq(Nat), type : Nat, offset : Nat]
Entries     == [name : Nat, dims : Seq(Nat), type : GgmlTypes, offset : Nat]

\* The tag of an array is that of its elements.
OneTag(v) == v.tag = 9 => \A i \in 1..Len(v.items) : v.items[i].tag = v.elem

\* What can stand in a file.
Content(c) ==
  /\ c.header \in Seq(Nat) /\ Len(c.header) = 4
  /\ c.pairs \in Seq([key : Nat, value : FileValues])
  /\ c.tensors \in Seq(FileTensors)

\* A file of this format: the counts of its header are right, and its arrays uniform.
Counted(c) ==
  /\ c.header[3] = Len(c.tensors) /\ c.header[4] = Len(c.pairs)
  /\ \A i \in 1..Len(c.pairs) : OneTag(c.pairs[i].value)

-----------------------------------------------------------------------------
(***************************************************************************)
(* Joined sequences: where each of them begins.                            *)
(***************************************************************************)
Begins(s, n) == Len(JoinTable(s)[n])

LEMMA JoinedPlaces ==
  ASSUME NEW T, NEW s \in Seq(Seq(T))
  PROVE  /\ JoinOf(s) \in Seq(T) /\ Begins(s, 0) = 0 /\ Begins(s, Len(s)) = Len(JoinOf(s))
         /\ \A n \in 0..Len(s) : Begins(s, n) \in Nat
         /\ \A n \in Nat : n < Len(s) =>
              /\ Begins(s, n + 1) = Begins(s, n) + Len(s[n + 1])
              /\ Begins(s, n + 1) <= Len(JoinOf(s))
              /\ \A j \in 1..Len(s[n + 1]) : JoinOf(s)[Begins(s, n) + j] = s[n + 1][j]
<1> DEFINE t == JoinTable(s)
           Holds(m) == /\ t[m] \in Seq(T)
                       /\ \A n \in Nat : n < m =>
                            /\ Len(t[n]) + Len(s[n + 1]) <= Len(t[m])
                            /\ \A j \in 1..Len(s[n + 1]) : t[m][Len(t[n]) + j] = s[n + 1][j]
           A == {m \in Nat : m <= Len(s) => Holds(m)}
<1>1. Len(s) \in Nat
  OBVIOUS
<1>2. /\ JoinOf(s) = t[Len(s)] /\ t[0] = <<>>
      /\ \A n \in Nat : n < Len(s) => t[n + 1] = t[n] \o s[n + 1]
  BY <1>1, JoinIsTabled
<1> HIDE DEF t
<1>3. 0 \in A
  <2>1. t[0] \in Seq(T) /\ \A n \in Nat : ~(n < 0)
    BY <1>2
  <2> QED
    BY <2>1
<1>4. ASSUME NEW m \in Nat, m \in A PROVE m + 1 \in A
  <2> SUFFICES ASSUME m + 1 <= Len(s) PROVE Holds(m + 1)
    <3> HIDE DEF Holds
    <3> QED
      OBVIOUS
  <2>1. m < Len(s) /\ m <= Len(s) /\ m + 1 \in 1..Len(s)
    BY <1>1
  <2>2. Holds(m) /\ s[m + 1] \in Seq(T) /\ t[m + 1] = t[m] \o s[m + 1]
    <3>1. Holds(m)
      BY <1>4, <2>1
    <3>2. s[m + 1] \in Seq(T)
      BY <2>1
    <3> HIDE DEF Holds, A
    <3> QED
      BY <1>2, <2>1, <3>1, <3>2
  <2> DEFINE x == t[m]
             y == s[m + 1]
  <2>3. x \in Seq(T) /\ y \in Seq(T) /\ t[m + 1] = x \o y
    BY <2>2
  <2>4. ASSUME NEW n \in Nat, n < m, NEW j \in 1..Len(s[n + 1])
        PROVE  t[m + 1][Len(t[n]) + j] = s[n + 1][j]
    <3>1. t[m][Len(t[n]) + j] = s[n + 1][j] /\ Len(t[n]) + Len(s[n + 1]) <= Len(x)
      BY <2>2, <2>4
    <3>2. Len(t[n]) \in Nat /\ Len(s[n + 1]) \in Nat
      <4>1. n \in 0..Len(s) /\ n + 1 \in 1..Len(s)
        BY <1>1, <2>1, <2>4
      <4>2. s[n + 1] \in Seq(T)
        BY <4>1
      <4>3. Len(t[n]) \in Nat
        OBVIOUS
      <4> QED
        BY <4>2, <4>3
    <3>3. Len(t[n]) + j \in 1..Len(x)
      <4>1. Len(x) \in Nat
        BY <2>3
      <4> DEFINE a == Len(t[n])
                 b == Len(s[n + 1])
                 d == Len(x)
      <4>2. a \in Nat /\ b \in Nat /\ d \in Nat /\ a + b <= d /\ j \in 1..b
        BY <3>1, <3>2, <4>1
      <4> HIDE DEF a, b, d
      <4>3. a + j \in 1..d
        BY <4>2
      <4> QED
        BY <4>3 DEF a, d
    <3> DEFINE k == Len(t[n]) + j
    <3>4. t[m][k] = s[n + 1][j] /\ k \in 1..Len(x) /\ x = t[m]
      BY <3>1, <3>3
    <3> HIDE DEF x, y, k, A, Holds
    <3>5. t[m + 1][k] = x[k]
      BY <2>3, <3>4
    <3> QED
      BY <3>4, <3>5 DEF k
  <2>5. \A j \in 1..Len(y) : t[m + 1][Len(x) + j] = y[j]
    <3> HIDE DEF x, y, A, Holds
    <3> QED
      BY <2>3
  <2>6. Len(t[m + 1]) = Len(x) + Len(y) /\ t[m + 1] \in Seq(T)
    <3> HIDE DEF x, y, A, Holds
    <3> QED
      BY <2>3
  <2>7. \A n \in Nat : n < m + 1 => n < m \/ n = m
    OBVIOUS
  <2>8. ASSUME NEW n \in Nat, n < m + 1 PROVE Len(t[n]) + Len(s[n + 1]) <= Len(t[m + 1])
    <3>1. CASE n < m
      <4>1. Len(t[n]) + Len(s[n + 1]) <= Len(x)
        BY <2>2, <3>1
      <4>2. Len(x) \in Nat /\ Len(y) \in Nat /\ Len(t[n]) \in Nat /\ Len(s[n + 1]) \in Nat
        <5>1. n + 1 \in 1..Len(s)
          BY <1>1, <2>1, <3>1
        <5>2. s[n + 1] \in Seq(T)
          BY <5>1
        <5> HIDE DEF x, y, A, Holds
        <5> QED
          BY <2>3, <5>2
      <4> DEFINE a == Len(t[n])
                 b == Len(s[n + 1])
                 d == Len(x)
                 e == Len(y)
                 f == Len(t[m + 1])
      <4>3. a \in Nat /\ b \in Nat /\ d \in Nat /\ e \in Nat /\ a + b <= d /\ f = d + e
        BY <2>6, <4>1, <4>2
      <4> HIDE DEF a, b, d, e, f
      <4>4. a + b <= f
        BY <4>3
      <4> QED
        BY <4>4 DEF a, b, f
    <3>2. CASE n = m
      <4> HIDE DEF A, Holds
      <4> QED
        BY <2>3, <2>6, <3>2
    <3> QED
      BY <2>7, <2>8, <3>1, <3>2
  <2> HIDE DEF A
  <2>9. ASSUME NEW n \in Nat, n < m + 1, NEW j \in 1..Len(s[n + 1])
        PROVE  t[m + 1][Len(t[n]) + j] = s[n + 1][j]
    <3>1. CASE n < m
      BY <2>4, <3>1
    <3>2. CASE n = m
      BY <2>5, <2>9, <3>2
    <3> HIDE DEF x, y, Holds
    <3> QED
      BY <2>7, <2>9, <3>1, <3>2
  <2> QED
    BY <2>6, <2>8, <2>9
<1>5. Nat \subseteq A
  <2> HIDE DEF A
  <2> QED
    BY <1>3, <1>4, EveryNat
<1>6. \A m \in 0..Len(s) : Holds(m)
  <2> SUFFICES ASSUME NEW m \in 0..Len(s) PROVE Holds(m)
    OBVIOUS
  <2>1. m \in A /\ m <= Len(s)
    <3> HIDE DEF A
    <3> QED
      BY <1>1, <1>5
  <2> HIDE DEF Holds
  <2> QED
    BY <2>1
<1>7. \A m \in 0..Len(s) : t[m] \in Seq(T) /\ Len(t[m]) \in Nat
  <2>1. \A m \in 0..Len(s) : t[m] \in Seq(T)
    BY <1>6
  <2> QED
    BY <2>1
<1>8. ASSUME NEW n \in Nat, n < Len(s)
      PROVE  /\ Len(t[n + 1]) = Len(t[n]) + Len(s[n + 1])
             /\ Len(t[n + 1]) <= Len(JoinOf(s))
             /\ \A j \in 1..Len(s[n + 1]) : JoinOf(s)[Len(t[n]) + j] = s[n + 1][j]
  <2>1. n \in 0..Len(s) /\ n + 1 \in 1..Len(s) /\ Len(s) \in 0..Len(s)
    BY <1>1, <1>8
  <2>2. Holds(Len(s)) /\ s[n + 1] \in Seq(T) /\ t[n] \in Seq(T)
    <3>1. Holds(Len(s))
      BY <1>6, <2>1
    <3> HIDE DEF Holds
    <3> QED
      BY <1>7, <2>1, <3>1
  <2>3. Len(t[n + 1]) = Len(t[n]) + Len(s[n + 1])
    <3>1. t[n + 1] = t[n] \o s[n + 1]
      BY <1>2, <1>8
    <3> DEFINE x == t[n]
               y == s[n + 1]
    <3>2. x \in Seq(T) /\ y \in Seq(T) /\ t[n + 1] = x \o y
      BY <2>2, <3>1
    <3> HIDE DEF x, y, Holds
    <3>3. Len(t[n + 1]) = Len(x) + Len(y)
      BY <3>2
    <3> QED
      BY <3>3 DEF x, y
  <2>4. /\ Len(t[n]) + Len(s[n + 1]) <= Len(t[Len(s)])
        /\ \A j \in 1..Len(s[n + 1]) : t[Len(s)][Len(t[n]) + j] = s[n + 1][j]
    BY <1>8, <2>2
  <2> QED
    BY <1>2, <2>3, <2>4
<1>9. JoinOf(s) \in Seq(T) /\ Len(t[0]) = 0 /\ Len(t[Len(s)]) = Len(JoinOf(s))
  BY <1>1, <1>2, <1>7
<1> HIDE DEF Holds, A
<1> QED
  BY <1>7, <1>8, <1>9 DEF Begins, t

-----------------------------------------------------------------------------
(***************************************************************************)
(* How the records are stored.                                             *)
(***************************************************************************)
LEMMA KindsTyped ==
  /\ DOMAIN Kinds = (0..12) \ {9}
  /\ \A t \in DOMAIN Kinds : Kinds[t] \in FieldKinds
  /\ \A t \in DOMAIN Kinds : t # 8 => Kinds[t] # "text"
BY DEF Kinds, FieldKinds

LEMMA Enumerated ==
  ASSUME NEW T, NEW n \in Nat, NEW f, f = [i \in 1..n |-> f[i]], \A i \in 1..n : f[i] \in T
  PROVE  f \in Seq(T) /\ Len(f) = n /\ DOMAIN f = 1..n
<1>1. f \in [1..n -> T]
  OBVIOUS
<1> QED
  BY <1>1

LEMMA ItemsIn ==
  ASSUME NEW T, NEW s \in Seq(T)
  PROVE  Len(s) \in Nat /\ DOMAIN s = 1..Len(s) /\ \A i \in 1..Len(s) : s[i] \in T
OBVIOUS

LEMMA HeaderStored ==
  ASSUME NEW h \in Seq(Nat), Len(h) = 4
  PROVE  /\ StoredHeader(h) \in Seq(Fields) /\ Len(StoredHeader(h)) = 4
         /\ \A j \in 1..4 : StoredHeader(h)[j] = FieldOf(IF j < 3 THEN "word" ELSE "long", h[j])
<1>1. \A j \in 1..4 : h[j] \in Nat
  BY ItemsIn
<1>2. \A n \in Nat : FieldOf("word", n) \in Fields /\ FieldOf("long", n) \in Fields
  BY DEF FieldOf, Fields, FieldKinds
<1>3. \A j \in 1..4 : j = 1 \/ j = 2 \/ j = 3 \/ j = 4
  OBVIOUS
<1> QED
  BY <1>1, <1>2, <1>3 DEF StoredHeader

LEMMA FieldTyped ==
  ASSUME NEW kind \in FieldKinds, NEW n \in Nat
  PROVE  /\ FieldOf(kind, n) \in Fields
         /\ FieldOf(kind, n).kind = kind /\ FieldOf(kind, n).val = n
BY DEF FieldOf, Fields

\* Two sequences one after the other.
LEMMA TwoInARow ==
  ASSUME NEW T, NEW s \in Seq(T), NEW u \in Seq(T)
  PROVE  /\ s \o u \in Seq(T) /\ Len(s \o u) = Len(s) + Len(u)
         /\ \A i \in 1..Len(s) : (s \o u)[i] = s[i]
         /\ \A i \in 1..Len(u) : (s \o u)[Len(s) + i] = u[i]
OBVIOUS

LEMMA AfterAnother ==
  ASSUME NEW T, NEW s \in Seq(T), NEW u \in Seq(T), NEW r, r = s \o u
  PROVE  /\ r \in Seq(T) /\ Len(r) = Len(s) + Len(u)
         /\ \A i \in 1..Len(s) : r[i] = s[i]
         /\ \A i \in 1..Len(u) : r[Len(s) + i] = u[i]
BY TwoInARow

LEMMA ValueTyped ==
  ASSUME NEW v \in FileValues
  PROVE  /\ v.tag \in 0..12
         /\ v.tag # 9 => v.tag \in DOMAIN Kinds /\ v.data \in Nat /\ v \in Scalars
         /\ v.tag = 9 => v.elem \in Nat /\ v.items \in Seq(Scalars)
BY KindsTyped DEF FileValues, Scalars

LEMMA PairStored ==
  ASSUME NEW p \in [key : Nat, value : FileValues]
  PROVE  LET s == StoredPair(p)
             v == p.value
         IN  /\ s \in Seq(Fields) /\ Len(s) > 2
             /\ s[1] = FieldOf("text", p.key) /\ s[2] = FieldOf("word", v.tag)
             /\ v.tag # 9 => Len(s) = 3 /\ s[3] = FieldOf(Kinds[v.tag], v.data)
             /\ v.tag = 9 => /\ Len(s) = 4 + Len(v.items)
                             /\ s[3] = FieldOf("word", v.elem)
                             /\ s[4] = FieldOf("long", Len(v.items))
                             /\ \A i \in 1..Len(v.items) :
                                  s[4 + i] = FieldOf(Kinds[v.items[i].tag], v.items[i].data)
<1> DEFINE s == StoredPair(p)
           v == p.value
           top == <<FieldOf("text", p.key), FieldOf("word", v.tag)>>
           one == <<FieldOf(Kinds[v.tag], v.data)>>
           two == <<FieldOf("word", v.elem), FieldOf("long", Len(v.items))>>
           all == [i \in DOMAIN v.items |-> FieldOf(Kinds[v.items[i].tag], v.items[i].data)]
<1>1. /\ p.key \in Nat /\ v \in FileValues /\ v.tag \in Nat
  BY ValueTyped
<1>2. s = top \o IF v.tag # 9 THEN one ELSE two \o all
  BY Zenon DEF StoredPair
<1>3. top \in Seq(Fields) /\ Len(top) = 2 /\ top[1] = FieldOf("text", p.key)
      /\ top[2] = FieldOf("word", v.tag)
  <2>1. FieldOf("text", p.key) \in Fields /\ FieldOf("word", v.tag) \in Fields
    BY <1>1, FieldTyped DEF FieldKinds
  <2> QED
    BY <2>1
<1>4. CASE v.tag # 9
  <2>1. one \in Seq(Fields) /\ Len(one) = 1 /\ one[1] = FieldOf(Kinds[v.tag], v.data)
    <3>1. FieldOf(Kinds[v.tag], v.data) \in Fields
      BY <1>1, <1>4, ValueTyped, KindsTyped, FieldTyped
    <3> QED
      BY <3>1
  <2>2. s = top \o one
    BY <1>2, <1>4
  <2> HIDE DEF s, top, one
  <2>3. s \in Seq(Fields) /\ Len(s) = 3 /\ s[1] = top[1] /\ s[2] = top[2] /\ s[3] = one[1]
    <3>1. /\ s \in Seq(Fields) /\ Len(s) = 2 + 1 /\ \A i \in 1..2 : s[i] = top[i]
          /\ \A i \in 1..1 : s[2 + i] = one[i]
      <4>1. top \in Seq(Fields) /\ one \in Seq(Fields) /\ s = top \o one
        BY <1>3, <2>1, <2>2
      <4> HIDE DEF s, top, one
      <4>2. /\ s \in Seq(Fields) /\ Len(s) = Len(top) + Len(one)
            /\ \A i \in 1..Len(top) : s[i] = top[i]
            /\ \A i \in 1..Len(one) : s[Len(top) + i] = one[i]
        BY ONLY <4>1, AfterAnother
      <4>3. Len(top) = 2 /\ Len(one) = 1
        BY <1>3, <2>1
      <4> QED
        BY ONLY <4>2, <4>3
    <3>2. 1 \in 1..2 /\ 2 \in 1..2 /\ 1 \in 1..1 /\ 2 + 1 = 3
      OBVIOUS
    <3> QED
      BY <3>1, <3>2
  <2> QED
    BY <1>3, <1>4, <2>1, <2>3 DEF s
<1>5. CASE v.tag = 9
  <2>1. v.elem \in Nat /\ v.items \in Seq(Scalars) /\ Len(v.items) \in Nat
    BY <1>1, <1>5, ValueTyped
  <2>2. two \in Seq(Fields) /\ Len(two) = 2 /\ two[1] = FieldOf("word", v.elem)
        /\ two[2] = FieldOf("long", Len(v.items))
    <3>1. FieldOf("word", v.elem) \in Fields /\ FieldOf("long", Len(v.items)) \in Fields
      BY <2>1, FieldTyped DEF FieldKinds
    <3> QED
      BY <3>1
  <2>3. all \in Seq(Fields) /\ Len(all) = Len(v.items)
    <3>1. all = [i \in 1..Len(v.items) |-> all[i]]
      BY <2>1
    <3>2. \A i \in 1..Len(v.items) : all[i] \in Fields
      <4> SUFFICES ASSUME NEW i \in 1..Len(v.items) PROVE all[i] \in Fields
        OBVIOUS
      <4>1. v.items[i] \in Scalars /\ i \in DOMAIN v.items
        BY <2>1
      <4>2. v.items[i].tag \in DOMAIN Kinds /\ v.items[i].data \in Nat
        BY <4>1 DEF Scalars
      <4>3. all[i] = FieldOf(Kinds[v.items[i].tag], v.items[i].data)
        BY <4>1
      <4> HIDE DEF all
      <4> QED
        BY <4>2, <4>3, KindsTyped, FieldTyped
    <3> HIDE DEF all
    <3>3. Len(v.items) \in Nat
      BY <2>1
    <3> QED
      BY ONLY <3>1, <3>2, <3>3, Enumerated
  <2>4. \A i \in 1..Len(v.items) : all[i] = FieldOf(Kinds[v.items[i].tag], v.items[i].data)
    BY <2>1
  <2> DEFINE rest == two \o all
  <2>5. s = top \o rest
    BY <1>2, <1>5
  <2> HIDE DEF s, top, two, all
  <2>6. /\ rest \in Seq(Fields) /\ Len(rest) = 2 + Len(all) /\ rest[1] = two[1] /\ rest[2] = two[2]
        /\ \A i \in 1..Len(all) : rest[2 + i] = all[i]
    <3>1. /\ rest \in Seq(Fields) /\ Len(rest) = 2 + Len(all) /\ \A i \in 1..2 : rest[i] = two[i]
          /\ \A i \in 1..Len(all) : rest[2 + i] = all[i]
      <4>1. two \in Seq(Fields) /\ all \in Seq(Fields) /\ rest = two \o all
        BY <2>2, <2>3
      <4> HIDE DEF rest, two, all
      <4>2. /\ rest \in Seq(Fields) /\ Len(rest) = Len(two) + Len(all)
            /\ \A i \in 1..Len(two) : rest[i] = two[i]
            /\ \A i \in 1..Len(all) : rest[Len(two) + i] = all[i]
        BY ONLY <4>1, AfterAnother
      <4>3. Len(two) = 2
        BY <2>2
      <4> QED
        BY ONLY <4>2, <4>3
    <3>2. 1 \in 1..2 /\ 2 \in 1..2
      OBVIOUS
    <3> HIDE DEF rest
    <3> QED
      BY <3>1, <3>2
  <2> HIDE DEF rest
  <2>7. /\ s \in Seq(Fields) /\ Len(s) = 2 + Len(rest) /\ s[1] = top[1] /\ s[2] = top[2]
        /\ \A i \in 1..Len(rest) : s[2 + i] = rest[i]
    <3>1. /\ s \in Seq(Fields) /\ Len(s) = 2 + Len(rest) /\ \A i \in 1..2 : s[i] = top[i]
          /\ \A i \in 1..Len(rest) : s[2 + i] = rest[i]
      <4>1. top \in Seq(Fields) /\ rest \in Seq(Fields) /\ s = top \o rest
        BY <1>3, <2>5, <2>6
      <4> HIDE DEF s, top, rest
      <4>2. /\ s \in Seq(Fields) /\ Len(s) = Len(top) + Len(rest)
            /\ \A i \in 1..Len(top) : s[i] = top[i]
            /\ \A i \in 1..Len(rest) : s[Len(top) + i] = rest[i]
        BY ONLY <4>1, AfterAnother
      <4>3. Len(top) = 2
        BY <1>3
      <4> QED
        BY ONLY <4>2, <4>3
    <3>2. 1 \in 1..2 /\ 2 \in 1..2
      OBVIOUS
    <3> QED
      BY <3>1, <3>2
  <2>8. /\ s[3] = rest[1] /\ s[4] = rest[2]
        /\ \A i \in 1..Len(all) : s[4 + i] = rest[2 + i]
    <3>1. Len(all) \in Nat /\ Len(rest) = 2 + Len(all)
      BY <2>1, <2>3, <2>6
    <3>2. \A i \in 1..Len(all) : 2 + i \in 1..Len(rest) /\ 2 + (2 + i) = 4 + i
      BY <3>1
    <3>3. 1 \in 1..Len(rest) /\ 2 \in 1..Len(rest) /\ 2 + 1 = 3 /\ 2 + 2 = 4
      BY <3>1
    <3> QED
      BY <2>7, <3>2, <3>3
  <2>9. Len(s) = 4 + Len(v.items) /\ Len(s) > 2
    BY <2>1, <2>3, <2>6, <2>7
  <2> QED
    BY <1>3, <1>5, <2>2, <2>3, <2>4, <2>6, <2>7, <2>8, <2>9 DEF s
<1> QED
  BY <1>4, <1>5

LEMMA TensorStored ==
  ASSUME NEW t \in FileTensors
  PROVE  LET s == StoredTensor(t)
             n == Len(t.dims)
         IN  /\ s \in Seq(Fields) /\ Len(s) = 4 + n
             /\ s[1] = FieldOf("text", t.name) /\ s[2] = FieldOf("word", n)
             /\ \A i \in 1..n : s[2 + i] = FieldOf("long", t.dims[i])
             /\ s[3 + n] = FieldOf("word", t.type) /\ s[4 + n] = FieldOf("long", t.offset)
<1> DEFINE s == StoredTensor(t)
           n == Len(t.dims)
           top == <<FieldOf("text", t.name), FieldOf("word", n)>>
           all == [i \in DOMAIN t.dims |-> FieldOf("long", t.dims[i])]
           two == <<FieldOf("word", t.type), FieldOf("long", t.offset)>>
<1>1. /\ t.name \in Nat /\ t.dims \in Seq(Nat) /\ n \in Nat /\ t.type \in Nat /\ t.offset \in Nat
  BY DEF FileTensors
<1>2. s = (top \o all) \o two
  BY Zenon DEF StoredTensor
<1>3. top \in Seq(Fields) /\ Len(top) = 2 /\ top[1] = FieldOf("text", t.name)
      /\ top[2] = FieldOf("word", n)
  <2>1. FieldOf("text", t.name) \in Fields /\ FieldOf("word", n) \in Fields
    BY <1>1, FieldTyped DEF FieldKinds
  <2> QED
    BY <2>1
<1>4. two \in Seq(Fields) /\ Len(two) = 2 /\ two[1] = FieldOf("word", t.type)
      /\ two[2] = FieldOf("long", t.offset)
  <2>1. FieldOf("word", t.type) \in Fields /\ FieldOf("long", t.offset) \in Fields
    BY <1>1, FieldTyped DEF FieldKinds
  <2> QED
    BY <2>1
<1>5. all \in Seq(Fields) /\ Len(all) = n /\ \A i \in 1..n : all[i] = FieldOf("long", t.dims[i])
  <2>1. all = [i \in 1..n |-> all[i]] /\ \A i \in 1..n : all[i] = FieldOf("long", t.dims[i])
    BY <1>1
  <2>2. \A i \in 1..n : all[i] \in Fields
    <3>1. \A i \in 1..n : t.dims[i] \in Nat
      BY <1>1, ItemsIn
    <3> HIDE DEF all
    <3> QED
      BY <2>1, <3>1, FieldTyped DEF FieldKinds
  <2> HIDE DEF all
  <2> QED
    BY <1>1, <2>1, <2>2, Enumerated
<1> DEFINE rest == top \o all
<1> HIDE DEF s, top, all, two
<1>6. /\ rest \in Seq(Fields) /\ Len(rest) = 2 + n /\ rest[1] = top[1] /\ rest[2] = top[2]
      /\ \A i \in 1..n : rest[2 + i] = all[i]
  <2>1. /\ rest \in Seq(Fields) /\ Len(rest) = 2 + n /\ \A i \in 1..2 : rest[i] = top[i]
        /\ \A i \in 1..n : rest[2 + i] = all[i]
    <3>1. top \in Seq(Fields) /\ all \in Seq(Fields) /\ rest = top \o all
      BY <1>3, <1>5
    <3> HIDE DEF rest, top, all
    <3>2. /\ rest \in Seq(Fields) /\ Len(rest) = Len(top) + Len(all)
          /\ \A i \in 1..Len(top) : rest[i] = top[i]
          /\ \A i \in 1..Len(all) : rest[Len(top) + i] = all[i]
      BY ONLY <3>1, AfterAnother
    <3>3. Len(top) = 2 /\ Len(all) = n
      BY <1>3, <1>5
    <3> QED
      BY ONLY <3>2, <3>3
  <2>2. 1 \in 1..2 /\ 2 \in 1..2
    OBVIOUS
  <2> HIDE DEF rest
  <2> QED
    BY <2>1, <2>2
<1> HIDE DEF n
<1>7. \A i \in 1..n : 2 + i \in 1..Len(rest)
  BY <1>1, <1>6
<1> HIDE DEF rest
<1>8. /\ s \in Seq(Fields) /\ Len(s) = Len(rest) + 2
      /\ \A i \in 1..Len(rest) : s[i] = rest[i]
      /\ s[Len(rest) + 1] = two[1] /\ s[Len(rest) + 2] = two[2]
  <2>1. s = rest \o two
    BY <1>2 DEF rest
  <2>2. /\ s \in Seq(Fields) /\ Len(s) = Len(rest) + 2 /\ \A i \in 1..Len(rest) : s[i] = rest[i]
        /\ \A i \in 1..2 : s[Len(rest) + i] = two[i]
    <3>1. rest \in Seq(Fields) /\ two \in Seq(Fields) /\ s = rest \o two
      BY <1>4, <1>6, <2>1
    <3> HIDE DEF s, rest, two
    <3>2. /\ s \in Seq(Fields) /\ Len(s) = Len(rest) + Len(two)
          /\ \A i \in 1..Len(rest) : s[i] = rest[i]
          /\ \A i \in 1..Len(two) : s[Len(rest) + i] = two[i]
      BY ONLY <3>1, AfterAnother
    <3>3. Len(two) = 2
      BY <1>4
    <3> QED
      BY ONLY <3>2, <3>3
  <2>3. 1 \in 1..2 /\ 2 \in 1..2
    OBVIOUS
  <2> QED
    BY <2>2, <2>3
<1>9. Len(rest) + 1 = 3 + n /\ Len(rest) + 2 = 4 + n /\ 1 \in 1..Len(rest) /\ 2 \in 1..Len(rest)
  BY <1>1, <1>6
<1>10. \A i \in 1..n : s[2 + i] = FieldOf("long", t.dims[i])
  BY <1>5, <1>6, <1>7, <1>8
<1> QED
  BY <1>3, <1>4, <1>6, <1>8, <1>9, <1>10 DEF s, n

-----------------------------------------------------------------------------
(***************************************************************************)
(* The values of the first fields of a record, and what comes next.        *)
(***************************************************************************)
StartOf(g, s) == Len(g) <= Len(s) /\ \A j \in 1..Len(g) : g[j] = s[j].val

LEMMA HeaderRead ==
  ASSUME NEW h \in Seq(Nat), Len(h) = 4, NEW g \in Seq(Nat), StartOf(g, StoredHeader(h))
  PROVE  /\ \A j \in 1..Len(g) : g[j] = h[j]
         /\ Len(g) < 4 => StoredHeader(h)[Len(g) + 1].kind = HeaderKind(g)
         /\ Len(g) = 4 => g = h
<1>1. /\ Len(g) \in Nat /\ Len(g) <= 4
      /\ \A j \in 1..4 : /\ StoredHeader(h)[j].val = h[j]
                         /\ StoredHeader(h)[j].kind = IF j < 3 THEN "word" ELSE "long"
  <2>1. \A j \in 1..4 : h[j] \in Nat
    BY ItemsIn
  <2>2. Len(g) \in Nat /\ Len(g) <= 4
    <3>1. Len(g) \in Nat
      BY ItemsIn
    <3>2. Len(g) <= Len(StoredHeader(h)) /\ Len(StoredHeader(h)) = 4
      BY Zenon, HeaderStored DEF StartOf
    <3> QED
      BY <3>1, <3>2
  <2> QED
    BY <2>1, <2>2, HeaderStored, FieldTyped, SMTT(30) DEF FieldKinds
<1>2. \A j \in 1..Len(g) : j \in 1..4
  BY <1>1
<1>3. \A j \in 1..Len(g) : g[j] = h[j]
  BY <1>1, <1>2 DEF StartOf
<1>4. Len(g) < 4 => StoredHeader(h)[Len(g) + 1].kind = HeaderKind(g)
  BY <1>1, SMTT(30) DEF HeaderKind
<1>5. Len(g) = 4 => g = h
  <2> SUFFICES ASSUME Len(g) = 4 PROVE g = h
    OBVIOUS
  <2>1. g = [j \in 1..Len(g) |-> g[j]] /\ h = [j \in 1..Len(h) |-> h[j]]
    OBVIOUS
  <2>2. \A j \in 1..4 : g[j] = h[j]
    BY <1>3
  <2> QED
    BY <2>1, <2>2
<1> QED
  BY <1>3, <1>4, <1>5

LEMMA PairRead ==
  ASSUME NEW p \in [key : Nat, value : FileValues], OneTag(p.value),
         NEW g \in Seq(Nat), StartOf(g, StoredPair(p))
  PROVE  /\ ~BadPair(g)
         /\ Len(g) < Len(StoredPair(p)) => /\ StoredPair(p)[Len(g) + 1].kind = PairKind(g)
                                           /\ ~PairWhole(g)
         /\ Len(g) = Len(StoredPair(p)) =>
              PairWhole(g) /\ g[1] = p.key /\ ValueOf(g) = Parsed(p.value)
<1> DEFINE s == StoredPair(p)
           v == p.value
           n == Len(v.items)
           k == Len(g)
<1>1. p.key \in Nat /\ v \in FileValues /\ v.tag \in Nat /\ v.tag \in 0..12
  BY ValueTyped
<1>2. /\ Len(s) \in Nat /\ Len(s) > 2 /\ k \in Nat /\ k <= Len(s)
      /\ \A j \in 1..k : g[j] = s[j].val
      /\ s[1].kind = "text" /\ s[1].val = p.key /\ s[2].kind = "word" /\ s[2].val = v.tag
  <2>1. /\ s \in Seq(Fields) /\ Len(s) > 2
        /\ s[1] = FieldOf("text", p.key) /\ s[2] = FieldOf("word", v.tag)
    BY PairStored
  <2>2. Len(s) \in Nat
    BY <2>1, ItemsIn
  <2>3. k \in Nat /\ k <= Len(s) /\ \A j \in 1..k : g[j] = s[j].val
    BY DEF StartOf
  <2> HIDE DEF s
  <2> QED
    BY <1>1, <2>1, <2>2, <2>3, FieldTyped DEF FieldKinds
<1>3. /\ k > 0 => g[1] = p.key
      /\ k > 1 => g[2] = v.tag
  <2>1. k > 0 => 1 \in 1..k
    BY <1>2
  <2>2. k > 1 => 2 \in 1..k
    BY <1>2
  <2> HIDE DEF s, k
  <2> QED
    BY <1>2, <2>1, <2>2
<1>4. CASE v.tag # 9
  <2>1. /\ Len(s) = 3 /\ s[3].kind = Kinds[v.tag] /\ s[3].val = v.data /\ v.data \in Nat
        /\ v.tag \in DOMAIN Kinds
    <3>1. Len(s) = 3 /\ s[3] = FieldOf(Kinds[v.tag], v.data)
      BY <1>4, PairStored
    <3>2. Kinds[v.tag] \in FieldKinds /\ v.data \in Nat /\ v.tag \in DOMAIN Kinds
      BY <1>1, <1>4, ValueTyped, KindsTyped
    <3> HIDE DEF s
    <3> QED
      BY <3>1, <3>2, FieldTyped
  <2>2. k = 3 => g[3] = v.data
    <3>1. k = 3 => 3 \in 1..k
      OBVIOUS
    <3> HIDE DEF s, k
    <3> QED
      BY <1>2, <2>1, <3>1
  <2>3. k = 3 => ValueOf(g) = Parsed(v)
    <3> HIDE DEF s
    <3> QED
      BY <1>3, <1>4, <2>2 DEF ValueOf, Parsed
  <2>4. k = 0 \/ k = 1 \/ k = 2 \/ k = 3
    <3> HIDE DEF s, k
    <3> QED
      BY <1>2, <2>1
  <2>5. ~BadPair(g)
    <3>1. BadPair(g) => (k = 2 /\ g[2] > 12) \/ k = 4
      BY DEF BadPair
    <3> HIDE DEF k
    <3>2. k = 2 => g[2] = v.tag
      BY <1>3
    <3>3. ~(v.tag > 12)
      BY ONLY <1>1
    <3>5. k = 2 => ~(g[2] > 12)
      BY ONLY <3>2, <3>3
    <3>4. k # 4
      BY <2>4
    <3> QED
      BY <3>1, <3>4, <3>5
  <2>6. k < 3 => ~PairWhole(g)
    BY <2>4 DEF PairWhole
  <2>7. k = 3 => PairWhole(g) /\ g[1] = p.key
    BY <1>3, <1>4 DEF PairWhole
  <2>8. k < 3 => s[k + 1].kind = PairKind(g)
    <3>1. k = 2 => PairKind(g) = Kinds[v.tag]
      BY <1>3, <1>4 DEF PairKind
    <3>2. /\ k = 0 => PairKind(g) = "text"
          /\ k = 1 => PairKind(g) = "word"
      BY SMTT(30) DEF PairKind
    <3> HIDE DEF s, k
    <3> QED
      BY <1>2, <2>1, <2>4, <3>1, <3>2
  <2> QED
    BY <2>1, <2>3, <2>5, <2>6, <2>7, <2>8
<1>5. CASE v.tag = 9
  <2>1. /\ v.elem \in Nat /\ v.items \in Seq(Scalars) /\ n \in Nat
        /\ \A i \in 1..n : v.items[i] \in Scalars /\ v.items[i].tag = v.elem
    <3>1. v.elem \in Nat /\ v.items \in Seq(Scalars)
      BY <1>1, <1>5, ValueTyped
    <3>2. n \in Nat /\ \A i \in 1..n : v.items[i] \in Scalars
      BY <3>1, ItemsIn
    <3> QED
      BY <1>5, <3>1, <3>2 DEF OneTag
  <2>2. /\ Len(s) = 4 + n /\ s[3].kind = "word" /\ s[3].val = v.elem
        /\ s[4].kind = "long" /\ s[4].val = n
        /\ \A i \in 1..n : /\ s[4 + i].kind = Kinds[v.elem] /\ s[4 + i].val = v.items[i].data
                           /\ v.elem \in DOMAIN Kinds
    <3>1. /\ Len(s) = 4 + n /\ s[3] = FieldOf("word", v.elem) /\ s[4] = FieldOf("long", n)
          /\ \A i \in 1..n : s[4 + i] = FieldOf(Kinds[v.items[i].tag], v.items[i].data)
      BY <1>5, PairStored
    <3>2. \A i \in 1..n : /\ Kinds[v.items[i].tag] \in FieldKinds /\ v.items[i].data \in Nat
                          /\ v.items[i].tag = v.elem /\ v.elem \in DOMAIN Kinds
      BY <2>1, KindsTyped DEF Scalars
    <3> HIDE DEF s, n
    <3>3. \A i \in 1..n : /\ s[4 + i].kind = Kinds[v.elem] /\ s[4 + i].val = v.items[i].data
                           /\ v.elem \in DOMAIN Kinds
      <4> SUFFICES ASSUME NEW i \in 1..n
                   PROVE  /\ s[4 + i].kind = Kinds[v.elem] /\ s[4 + i].val = v.items[i].data
                          /\ v.elem \in DOMAIN Kinds
        OBVIOUS
      <4>1. /\ s[4 + i] = FieldOf(Kinds[v.items[i].tag], v.items[i].data)
            /\ Kinds[v.items[i].tag] \in FieldKinds /\ v.items[i].data \in Nat
            /\ v.items[i].tag = v.elem /\ v.elem \in DOMAIN Kinds
        BY <3>1, <3>2
      <4> QED
        BY ONLY <4>1, FieldTyped
    <3>4. "word" \in FieldKinds /\ "long" \in FieldKinds
      BY DEF FieldKinds
    <3>5. s[3].kind = "word" /\ s[3].val = v.elem /\ s[4].kind = "long" /\ s[4].val = n
      <4>1. s[3] = FieldOf("word", v.elem) /\ s[4] = FieldOf("long", n)
        BY <3>1
      <4>2. s[3].kind = "word" /\ s[3].val = v.elem
        BY ONLY <4>1, <2>1, <3>4, FieldTyped
      <4>3. s[4].kind = "long" /\ s[4].val = n
        BY ONLY <4>1, <2>1, <3>4, FieldTyped
      <4> QED
        BY <4>2, <4>3
    <3> QED
      BY <3>1, <3>3, <3>5
  <2>3. /\ k > 2 => g[3] = v.elem
        /\ k > 3 => g[4] = n
        /\ \A i \in 1..n : k >= 4 + i => g[4 + i] = v.items[i].data
    <3>1. /\ k > 2 => 3 \in 1..k
          /\ k > 3 => 4 \in 1..k
          /\ \A i \in 1..n : k >= 4 + i => 4 + i \in 1..k
      BY <1>2, <2>1
    <3> HIDE DEF s, k, n
    <3> QED
      BY <1>2, <2>2, <3>1
  <2>4. k = 0 \/ k = 1 \/ k = 2 \/ k = 3 \/ (k > 3 /\ k <= 4 + n)
    <3> HIDE DEF s, k, n
    <3> QED
      BY <1>2, <2>1, <2>2
  <2>5. ~BadPair(g)
    <3>1. n > 0 => v.elem \in DOMAIN Kinds
      BY <2>1, <2>2
    <3> HIDE DEF s, n
    <3> QED
      BY <1>3, <1>5, <2>1, <2>3, <3>1 DEF BadPair
  <2>6. k < 4 + n => ~PairWhole(g)
    <3>1. k > 3 => g[2] = 9 /\ g[4] = n
      BY <1>3, <1>5, <2>3, <1>2
    <3>2. k > 2 /\ ~(k > 3) => k = 3
      <4> HIDE DEF s, k, n
      <4> QED
        BY <1>2
    <3>3. k > 2 => g[2] = 9
      BY <1>2, <1>3, <1>5
    <3>4. PairWhole(g) => k > 2 /\ k > 3 /\ k = 4 + g[4]
      BY <3>3 DEF PairWhole
    <3> HIDE DEF s, k, n
    <3> QED
      BY <1>2, <2>1, <3>1, <3>4
  <2>7. k = 4 + n => PairWhole(g) /\ g[1] = p.key
    <3> HIDE DEF s, n
    <3> QED
      BY <1>2, <1>3, <1>5, <2>1, <2>3 DEF PairWhole
  <2>8. k < 4 + n => s[k + 1].kind = PairKind(g)
    <3>1. /\ k = 0 => PairKind(g) = "text"
          /\ k = 1 => PairKind(g) = "word"
          /\ k = 3 => PairKind(g) = "long"
      <4>1. ASSUME k = 0 PROVE PairKind(g) = "text"
        BY <4>1 DEF PairKind
      <4>2. ASSUME k = 1 PROVE PairKind(g) = "word"
        BY <4>2 DEF PairKind
      <4>3. ASSUME k = 3 PROVE PairKind(g) = "long"
        BY <4>3 DEF PairKind
      <4> QED
        BY <4>1, <4>2, <4>3
    <3>2. k = 2 => PairKind(g) = "word"
      BY <1>3, <1>5 DEF PairKind
    <3>3. k > 3 => PairKind(g) = Kinds[v.elem]
      <4>1. k > 3 => PairKind(g) = Kinds[g[3]]
        BY <1>2 DEF PairKind
      <4>2. k > 3 => k > 2
        BY <1>2
      <4> QED
        BY <2>3, <4>1, <4>2
    <3>4. k > 3 /\ k < 4 + n => k - 3 \in 1..n /\ 4 + (k - 3) = k + 1
      BY <1>2, <2>1
    <3> HIDE DEF s, k, n
    <3>5. k > 3 /\ k < 4 + n => s[k + 1].kind = Kinds[v.elem]
      BY <2>2, <3>4
    <3>6. /\ k = 0 => k + 1 = 1
          /\ k = 1 => k + 1 = 2
          /\ k = 2 => k + 1 = 3
          /\ k = 3 => k + 1 = 4
      OBVIOUS
    <3> QED
      BY <1>2, <2>2, <2>4, <3>1, <3>2, <3>3, <3>5, <3>6
  <2>9. k = 4 + n => ValueOf(g) = Parsed(v)
    <3> SUFFICES ASSUME k = 4 + n PROVE ValueOf(g) = Parsed(v)
      OBVIOUS
    <3>1. k > 1 /\ k > 2 /\ k > 3
      <4> HIDE DEF k, n
      <4> QED
        BY <2>1
    <3>2. g[2] = 9 /\ g[3] = v.elem /\ g[4] = n
      BY <1>3, <1>5, <2>3, <3>1
    <3>3. \A i \in 1..n : g[4 + i] = v.items[i].data /\ v.items[i].tag = v.elem
      BY <2>1, <2>3
    <3>4. ValueOf(g) = [tag |-> 9, items |-> [i \in 1..n |-> Scalar(v.elem, g[4 + i])]]
      BY <3>2 DEF ValueOf
    <3>5. Parsed(v) = [tag |-> 9, items |->
                        [i \in 1..n |-> Scalar(v.items[i].tag, v.items[i].data)]]
      <4>1. DOMAIN v.items = 1..n
        BY <2>1
      <4> QED
        BY <1>5, <4>1 DEF Parsed
    <3>6. [i \in 1..n |-> Scalar(v.elem, g[4 + i])]
          = [i \in 1..n |-> Scalar(v.items[i].tag, v.items[i].data)]
      BY <3>3
    <3> QED
      BY <3>4, <3>5, <3>6
  <2> QED
    BY <2>2, <2>5, <2>6, <2>7, <2>8, <2>9
<1> QED
  BY <1>4, <1>5

LEMMA TensorRead ==
  ASSUME NEW t \in FileTensors, NEW g \in Seq(Nat), StartOf(g, StoredTensor(t))
  PROVE  LET n == Len(t.dims) IN
         /\ BadTensor(g) <=> Len(g) = 3 + n /\ t.type \notin GgmlTypes
         /\ Len(g) < 4 + n => /\ StoredTensor(t)[Len(g) + 1].kind = TensorKind(g)
                              /\ ~TensorWhole(g)
         /\ Len(g) = 4 + n => TensorWhole(g) /\ TensorOf(g) = t
<1> DEFINE s == StoredTensor(t)
           n == Len(t.dims)
           k == Len(g)
<1>1. /\ t.name \in Nat /\ t.dims \in Seq(Nat) /\ n \in Nat /\ t.type \in Nat /\ t.offset \in Nat
      /\ t = [name |-> t.name, dims |-> t.dims, type |-> t.type, offset |-> t.offset]
      /\ \A i \in 1..n : t.dims[i] \in Nat
  <2>1. /\ t.name \in Nat /\ t.dims \in Seq(Nat) /\ t.type \in Nat /\ t.offset \in Nat
        /\ t = [name |-> t.name, dims |-> t.dims, type |-> t.type, offset |-> t.offset]
    BY DEF FileTensors
  <2> QED
    BY <2>1, ItemsIn
<1>2. /\ k \in Nat /\ k <= 4 + n /\ \A j \in 1..k : g[j] = s[j].val
      /\ s[1].kind = "text" /\ s[1].val = t.name /\ s[2].kind = "word" /\ s[2].val = n
      /\ \A i \in 1..n : s[2 + i].kind = "long" /\ s[2 + i].val = t.dims[i]
      /\ s[3 + n].kind = "word" /\ s[3 + n].val = t.type
      /\ s[4 + n].kind = "long" /\ s[4 + n].val = t.offset
  <2>1. /\ Len(s) = 4 + n
        /\ s[1] = FieldOf("text", t.name) /\ s[2] = FieldOf("word", n)
        /\ \A i \in 1..n : s[2 + i] = FieldOf("long", t.dims[i])
        /\ s[3 + n] = FieldOf("word", t.type) /\ s[4 + n] = FieldOf("long", t.offset)
    BY TensorStored
  <2>2. k \in Nat /\ k <= 4 + n /\ \A j \in 1..k : g[j] = s[j].val
    BY <2>1 DEF StartOf
  <2> HIDE DEF s, k, n
  <2>3. "text" \in FieldKinds /\ "word" \in FieldKinds /\ "long" \in FieldKinds
    BY DEF FieldKinds
  <2>4. s[1].kind = "text" /\ s[1].val = t.name /\ s[2].kind = "word" /\ s[2].val = n
    BY <1>1, <2>1, <2>3, FieldTyped
  <2>5. \A i \in 1..n : s[2 + i].kind = "long" /\ s[2 + i].val = t.dims[i]
    <3> SUFFICES ASSUME NEW i \in 1..n PROVE s[2 + i].kind = "long" /\ s[2 + i].val = t.dims[i]
      OBVIOUS
    <3>1. s[2 + i] = FieldOf("long", t.dims[i]) /\ t.dims[i] \in Nat
      BY <1>1, <2>1
    <3> QED
      BY ONLY <2>3, <3>1, FieldTyped
  <2>6. /\ s[3 + n].kind = "word" /\ s[3 + n].val = t.type
        /\ s[4 + n].kind = "long" /\ s[4 + n].val = t.offset
    BY <1>1, <2>1, <2>3, FieldTyped
  <2> QED
    BY <2>2, <2>4, <2>5, <2>6
<1>3. /\ k > 0 => g[1] = t.name
      /\ k > 1 => g[2] = n
      /\ \A i \in 1..n : k >= 2 + i => g[2 + i] = t.dims[i]
      /\ k >= 3 + n => g[3 + n] = t.type
      /\ k >= 4 + n => g[4 + n] = t.offset
  <2>1. /\ k > 0 => 1 \in 1..k
        /\ k > 1 => 2 \in 1..k
        /\ \A i \in 1..n : k >= 2 + i => 2 + i \in 1..k
        /\ k >= 3 + n => 3 + n \in 1..k
        /\ k >= 4 + n => 4 + n \in 1..k
    BY <1>1, <1>2, SMTT(30)
  <2> HIDE DEF s, k, n
  <2> QED
    BY <1>2, <2>1
<1>4. BadTensor(g) <=> k = 3 + n /\ t.type \notin GgmlTypes
  <2>1. CASE k > 2
    <3>1. g[2] = n
      BY <1>3, <2>1
    <3>2. BadTensor(g) <=> k = 3 + n /\ g[k] \notin GgmlTypes
      BY <2>1, <3>1 DEF BadTensor
    <3> HIDE DEF k, n
    <3> QED
      BY <1>1, <1>2, <1>3, <3>2
  <2>2. CASE ~(k > 2)
    BY <1>1, <1>2, <2>2 DEF BadTensor
  <2> QED
    BY <2>1, <2>2
<1>5. k < 4 + n => ~TensorWhole(g)
  <2>1. k > 3 => k > 1
    BY <1>2
  <2>2. TensorWhole(g) => k = 4 + n
    <3>1. TensorWhole(g) => k > 3 /\ k = 4 + g[2]
      BY DEF TensorWhole
    <3> QED
      BY <1>3, <2>1, <3>1
  <2> HIDE DEF k, n
  <2> QED
    BY <1>1, <1>2, <2>2
<1>6. k < 4 + n => s[k + 1].kind = TensorKind(g)
  <2>1. /\ k = 0 => TensorKind(g) = "text"
        /\ k = 1 => TensorKind(g) = "word"
        /\ k > 1 => TensorKind(g) = IF k = 2 + n THEN "word" ELSE "long"
    <3>1. /\ k = 0 => TensorKind(g) = "text"
          /\ k = 1 => TensorKind(g) = "word"
      BY DEF TensorKind
    <3>2. k > 1 => TensorKind(g) = IF k = 2 + g[2] THEN "word" ELSE "long"
      BY DEF TensorKind
    <3> QED
      BY <1>3, <3>1, <3>2
  <2>2. /\ k > 1 /\ k < 2 + n => k - 1 \in 1..n /\ 2 + (k - 1) = k + 1
        /\ k = 2 + n => k + 1 = 3 + n /\ k > 1
        /\ k = 3 + n => k + 1 = 4 + n /\ k > 1 /\ k # 2 + n
    BY <1>1, <1>2, SMTT(30)
  <2>3. /\ k = 0 => k + 1 = 1
        /\ k = 1 => k + 1 = 2
        /\ k < 4 + n => k = 0 \/ k = 1 \/ (k > 1 /\ k < 2 + n) \/ k = 2 + n \/ k = 3 + n
    <3> HIDE DEF s, k, n
    <3> QED
      BY <1>1, <1>2
  <2> HIDE DEF s, k, n
  <2> QED
    BY <1>2, <2>1, <2>2, <2>3
<1>7. k = 4 + n => TensorWhole(g) /\ TensorOf(g) = t
  <2> SUFFICES ASSUME k = 4 + n PROVE TensorWhole(g) /\ TensorOf(g) = t
    OBVIOUS
  <2>1. k > 0 /\ k > 1 /\ k > 3 /\ k >= 3 + n /\ k >= 4 + n /\ \A i \in 1..n : k >= 2 + i
    <3>1. n \in Nat
      BY <1>1
    <3> HIDE DEF k, n
    <3> QED
      BY <3>1
  <2>2. /\ g[1] = t.name /\ g[2] = n /\ g[3 + n] = t.type /\ g[4 + n] = t.offset
        /\ \A i \in 1..n : g[2 + i] = t.dims[i]
    BY <1>3, <2>1
  <2>3. [i \in 1..n |-> g[2 + i]] = t.dims
    <3>1. t.dims = [i \in 1..n |-> t.dims[i]]
      BY <1>1
    <3> QED
      BY <2>2, <3>1
  <2>4. TensorOf(g) = [name |-> t.name, dims |-> t.dims, type |-> t.type, offset |-> t.offset]
    <3> HIDE DEF n
    <3> QED
      BY <2>2, <2>3 DEF TensorOf
  <2> QED
    BY <1>1, <2>1, <2>2, <2>4 DEF TensorWhole
<1> QED
  BY <1>4, <1>5, <1>6, <1>7

-----------------------------------------------------------------------------
(***************************************************************************)
(* The records of a file, and the bytes before a field.                    *)
(***************************************************************************)
LEMMA RecordsListed ==
  ASSUME NEW c, Content(c)
  PROVE  LET r == Records(c)
             p == Len(c.pairs)
             t == Len(c.tensors)
         IN  /\ r \in Seq(Seq(Fields)) /\ p \in Nat /\ t \in Nat /\ Len(r) = 1 + p + t
             /\ r[1] = StoredHeader(c.header)
             /\ \A i \in 1..p : r[1 + i] = StoredPair(c.pairs[i])
             /\ \A i \in 1..t : r[1 + p + i] = StoredTensor(c.tensors[i])
<1> DEFINE r == Records(c)
           p == Len(c.pairs)
           t == Len(c.tensors)
           head == <<StoredHeader(c.header)>>
           ps == [i \in DOMAIN c.pairs |-> StoredPair(c.pairs[i])]
           ts == [i \in DOMAIN c.tensors |-> StoredTensor(c.tensors[i])]
           S == Seq(Fields)
<1>1. /\ c.header \in Seq(Nat) /\ Len(c.header) = 4
      /\ p \in Nat /\ DOMAIN c.pairs = 1..p
      /\ \A i \in 1..p : c.pairs[i] \in [key : Nat, value : FileValues]
      /\ t \in Nat /\ DOMAIN c.tensors = 1..t
      /\ \A i \in 1..t : c.tensors[i] \in FileTensors
  BY ItemsIn DEF Content
<1>2. r = (head \o ps) \o ts
  BY Zenon DEF Records
<1>3. head \in Seq(S) /\ Len(head) = 1 /\ head[1] = StoredHeader(c.header)
  <2>1. StoredHeader(c.header) \in S
    BY <1>1, HeaderStored
  <2> HIDE DEF S
  <2> QED
    BY <2>1
<1>4. ps \in Seq(S) /\ Len(ps) = p /\ \A i \in 1..p : ps[i] = StoredPair(c.pairs[i])
  <2>1. ps = [i \in 1..p |-> ps[i]] /\ \A i \in 1..p : ps[i] = StoredPair(c.pairs[i])
    BY <1>1
  <2>2. \A i \in 1..p : StoredPair(c.pairs[i]) \in S
    BY <1>1, PairStored
  <2> HIDE DEF ps, S, p
  <2> QED
    BY <1>1, <2>1, <2>2, Enumerated
<1>5. ts \in Seq(S) /\ Len(ts) = t /\ \A i \in 1..t : ts[i] = StoredTensor(c.tensors[i])
  <2>1. ts = [i \in 1..t |-> ts[i]] /\ \A i \in 1..t : ts[i] = StoredTensor(c.tensors[i])
    BY <1>1
  <2>2. \A i \in 1..t : StoredTensor(c.tensors[i]) \in S
    BY <1>1, TensorStored
  <2> HIDE DEF ts, S, t
  <2> QED
    BY <1>1, <2>1, <2>2, Enumerated
<1> DEFINE top == head \o ps
<1>6. /\ top \in Seq(S) /\ Len(top) = 1 + p /\ top[1] = head[1]
      /\ \A i \in 1..p : top[1 + i] = ps[i]
  <2>1. head \in Seq(S) /\ ps \in Seq(S) /\ top = head \o ps
    BY <1>3, <1>4
  <2> HIDE DEF head, ps, top, S
  <2>2. /\ top \in Seq(S) /\ Len(top) = Len(head) + Len(ps)
        /\ \A i \in 1..Len(head) : top[i] = head[i]
        /\ \A i \in 1..Len(ps) : top[Len(head) + i] = ps[i]
    BY ONLY <2>1, AfterAnother
  <2>3. Len(head) = 1 /\ Len(ps) = p /\ 1 \in 1..1
    BY <1>3, <1>4
  <2> QED
    BY ONLY <2>2, <2>3
<1>7. /\ r \in Seq(S) /\ Len(r) = (1 + p) + t
      /\ \A i \in 1..(1 + p) : r[i] = top[i]
      /\ \A i \in 1..t : r[(1 + p) + i] = ts[i]
  <2>1. top \in Seq(S) /\ ts \in Seq(S) /\ r = top \o ts
    BY <1>2, <1>5, <1>6
  <2> HIDE DEF r, ts, top, S
  <2>2. /\ r \in Seq(S) /\ Len(r) = Len(top) + Len(ts)
        /\ \A i \in 1..Len(top) : r[i] = top[i]
        /\ \A i \in 1..Len(ts) : r[Len(top) + i] = ts[i]
    BY ONLY <2>1, AfterAnother
  <2>3. Len(top) = 1 + p /\ Len(ts) = t
    BY <1>5, <1>6
  <2> QED
    BY ONLY <2>2, <2>3
<1> HIDE DEF r, p, t, head, ps, ts, top, S
<1>8. 1 \in 1..(1 + p) /\ \A i \in 1..p : 1 + i \in 1..(1 + p)
  BY <1>1
<1>9. r[1] = StoredHeader(c.header) /\ \A i \in 1..p : r[1 + i] = StoredPair(c.pairs[i])
  BY <1>3, <1>4, <1>6, <1>7, <1>8
<1>10. \A i \in 1..t : r[1 + p + i] = StoredTensor(c.tensors[i])
  BY <1>5, <1>7
<1> QED
  BY <1>1, <1>7, <1>9, <1>10 DEF r, p, t, S

LEMMA StoredIsJoined == ASSUME NEW c PROVE Stored(c) = JoinOf(Records(c))
BY Zenon DEF Stored, InARow, JoinOf

\* The bytes of each field, and of each record.
FieldSizes(s)  == [j \in 1..Len(s) |-> Width(s[j])]
RecordSizes(r) == [i \in 1..Len(r) |-> SumOf(FieldSizes(r[i]), 1..Len(r[i]))]

\* The bytes of n records and the first k fields of the next one.
BytesAt(r, n, k) == SumOf(RecordSizes(r), 1..n) + SumOf(FieldSizes(r[n + 1]), 1..k)

TotalBytes(r) == SumOf(RecordSizes(r), 1..Len(r))

LEMMA WidthTyped == ASSUME NEW f \in Fields PROVE Width(f) \in Nat
BY DEF Width, Fields, FieldKinds

LEMMA FieldsSized ==
  ASSUME NEW s \in Seq(Fields)
  PROVE  /\ IntValued(FieldSizes(s), 1..Len(s)) /\ SumOf(FieldSizes(s), {}) = 0
         /\ \A k \in 0..Len(s) : SumOf(FieldSizes(s), 1..k) \in Nat
         /\ \A k \in Nat : k < Len(s) =>
              SumOf(FieldSizes(s), 1..(k + 1)) = SumOf(FieldSizes(s), 1..k) + Width(s[k + 1])
<1> DEFINE f == FieldSizes(s)
           n == Len(s)
<1>1. n \in Nat /\ \A j \in 1..n : s[j] \in Fields
  BY ItemsIn
<1>2. \A j \in 1..n : f[j] = Width(s[j]) /\ Width(s[j]) \in Nat
  BY <1>1, WidthTyped DEF FieldSizes
<1>3. f \in [1..n -> Nat]
  <2>1. f = [j \in 1..n |-> Width(s[j])]
    BY DEF FieldSizes
  <2> QED
    BY <1>2, <2>1
<1> HIDE DEF f, n
<1>4. NatValued(f, 1..n) /\ IntValued(f, 1..n)
  <2>1. IsFiniteSet(1..n)
    BY <1>1, FS_Interval
  <2>2. f \in [1..n -> Int]
    BY <1>3
  <2> QED
    BY <1>3, <2>1, <2>2 DEF NatValued, IntValued
<1>5. SumOf(f, {}) = 0
  BY <1>4, SumAdds
<1>6. \A k \in 0..n : SumOf(f, 1..k) \in Nat
  <2> SUFFICES ASSUME NEW k \in 0..n PROVE SumOf(f, 1..k) \in Nat
    OBVIOUS
  <2>1. 1..k \in SUBSET (1..n)
    BY <1>1
  <2>2. {} \in SUBSET (1..k)
    OBVIOUS
  <2> QED
    BY <1>4, <2>1, <2>2, SumGrows
<1>7. ASSUME NEW k \in Nat, k < n PROVE SumOf(f, 1..(k + 1)) = SumOf(f, 1..k) + Width(s[k + 1])
  <2>1. k + 1 \in 1..n /\ (k + 1) - 1 = k /\ k \in 0..n
    BY <1>1, <1>7
  <2>2. SumOf(f, 1..(k + 1)) = f[k + 1] + SumOf(f, 1..((k + 1) - 1))
    BY <1>1, <1>4, <2>1, SumStep
  <2>3. f[k + 1] = Width(s[k + 1]) /\ Width(s[k + 1]) \in Nat /\ SumOf(f, 1..k) \in Nat
    BY <1>2, <1>6, <2>1
  <2> QED
    BY <2>1, <2>2, <2>3
<1> QED
  BY <1>4, <1>5, <1>6, <1>7 DEF f, n

LEMMA RecordsSized ==
  ASSUME NEW r \in Seq(Seq(Fields))
  PROVE  /\ IntValued(RecordSizes(r), 1..Len(r)) /\ SumOf(RecordSizes(r), {}) = 0
         /\ \A n \in 0..Len(r) : SumOf(RecordSizes(r), 1..n) \in Nat
         /\ \A n \in Nat : n < Len(r) =>
              SumOf(RecordSizes(r), 1..(n + 1)) =
                SumOf(RecordSizes(r), 1..n) + SumOf(FieldSizes(r[n + 1]), 1..Len(r[n + 1]))
<1> DEFINE f == RecordSizes(r)
           n == Len(r)
           S == Seq(Fields)
           size(s) == SumOf(FieldSizes(s), 1..Len(s))
<1>1. n \in Nat /\ \A j \in 1..n : r[j] \in S
  <2> HIDE DEF S
  <2> QED
    BY ItemsIn DEF S
<1>2. \A j \in 1..n : f[j] = size(r[j]) /\ size(r[j]) \in Nat
  <2> SUFFICES ASSUME NEW j \in 1..n PROVE f[j] = size(r[j]) /\ size(r[j]) \in Nat
    OBVIOUS
  <2>1. r[j] \in Seq(Fields)
    BY <1>1
  <2>2. Len(r[j]) \in 0..Len(r[j])
    BY <2>1, ItemsIn
  <2>3. size(r[j]) \in Nat
    BY <2>1, <2>2, FieldsSized
  <2>4. f[j] = size(r[j])
    BY DEF RecordSizes
  <2> QED
    BY <2>3, <2>4
<1>3. f \in [1..n -> Nat]
  <2>1. f = [j \in 1..n |-> size(r[j])]
    BY DEF RecordSizes
  <2> HIDE DEF size, f
  <2> QED
    BY <1>2, <2>1
<1> HIDE DEF f, n, S, size
<1>4. NatValued(f, 1..n) /\ IntValued(f, 1..n)
  <2>1. IsFiniteSet(1..n)
    BY <1>1, FS_Interval
  <2>2. f \in [1..n -> Int]
    BY <1>3
  <2> QED
    BY <1>3, <2>1, <2>2 DEF NatValued, IntValued
<1>5. SumOf(f, {}) = 0
  BY <1>4, SumAdds
<1>6. \A k \in 0..n : SumOf(f, 1..k) \in Nat
  <2> SUFFICES ASSUME NEW k \in 0..n PROVE SumOf(f, 1..k) \in Nat
    OBVIOUS
  <2>1. 1..k \in SUBSET (1..n)
    BY <1>1
  <2>2. {} \in SUBSET (1..k)
    OBVIOUS
  <2> QED
    BY <1>4, <2>1, <2>2, SumGrows
<1>7. ASSUME NEW k \in Nat, k < n PROVE SumOf(f, 1..(k + 1)) = SumOf(f, 1..k) + size(r[k + 1])
  <2>1. k + 1 \in 1..n /\ (k + 1) - 1 = k /\ k \in 0..n
    BY <1>1, <1>7
  <2>2. SumOf(f, 1..(k + 1)) = f[k + 1] + SumOf(f, 1..((k + 1) - 1))
    BY <1>1, <1>4, <2>1, SumStep
  <2>3. f[k + 1] = size(r[k + 1]) /\ size(r[k + 1]) \in Nat /\ SumOf(f, 1..k) \in Nat
    BY <1>2, <1>6, <2>1
  <2> QED
    BY <2>1, <2>2, <2>3
<1> QED
  BY <1>4, <1>5, <1>6, <1>7 DEF f, n, size

-----------------------------------------------------------------------------
(***************************************************************************)
(* The types.                                                              *)
(***************************************************************************)
TypedMetadata(m) ==
  /\ m = [k \in DOMAIN m |-> m[k]]
  /\ IsFiniteSet(DOMAIN m) /\ DOMAIN m \subseteq Nat
  /\ \A k \in DOMAIN m : m[k] \in ParsedValues

Outcome(r) ==
  \/ \E s \in {"none", "refused", "astray"} : r = [status |-> s]
  \/ /\ r.status = "parsed"
     /\ r.header \in Seq(Nat) /\ Len(r.header) = 4
     /\ TypedMetadata(r.metadata) /\ r.tensors \in Seq(Entries) /\ r.dataOffset \in Nat

\* What was not refused of a record that is being read.
InRecord ==
  /\ at = "pair" /\ Len(got) > 1 => got[2] \in 0..12
  /\ at = "pair" /\ Len(got) > 3 /\ got[4] > 0 => got[3] \in DOMAIN Kinds
  /\ at = "tensor" /\ Len(got) > 2 /\ Len(got) > 2 + got[2] => got[3 + got[2]] \in GgmlTypes
  /\ at \in {"pair", "tensor", "parsed"} => Len(header) = 4

ReaderTypes ==
  /\ fields \in Seq(Fields)
  /\ at \in {"header", "pair", "tensor", "parsed", "refused", "astray"}
  /\ got \in Seq(Nat) /\ pos \in 0..Len(fields) /\ bytes \in Nat
  /\ header \in Seq(Nat) /\ pairsRead \in Nat
  /\ TypedMetadata(metadata) /\ tensors \in Seq(Entries)
  /\ InRecord

FileTypes ==
  /\ complete \in BOOLEAN /\ ggufStage \in {"fetched", "parsed", "written", "done"}
  /\ Content(original) /\ Counted(original)
  /\ Outcome(first) /\ Outcome(second)

GTypes == ReaderTypes /\ FileTypes

LEMMA OutcomeStatus ==
  ASSUME NEW r, Outcome(r) PROVE r.status \in {"none", "parsed", "refused", "astray"}
BY DEF Outcome

LEMMA GTypesAreTypes == ASSUME GTypes PROVE GgufTypeOK
<1>1. [kind : {"byte", "short", "word", "long", "text"}, val : Nat] = Fields
  BY DEF Fields, FieldKinds
<1>2. [name : Nat, dims : Seq(Nat), type : GgmlTypes, offset : Nat] = Entries
  BY DEF Entries
<1>3. {first.status, second.status} \subseteq {"none", "parsed", "refused", "astray"}
  BY OutcomeStatus DEF GTypes, FileTypes
<1> QED
  BY <1>1, <1>2, <1>3, Zenon DEF GTypes, ReaderTypes, FileTypes, TypedMetadata, GgufTypeOK

\* The next field is read.
LEMMA TakenTyped ==
  ASSUME GTypes, NEW rec \in {"header", "pair", "tensor"}, Takes(rec)
  PROVE  /\ Got \in Seq(Nat) /\ Len(Got) = Len(got) + 1 /\ Len(got) \in Nat
         /\ \A i \in 1..Len(got) : Got[i] = got[i]
         /\ Got[Len(got) + 1] = fields[pos + 1].val
         /\ fields' \in Seq(Fields) /\ pos' \in 0..Len(fields') /\ bytes' \in Nat
         /\ at = rec /\ fields[pos + 1] \in Fields /\ FileTypes'
<1>1. /\ fields \in Seq(Fields) /\ got \in Seq(Nat) /\ pos \in 0..Len(fields) /\ bytes \in Nat
  BY DEF GTypes, ReaderTypes
<1>2. /\ pos < Len(fields) /\ pos' = pos + 1 /\ bytes' = bytes + Width(fields[pos + 1])
      /\ UNCHANGED fileVars /\ at = rec
  BY DEF Takes
<1>3. fields' = fields
  BY <1>2 DEF fileVars
<1>4. fields[pos + 1] \in Fields
  <2>1. pos + 1 \in 1..Len(fields)
    BY <1>1, <1>2
  <2> QED
    BY <1>1, <2>1, ItemsIn
<1>5. Width(fields[pos + 1]) \in Nat /\ fields[pos + 1].val \in Nat
  <2>1. fields[pos + 1].val \in Nat
    BY <1>4 DEF Fields
  <2> QED
    BY <1>4, <2>1, WidthTyped
<1>6. /\ Got \in Seq(Nat) /\ Len(Got) = Len(got) + 1 /\ Len(got) \in Nat
      /\ \A i \in 1..Len(got) : Got[i] = got[i]
      /\ Got[Len(got) + 1] = fields[pos + 1].val
  BY <1>1, <1>5 DEF Got
<1>7. pos' \in 0..Len(fields') /\ bytes' \in Nat
  <2>1. Len(fields) \in Nat
    BY <1>1
  <2> DEFINE n == Len(fields)
  <2>2. n \in Nat /\ pos \in 0..n /\ pos < n
    BY <1>1, <1>2, <2>1
  <2> HIDE DEF n
  <2>3. pos + 1 \in 0..n
    BY <2>2
  <2> QED
    BY <1>1, <1>2, <1>3, <1>5, <2>3 DEF n
<1>8. FileTypes'
  <2>1. FileTypes /\ UNCHANGED <<original, complete, ggufStage, first, second>>
    BY <1>2 DEF GTypes, fileVars
  <2> QED
    BY <2>1, Zenon DEF FileTypes
<1> QED
  BY <1>1, <1>2, <1>3, <1>4, <1>6, <1>7, <1>8

\* A record is whole, and the next one begins.
LEMMA NextRecordTyped ==
  ASSUME NextRecord, Len(header') = 4
  PROVE  /\ got' \in Seq(Nat) /\ at' \in {"pair", "tensor", "parsed"}
         /\ InRecord'
<1>1. got' = <<>> /\ at' \in {"pair", "tensor", "parsed"}
  BY DEF NextRecord
<1>2. Len(got') = 0 /\ got' \in Seq(Nat)
  BY <1>1
<1>3. ~(Len(got') > 1) /\ ~(Len(got') > 2) /\ ~(Len(got') > 3)
  BY ONLY <1>2
<1>4. InRecord'
  BY <1>3 DEF InRecord
<1> QED
  BY <1>1, <1>2, <1>4

LEMMA HeaderTyped == ASSUME GTypes, ReadHeader PROVE GTypes'
<1>1. Takes("header")
  BY DEF ReadHeader
<1>2. /\ Got \in Seq(Nat) /\ fields' \in Seq(Fields) /\ pos' \in 0..Len(fields') /\ bytes' \in Nat
      /\ at = "header" /\ FileTypes'
  BY <1>1, TakenTyped
<1>3. /\ got \in Seq(Nat) /\ header \in Seq(Nat) /\ pairsRead \in Nat
      /\ TypedMetadata(metadata) /\ tensors \in Seq(Entries)
  BY DEF GTypes, ReaderTypes
<1>4. CASE BadHeader(Got) /\ Refused
  <2>1. at' = "refused" /\ UNCHANGED <<got, header, pairsRead, metadata, tensors>>
    BY <1>4 DEF Refused, parsedVars
  <2>2. InRecord'
    BY <2>1 DEF InRecord
  <2> QED
    BY <1>2, <1>3, <2>1, <2>2, Zenon DEF GTypes, ReaderTypes
<1>5. CASE GoesOn
  <2>1. at' = "header" /\ got' = Got /\ UNCHANGED <<header, pairsRead, metadata, tensors>>
    BY <1>2, <1>5 DEF GoesOn, parsedVars
  <2>2. InRecord'
    BY <2>1 DEF InRecord
  <2> QED
    BY <1>2, <1>3, <2>1, <2>2, Zenon DEF GTypes, ReaderTypes
<1>6. CASE /\ Len(Got) = 4 /\ header' = Got /\ UNCHANGED <<pairsRead, metadata, tensors>>
           /\ NextRecord
  <2>1. header' \in Seq(Nat) /\ Len(header') = 4
    BY <1>2, <1>6
  <2>2. got' \in Seq(Nat) /\ at' \in {"pair", "tensor", "parsed"} /\ InRecord'
    BY <1>6, <2>1, NextRecordTyped
  <2>3. UNCHANGED <<pairsRead, metadata, tensors>>
    BY <1>6
  <2>4. at' \in {"header", "pair", "tensor", "parsed", "refused", "astray"}
    BY <2>2
  <2> QED
    BY <1>2, <1>3, <2>1, <2>2, <2>3, <2>4, Zenon DEF GTypes, ReaderTypes
<1> QED
  BY <1>4, <1>5, <1>6, Zenon DEF ReadHeader

LEMMA ScalarTyped ==
  ASSUME NEW tag \in DOMAIN Kinds, NEW n \in Nat
  PROVE  Scalar(tag, n) \in Scalars /\ Scalar(tag, n).tag = tag
<1>1. (IF tag = 7 /\ n > 0 THEN 1 ELSE n) \in Nat
  OBVIOUS
<1> QED
  BY <1>1 DEF Scalar, Scalars

LEMMA PairTyped == ASSUME GTypes, ReadPair PROVE GTypes'
<1>1. Takes("pair")
  BY DEF ReadPair
<1>2. /\ Got \in Seq(Nat) /\ fields' \in Seq(Fields) /\ pos' \in 0..Len(fields') /\ bytes' \in Nat
      /\ at = "pair" /\ FileTypes'
  BY <1>1, TakenTyped
<1>3. /\ got \in Seq(Nat) /\ header \in Seq(Nat) /\ pairsRead \in Nat
      /\ TypedMetadata(metadata) /\ tensors \in Seq(Entries) /\ InRecord
  BY DEF GTypes, ReaderTypes
<1>4. /\ Len(Got) = Len(got) + 1 /\ Len(got) \in Nat /\ Len(Got) \in Nat
      /\ \A i \in 1..Len(got) : Got[i] = got[i]
  <2>1. /\ Len(Got) = Len(got) + 1 /\ Len(got) \in Nat
        /\ \A i \in 1..Len(got) : Got[i] = got[i]
    BY <1>1, TakenTyped
  <2> QED
    BY <2>1
<1>5. Len(header) = 4
  BY <1>2, <1>3 DEF InRecord
<1> DEFINE k == Len(got)
           m == Len(Got)
<1>6. ~BadPair(Got) => /\ m > 1 => Got[2] \in 0..12
                       /\ m > 3 /\ Got[4] > 0 => Got[3] \in DOMAIN Kinds
  <2> SUFFICES ASSUME ~BadPair(Got)
               PROVE  /\ m > 1 => Got[2] \in 0..12
                      /\ m > 3 /\ Got[4] > 0 => Got[3] \in DOMAIN Kinds
    OBVIOUS
  <2>1. k > 1 => Got[2] \in 0..12
    <3>1. k > 1 => got[2] \in 0..12 /\ 2 \in 1..k
      BY <1>2, <1>3 DEF InRecord
    <3> HIDE DEF k
    <3> QED
      BY <1>4, <3>1 DEF k
  <2>2. m = 2 => Got[2] \in 0..12
    <3>1. m = 2 => ~(Got[2] > 12)
      BY DEF BadPair
    <3>2. m = 2 => 2 \in 1..m
      OBVIOUS
    <3>3. m = 2 => Got[2] \in Nat
      BY <1>2, <3>2, ItemsIn
    <3> HIDE DEF m
    <3> QED
      BY <3>1, <3>3
  <2>3. k > 3 /\ Got[4] > 0 => Got[3] \in DOMAIN Kinds
    <3>1. k > 3 /\ got[4] > 0 => got[3] \in DOMAIN Kinds
      BY <1>2, <1>3 DEF InRecord
    <3>2. k > 3 => 3 \in 1..k /\ 4 \in 1..k
      OBVIOUS
    <3>3. k > 3 => Got[3] = got[3] /\ Got[4] = got[4]
      BY <1>4, <3>2
    <3> HIDE DEF k
    <3> QED
      BY <3>1, <3>3
  <2>4. m = 4 /\ Got[4] > 0 => Got[3] \in DOMAIN Kinds
    BY DEF BadPair
  <2>5. m = k + 1 /\ k \in Nat
    BY <1>4
  <2> HIDE DEF k, m
  <2>6. (m > 1 => k > 1 \/ m = 2) /\ (m > 3 => k > 3 \/ m = 4)
    BY <2>5
  <2> QED
    BY <2>1, <2>2, <2>3, <2>4, <2>6
<1>7. CASE BadPair(Got) /\ Refused
  <2>1. at' = "refused" /\ UNCHANGED <<got, header, pairsRead, metadata, tensors>>
    BY <1>7 DEF Refused, parsedVars
  <2>2. InRecord'
    BY <2>1 DEF InRecord
  <2> QED
    BY <1>2, <1>3, <2>1, <2>2, Zenon DEF GTypes, ReaderTypes
<1>8. CASE ~BadPair(Got) /\ ~PairWhole(Got) /\ GoesOn
  <2>1. at' = "pair" /\ got' = Got /\ UNCHANGED <<header, pairsRead, metadata, tensors>>
    BY <1>2, <1>8 DEF GoesOn, parsedVars
  <2>2. InRecord'
    <3>1. /\ m > 1 => Got[2] \in 0..12
          /\ m > 3 /\ Got[4] > 0 => Got[3] \in DOMAIN Kinds
      BY <1>6, <1>8
    <3>2. Len(header') = 4
      BY <1>5, <2>1
    <3>3. at' # "tensor"
      BY <2>1
    <3> QED
      BY <2>1, <3>1, <3>2, <3>3, Zenon DEF InRecord
  <2> QED
    BY <1>2, <1>3, <2>1, <2>2, Zenon DEF GTypes, ReaderTypes
<1>9. CASE /\ ~BadPair(Got) /\ PairWhole(Got)
           /\ metadata' = [x \in DOMAIN metadata \cup {Got[1]} |->
                             IF x = Got[1] THEN ValueOf(Got) ELSE metadata[x]]
           /\ pairsRead' = pairsRead + 1 /\ UNCHANGED <<header, tensors>> /\ NextRecord
  <2>1. header' \in Seq(Nat) /\ Len(header') = 4 /\ tensors' \in Seq(Entries)
    BY <1>3, <1>5, <1>9
  <2>2. got' \in Seq(Nat) /\ at' \in {"pair", "tensor", "parsed"} /\ InRecord'
    BY <1>9, <2>1, NextRecordTyped
  <2>3. pairsRead' \in Nat
    BY <1>3, <1>9
  <2>4. m > 2 /\ (Got[2] # 9 => m = 3) /\ (Got[2] = 9 => m > 3 /\ m = 4 + Got[4])
    <3>1. PairWhole(Got)
      BY <1>9
    <3> QED
      BY ONLY <3>1 DEF PairWhole
  <2>5. Got[1] \in Nat /\ Got[2] \in 0..12 /\ Got[3] \in Nat
    <3>1. m \in Nat /\ m > 2
      BY <1>4, <2>4
    <3> HIDE DEF m
    <3>2. 1 \in 1..m /\ 2 \in 1..m /\ 3 \in 1..m /\ m > 1
      BY ONLY <3>1
    <3>3. Got[2] \in 0..12
      BY <1>6, <1>9, <3>2
    <3> QED
      BY <1>2, <3>2, <3>3, ItemsIn DEF m
  <2>6. ValueOf(Got) \in ParsedValues
    <3>1. CASE Got[2] # 9
      <4>1. ValueOf(Got) = Scalar(Got[2], Got[3])
        BY <3>1 DEF ValueOf
      <4>2. Got[2] \in DOMAIN Kinds
        BY <2>5, <3>1, KindsTyped
      <4> QED
        BY <2>5, <4>1, <4>2, ScalarTyped DEF ParsedValues
    <3>2. CASE Got[2] = 9
      <4> DEFINE items == [i \in 1..Got[4] |-> Scalar(Got[3], Got[4 + i])]
                 n == Got[4]
      <4>1. ValueOf(Got) = [tag |-> 9, items |-> items]
        BY <3>2 DEF ValueOf
      <4>2. m > 3 /\ m = 4 + n /\ n \in Nat /\ \A i \in 1..n : Got[4 + i] \in Nat
        <5>1. m > 3 /\ m = 4 + n /\ m \in Nat
          BY <1>4, <2>4, <3>2
        <5> HIDE DEF m
        <5>2. 4 \in 1..m
          BY ONLY <5>1
        <5>3. n \in Nat
          BY <1>2, <5>2, ItemsIn DEF m
        <5> HIDE DEF n
        <5>4. \A i \in 1..n : 4 + i \in 1..m
          BY ONLY <5>1, <5>3
        <5> QED
          BY <1>2, <5>1, <5>3, <5>4, ItemsIn DEF m
      <4>3. \A i \in 1..n : Scalar(Got[3], Got[4 + i]) \in Scalars
        <5> SUFFICES ASSUME NEW i \in 1..n PROVE Scalar(Got[3], Got[4 + i]) \in Scalars
          OBVIOUS
        <5>1. n > 0
          BY <4>2
        <5>2. Got[3] \in DOMAIN Kinds /\ Got[4 + i] \in Nat
          BY <1>6, <1>9, <4>2, <5>1
        <5> QED
          BY <5>2, ScalarTyped
      <4>4. items \in Seq(Scalars)
        <5>1. items = [i \in 1..n |-> items[i]] /\ \A i \in 1..n : items[i] = Scalar(Got[3], Got[4 + i])
          OBVIOUS
        <5> HIDE DEF items, n
        <5> QED
          BY <4>2, <4>3, <5>1, Enumerated
      <4> HIDE DEF items
      <4> QED
        BY <4>1, <4>4 DEF ParsedValues
    <3> QED
      BY <3>1, <3>2
  <2>7. TypedMetadata(metadata')
    <3>1. TypedMetadata(metadata)
      BY <1>3
    <3> DEFINE D == DOMAIN metadata \cup {Got[1]}
               w == ValueOf(Got)
               v == [x \in D |-> IF x = Got[1] THEN w ELSE metadata[x]]
    <3>2. metadata' = v
      BY <1>9
    <3>3. IsFiniteSet(D) /\ D \subseteq Nat
      BY <2>5, <3>1, FS_AddElement DEF TypedMetadata
    <3>4. DOMAIN v = D /\ v = [x \in DOMAIN v |-> v[x]]
      OBVIOUS
    <3>5. \A x \in D : v[x] \in ParsedValues
      <4> HIDE DEF w
      <4> QED
        BY <2>6, <3>1 DEF TypedMetadata, w
    <3>6. TypedMetadata(v)
      <4> HIDE DEF v, D
      <4> QED
        BY <3>3, <3>4, <3>5 DEF TypedMetadata
    <3> HIDE DEF v
    <3> QED
      BY <3>2, <3>6
  <2>8. at' \in {"header", "pair", "tensor", "parsed", "refused", "astray"}
    BY <2>2
  <2> QED
    BY <1>2, <2>1, <2>2, <2>3, <2>7, <2>8, Zenon DEF GTypes, ReaderTypes, TypedMetadata
<1> QED
  BY <1>7, <1>8, <1>9, Zenon DEF ReadPair

LEMMA TensorTyped == ASSUME GTypes, ReadTensor PROVE GTypes'
<1>1. Takes("tensor")
  BY DEF ReadTensor
<1>2. /\ Got \in Seq(Nat) /\ fields' \in Seq(Fields) /\ pos' \in 0..Len(fields') /\ bytes' \in Nat
      /\ at = "tensor" /\ FileTypes'
  BY <1>1, TakenTyped
<1>3. /\ got \in Seq(Nat) /\ header \in Seq(Nat) /\ pairsRead \in Nat
      /\ TypedMetadata(metadata) /\ tensors \in Seq(Entries) /\ InRecord
  BY DEF GTypes, ReaderTypes
<1>4. /\ Len(Got) = Len(got) + 1 /\ Len(got) \in Nat /\ Len(Got) \in Nat
      /\ \A i \in 1..Len(got) : Got[i] = got[i]
  <2>1. /\ Len(Got) = Len(got) + 1 /\ Len(got) \in Nat
        /\ \A i \in 1..Len(got) : Got[i] = got[i]
    BY <1>1, TakenTyped
  <2> QED
    BY <2>1
<1>5. Len(header) = 4
  BY <1>2, <1>3 DEF InRecord
<1> DEFINE k == Len(got)
           m == Len(Got)
           n == Got[2]
<1>0. m > 1 => n \in Nat
  <2>1. m > 1 => 2 \in 1..m
    BY <1>4
  <2> HIDE DEF m
  <2> QED
    BY <1>2, <2>1, ItemsIn DEF m
<1>6. ~BadTensor(Got) /\ m > 2 /\ m > 2 + n => Got[3 + n] \in GgmlTypes
  <2> SUFFICES ASSUME ~BadTensor(Got), m > 2, m > 2 + n PROVE Got[3 + n] \in GgmlTypes
    OBVIOUS
  <2>1. ~(m = 3 + n) \/ Got[m] \in GgmlTypes
    BY DEF BadTensor
  <2>2. k > 1 /\ m = k + 1 /\ n \in Nat /\ k \in Nat
    <3> HIDE DEF k, m, n
    <3> QED
      BY <1>0, <1>4 DEF k, m
  <2>3. got[2] = n
    <3> HIDE DEF k
    <3>1. 2 \in 1..k
      BY <2>2
    <3> QED
      BY <1>4, <3>1 DEF k
  <2>4. CASE k > 2 + n
    <3>1. k > 2
      <4> HIDE DEF k, n, m
      <4> QED
        BY <2>2, <2>4
    <3>2. got[3 + n] \in GgmlTypes
      BY <1>2, <1>3, <2>3, <2>4, <3>1 DEF InRecord
    <3>3. 3 + n \in 1..k
      <4> HIDE DEF k, n, m
      <4> QED
        BY <2>2, <2>4
    <3>4. Got[3 + n] = got[3 + n]
      BY <1>4, <3>3
    <3> QED
      BY <3>2, <3>4
  <2>5. CASE ~(k > 2 + n)
    <3>1. m = 3 + n
      <4> HIDE DEF k, n, m
      <4> QED
        BY <2>2, <2>5
    <3> HIDE DEF m, n
    <3> QED
      BY <2>1, <3>1
  <2> QED
    BY <2>4, <2>5
<1>7. CASE BadTensor(Got) /\ Refused
  <2>1. at' = "refused" /\ UNCHANGED <<got, header, pairsRead, metadata, tensors>>
    BY <1>7 DEF Refused, parsedVars
  <2>2. InRecord'
    BY <2>1 DEF InRecord
  <2> QED
    BY <1>2, <1>3, <2>1, <2>2, Zenon DEF GTypes, ReaderTypes
<1>8. CASE ~BadTensor(Got) /\ ~TensorWhole(Got) /\ GoesOn
  <2>1. at' = "tensor" /\ got' = Got /\ UNCHANGED <<header, pairsRead, metadata, tensors>>
    BY <1>2, <1>8 DEF GoesOn, parsedVars
  <2>2. InRecord'
    <3>1. m > 2 /\ m > 2 + n => Got[3 + n] \in GgmlTypes
      BY <1>6, <1>8
    <3>2. Len(header') = 4
      BY <1>5, <2>1
    <3>3. at' # "pair"
      BY <2>1
    <3> QED
      BY <2>1, <3>1, <3>2, <3>3, Zenon DEF InRecord
  <2> QED
    BY <1>2, <1>3, <2>1, <2>2, Zenon DEF GTypes, ReaderTypes
<1>9. CASE /\ TensorWhole(Got) /\ tensors' = Append(tensors, TensorOf(Got))
           /\ UNCHANGED <<header, pairsRead, metadata>> /\ NextRecord
  <2>1. header' \in Seq(Nat) /\ Len(header') = 4 /\ pairsRead' \in Nat /\ TypedMetadata(metadata')
    BY <1>3, <1>5, <1>9
  <2>2. got' \in Seq(Nat) /\ at' \in {"pair", "tensor", "parsed"} /\ InRecord'
    BY <1>9, <2>1, NextRecordTyped
  <2>3. m > 3 /\ m = 4 + n /\ m \in Nat
    <3>1. TensorWhole(Got)
      BY <1>9
    <3> QED
      BY <1>4, <3>1 DEF TensorWhole
  <2>4. n \in Nat /\ m > 2 + n /\ m # 3 + n /\ m > 2 /\ k > 2 + n /\ k > 2
    <3>1. m = k + 1 /\ k \in Nat
      BY <1>4
    <3> HIDE DEF k, n, m
    <3> QED
      BY <1>0, <2>3, <3>1
  <2>5. Got[3 + n] \in GgmlTypes
    <3>1. ~BadTensor(Got)
      BY <2>4 DEF BadTensor
    <3> QED
      BY <1>6, <2>4, <3>1
  <2>6. /\ Got[1] \in Nat /\ Got[4 + n] \in Nat /\ \A i \in 1..n : Got[2 + i] \in Nat
    <3> HIDE DEF n, m
    <3>1. 1 \in 1..m /\ 4 + n \in 1..m /\ \A i \in 1..n : 2 + i \in 1..m
      BY <2>3, <2>4
    <3> QED
      BY <1>2, <3>1, ItemsIn DEF m
  <2>7. TensorOf(Got) \in Entries
    <3> DEFINE dims == [i \in 1..n |-> Got[2 + i]]
    <3>1. dims \in Seq(Nat)
      <4>1. dims = [i \in 1..n |-> dims[i]] /\ \A i \in 1..n : dims[i] = Got[2 + i]
        OBVIOUS
      <4> HIDE DEF dims, n
      <4>2. \A i \in 1..n : dims[i] \in Nat
        BY <2>6, <4>1
      <4>3. n \in Nat
        BY <2>4
      <4> QED
        BY ONLY <4>1, <4>2, <4>3, Enumerated
    <3>2. TensorOf(Got) =
            [name |-> Got[1], dims |-> dims, type |-> Got[3 + n], offset |-> Got[4 + n]]
      BY DEF TensorOf
    <3> HIDE DEF dims, n
    <3> QED
      BY <2>5, <2>6, <3>1, <3>2 DEF Entries
  <2>8. tensors' \in Seq(Entries)
    <3> DEFINE e == TensorOf(Got)
    <3> HIDE DEF e
    <3> QED
      BY <1>3, <1>9, <2>7 DEF e
  <2>9. at' \in {"header", "pair", "tensor", "parsed", "refused", "astray"}
    BY <2>2
  <2> QED
    BY <1>2, <2>1, <2>2, <2>8, <2>9, Zenon DEF GTypes, ReaderTypes
<1> QED
  BY <1>7, <1>8, <1>9, Zenon DEF ReadTensor

LEMMA StopTyped == ASSUME GTypes, EndOfFile \/ GoAstray PROVE GTypes'
<1>1. /\ at' \in {"refused", "astray"}
      /\ UNCHANGED <<original, complete, fields, ggufStage, first, second, got, pos, bytes,
                     header, pairsRead, metadata, tensors>>
  BY Zenon DEF EndOfFile, GoAstray, fileVars, parsedVars
<1>2. at' \in {"header", "pair", "tensor", "parsed", "refused", "astray"}
      /\ at' \notin {"pair", "tensor", "parsed"}
  BY <1>1
<1>3. InRecord'
  BY <1>2 DEF InRecord
<1>4. FileTypes'
  BY <1>1, Zenon DEF GTypes, FileTypes
<1> QED
  BY <1>1, <1>2, <1>3, <1>4, Zenon DEF GTypes, ReaderTypes

LEMMA ResultTyped == ASSUME GTypes, at \in {"parsed", "refused", "astray"} PROVE Outcome(Result)
<1>1. CASE at = "parsed"
  <2> DEFINE d == ((bytes + 31) \div 32) * 32
  <2>1. d \in Nat
    <3>1. bytes \in Nat
      BY DEF GTypes, ReaderTypes
    <3> QED
      BY <3>1
  <2> HIDE DEF d
  <2>2. Result = [status |-> "parsed", header |-> header, metadata |-> metadata,
                  tensors |-> tensors, dataOffset |-> d]
    BY <1>1 DEF Result, d
  <2>3. header \in Seq(Nat) /\ Len(header) = 4 /\ TypedMetadata(metadata) /\ tensors \in Seq(Entries)
    BY <1>1 DEF GTypes, ReaderTypes, InRecord
  <2> QED
    BY <2>1, <2>2, <2>3 DEF Outcome
<1>2. CASE at \in {"refused", "astray"}
  <2>1. Result = [status |-> at]
    BY <1>2 DEF Result
  <2> QED
    BY <1>2, <2>1 DEF Outcome
<1> QED
  BY <1>1, <1>2

LEMMA ReturnTyped == ASSUME GTypes, Return PROVE GTypes'
<1>1. /\ UNCHANGED <<original, complete, fields, at, got, pos, bytes,
                     header, pairsRead, metadata, tensors>>
      /\ at \in {"parsed", "refused", "astray"}
      /\ ggufStage' \in {"parsed", "done"}
      /\ first' \in {first, Result} /\ second' \in {second, Result}
  <2>1. CASE ggufStage' = "parsed" /\ first' = Result /\ UNCHANGED second
    BY <2>1, Zenon DEF Return, parsedVars
  <2>2. CASE ggufStage' = "done" /\ second' = Result /\ UNCHANGED first
    BY <2>2, Zenon DEF Return, parsedVars
  <2> QED
    BY <2>1, <2>2, Zenon DEF Return
<1>2. Outcome(Result) /\ Outcome(first) /\ Outcome(second)
  BY <1>1, ResultTyped DEF GTypes, FileTypes
<1>3. Outcome(first') /\ Outcome(second')
  BY <1>1, <1>2
<1>4. complete' \in BOOLEAN /\ Content(original') /\ Counted(original')
  BY <1>1, Zenon DEF GTypes, FileTypes
<1>5. ggufStage' \in {"fetched", "parsed", "written", "done"}
  BY <1>1
<1>6. FileTypes'
  BY <1>3, <1>4, <1>5 DEF FileTypes
<1>7. ReaderTypes'
  BY <1>1, Zenon DEF GTypes, ReaderTypes, InRecord
<1> QED
  BY <1>6, <1>7 DEF GTypes

-----------------------------------------------------------------------------
(***************************************************************************)
(* What is written.                                                        *)
(***************************************************************************)
\* Every key has its place among the sorted ones.
LEMMA KeysSorted ==
  ASSUME NEW K, IsFiniteSet(K), K \subseteq Nat
  PROVE  LET n == Cardinality(K)
             q == SortedKeys(K)
         IN  /\ n \in Nat /\ q \in Seq(Nat) /\ Len(q) = n /\ DOMAIN q = 1..n
             /\ \A i \in 1..n : q[i] \in K
             /\ \A k \in K : \E i \in 1..n : q[i] = k
             /\ \A i, j \in 1..n : q[i] = q[j] => i = j
<1> DEFINE n == Cardinality(K)
           q == SortedKeys(K)
           Below(k) == {j \in K : j < k}
           rank == [k \in K |-> Cardinality(Below(k)) + 1]
<1>1. n \in Nat
  BY FS_CardinalityType
<1>2. \A k \in K : Below(k) \in SUBSET K /\ k \notin Below(k)
  BY SMT
<1>3. \A k \in K : /\ IsFiniteSet(Below(k)) /\ Cardinality(Below(k)) \in Nat
                   /\ Cardinality(Below(k)) < n
  <2> SUFFICES ASSUME NEW k \in K
               PROVE  /\ IsFiniteSet(Below(k)) /\ Cardinality(Below(k)) \in Nat
                      /\ Cardinality(Below(k)) < n
    OBVIOUS
  <2>1. Below(k) \in SUBSET K /\ Below(k) # K
    BY <1>2
  <2> HIDE DEF Below
  <2>2. /\ IsFiniteSet(Below(k)) /\ Cardinality(Below(k)) <= Cardinality(K)
        /\ Cardinality(K) = Cardinality(Below(k)) => Below(k) = K
    BY <2>1, FS_Subset
  <2>3. Cardinality(Below(k)) \in Nat
    BY <2>2, FS_CardinalityType
  <2> QED
    BY <1>1, <2>1, <2>2, <2>3
<1>4. \A k \in K : rank[k] = Cardinality(Below(k)) + 1 /\ rank[k] \in 1..n
  <2>1. \A k \in K : rank[k] = Cardinality(Below(k)) + 1
    OBVIOUS
  <2> HIDE DEF rank, Below, n
  <2> QED
    BY <1>1, <1>3, <2>1
<1>5. ASSUME NEW k \in K, NEW l \in K, k < l PROVE rank[k] < rank[l]
  <2>0. k \in Nat /\ l \in Nat /\ \A j \in K : j \in Nat
    OBVIOUS
  <2>1. Below(k) \in SUBSET Below(l) /\ k \in Below(l) /\ k \notin Below(k)
    <3>1. \A j \in K : j < k => j < l
      BY <1>5, <2>0
    <3>2. ~(k < k)
      BY <2>0
    <3> QED
      BY <1>5, <3>1, <3>2, Zenon
  <2>2. Below(k) # Below(l)
    BY <2>1
  <2>3. IsFiniteSet(Below(l)) /\ Cardinality(Below(l)) \in Nat /\ Cardinality(Below(k)) \in Nat
    BY <1>3
  <2>4. rank[k] = Cardinality(Below(k)) + 1 /\ rank[l] = Cardinality(Below(l)) + 1
    BY <1>4
  <2> HIDE DEF Below, rank
  <2>5. /\ Cardinality(Below(k)) <= Cardinality(Below(l))
        /\ Cardinality(Below(l)) = Cardinality(Below(k)) => Below(k) = Below(l)
    BY <2>1, <2>3, FS_Subset
  <2> QED
    BY <2>2, <2>3, <2>4, <2>5
<1>6. \A k, l \in K : rank[k] = rank[l] => k = l
  <2> SUFFICES ASSUME NEW k \in K, NEW l \in K, rank[k] = rank[l], k # l PROVE FALSE
    OBVIOUS
  <2>1. rank[k] \in Nat /\ rank[l] \in Nat /\ (k < l \/ l < k)
    <3>1. k \in Nat /\ l \in Nat
      OBVIOUS
    <3>2. k < l \/ l < k
      BY <3>1
    <3> HIDE DEF rank, n
    <3>3. rank[k] \in 1..n /\ rank[l] \in 1..n
      BY <1>4
    <3> QED
      BY ONLY <1>1, <3>2, <3>3
  <2> HIDE DEF rank
  <2> QED
    BY <1>5, <2>1
<1>7. \A i \in 1..n : \E k \in K : rank[k] = i
  <2>1. rank \in [K -> 1..n]
    <3>1. rank = [k \in K |-> rank[k]]
      OBVIOUS
    <3> HIDE DEF rank, n
    <3> QED
      BY <1>4, <3>1
  <2>2. IsFiniteSet(1..n) /\ Cardinality(1..n) = n
    <3> HIDE DEF n
    <3> QED
      BY <1>1, FS_Interval
  <2> HIDE DEF rank
  <2>3. rank \in Injection(K, 1..n)
    BY <1>6, <2>1 DEF Injection, IsInjective
  <2>4. rank \in Surjection(K, 1..n)
    BY <2>2, <2>3, FS_Injection DEF n
  <2> QED
    BY <2>4 DEF Surjection
<1>8. ASSUME NEW i \in 1..n PROVE q[i] \in K /\ rank[q[i]] = i
  <2>1. q[i] = CHOOSE k \in K : Cardinality(Below(k)) = i - 1
    BY DEF SortedKeys
  <2>2. PICK k \in K : rank[k] = i
    BY <1>7
  <2>3. \A l \in K : Cardinality(Below(l)) = i - 1 <=> rank[l] = i
    <3> SUFFICES ASSUME NEW l \in K PROVE Cardinality(Below(l)) = i - 1 <=> rank[l] = i
      OBVIOUS
    <3> DEFINE c == Cardinality(Below(l))
               r == rank[l]
    <3>1. c \in Nat /\ r = c + 1 /\ i \in Nat
      BY <1>3, <1>4
    <3> HIDE DEF c, r
    <3>2. c = i - 1 <=> r = i
      BY <3>1
    <3> QED
      BY <3>2 DEF c, r
  <2> HIDE DEF Below, rank, q
  <2>4. \E l \in K : Cardinality(Below(l)) = i - 1
    BY <2>2, <2>3
  <2>5. q[i] \in K /\ Cardinality(Below(q[i])) = i - 1
    BY <2>1, <2>4
  <2> QED
    BY <2>3, <2>5
<1>9. /\ \A k \in K : \E i \in 1..n : q[i] = k
      /\ \A i, j \in 1..n : q[i] = q[j] => i = j
  <2> HIDE DEF rank, q, n
  <2>1. \A k \in K : \E i \in 1..n : q[i] = k
    BY <1>4, <1>6, <1>8
  <2>2. \A i, j \in 1..n : q[i] = q[j] => i = j
    BY <1>8
  <2> QED
    BY <2>1, <2>2
<1>10. q \in Seq(Nat) /\ Len(q) = n /\ DOMAIN q = 1..n
  <2>1. q = [i \in 1..n |-> q[i]]
    <3> DEFINE key(i) == CHOOSE k \in K : Cardinality({j \in K : j < k}) = i - 1
    <3>1. q = [i \in 1..n |-> key(i)]
      BY DEF SortedKeys
    <3> HIDE DEF q, n, key
    <3> QED
      BY <3>1
  <2>2. \A i \in 1..n : q[i] \in Nat
    BY <1>8
  <2> HIDE DEF q, n
  <2> QED
    BY <1>1, <2>1, <2>2, Enumerated
<1> QED
  BY <1>1, <1>8, <1>9, <1>10

LEMMA WrittenTyped ==
  ASSUME NEW v \in ParsedValues
  PROVE  /\ WrittenValue(v) \in FileValues
         /\ v.tag # 9 => WrittenValue(v) = v /\ v \in Scalars
         /\ v.tag = 9 => /\ v.items \in Seq(Scalars)
                         /\ WrittenValue(v) = [tag |-> 9, elem |-> ElemType(v), items |-> v.items]
<1>1. CASE v.tag # 9
  BY <1>1, KindsTyped DEF ParsedValues, WrittenValue, FileValues, Scalars
<1>2. CASE v.tag = 9
  <2>1. v.items \in Seq(Scalars)
    BY <1>2, KindsTyped DEF ParsedValues, Scalars
  <2>2. ElemType(v) \in Nat
    <3>1. CASE v.items = <<>>
      BY <3>1 DEF ElemType
    <3>2. CASE v.items # <<>>
      <4>1. v.items[1] \in Scalars
        BY <2>1, <3>2
      <4>2. v.items[1].tag \in DOMAIN Kinds /\ DOMAIN Kinds \subseteq Nat
        BY <4>1, KindsTyped DEF Scalars
      <4> QED
        BY <3>2, <4>2 DEF ElemType
    <3> QED
      BY <3>1, <3>2
  <2>3. WrittenValue(v) = [tag |-> 9, elem |-> ElemType(v), items |-> v.items]
    BY <1>2 DEF WrittenValue
  <2> QED
    BY <1>2, <2>1, <2>2, <2>3 DEF FileValues
<1> QED
  BY <1>1, <1>2

LEMMA WrittenContent ==
  ASSUME NEW g, g.status = "parsed", Outcome(g)
  PROVE  LET w == Written(g)
             q == SortedKeys(DOMAIN g.metadata)
         IN  /\ Content(w) /\ w.header = g.header /\ w.tensors = g.tensors
             /\ Len(w.pairs) = Len(q)
             /\ \A i \in 1..Len(q) : /\ w.pairs[i].key = q[i]
                                     /\ w.pairs[i].value = WrittenValue(g.metadata[q[i]])
<1> DEFINE w == Written(g)
           q == SortedKeys(DOMAIN g.metadata)
           n == Len(q)
           e(i) == [key |-> q[i], value |-> WrittenValue(g.metadata[q[i]])]
           p == [i \in DOMAIN q |-> e(i)]
<1>1. /\ g.header \in Seq(Nat) /\ Len(g.header) = 4
      /\ TypedMetadata(g.metadata) /\ g.tensors \in Seq(Entries)
  BY DEF Outcome
<1>2. /\ q \in Seq(Nat) /\ n \in Nat /\ DOMAIN q = 1..n /\ \A i \in 1..n : q[i] \in DOMAIN g.metadata
  BY <1>1, KeysSorted DEF TypedMetadata
<1>3. w.header = g.header /\ w.tensors = g.tensors /\ w.pairs = p
  <2>1. w = [header |-> g.header, tensors |-> g.tensors, pairs |-> p]
    BY Zenon DEF Written
  <2> HIDE DEF w, p
  <2> QED
    BY <2>1
<1>4. \A i \in 1..n : e(i) \in [key : Nat, value : FileValues]
  <2> SUFFICES ASSUME NEW i \in 1..n PROVE e(i) \in [key : Nat, value : FileValues]
    OBVIOUS
  <2>1. q[i] \in Nat /\ g.metadata[q[i]] \in ParsedValues
    BY <1>1, <1>2 DEF TypedMetadata
  <2>2. WrittenValue(g.metadata[q[i]]) \in FileValues
    BY <2>1, WrittenTyped
  <2> QED
    BY <2>1, <2>2
<1>5. p = [i \in 1..n |-> p[i]] /\ \A i \in 1..n : p[i] = e(i)
  BY <1>2
<1>6. \A i \in 1..n : e(i).key = q[i] /\ e(i).value = WrittenValue(g.metadata[q[i]])
  OBVIOUS
<1>7. g.tensors \in Seq(FileTensors)
  <2>1. Len(g.tensors) \in Nat /\ \A i \in 1..Len(g.tensors) : g.tensors[i] \in Entries
    BY <1>1, ItemsIn
  <2>2. \A i \in 1..Len(g.tensors) : g.tensors[i] \in FileTensors
    <3>1. GgmlTypes \subseteq Nat
      BY DEF GgmlTypes
    <3> QED
      BY <2>1, <3>1 DEF Entries, FileTensors
  <2> DEFINE ts == g.tensors
             m == Len(ts)
  <2>3. ts = [i \in 1..m |-> ts[i]]
    <3>1. ts \in Seq(Entries)
      BY <1>1
    <3> HIDE DEF ts
    <3> QED
      BY ONLY <3>1
  <2>4. m \in Nat /\ ts = [i \in 1..m |-> ts[i]] /\ \A i \in 1..m : ts[i] \in FileTensors
    BY <2>1, <2>2, <2>3
  <2> HIDE DEF ts, m
  <2>5. ts \in Seq(FileTensors)
    BY ONLY <2>4, Enumerated
  <2> QED
    BY <2>5 DEF ts
<1> HIDE DEF w, p, q, n, e
<1>8. p \in Seq([key : Nat, value : FileValues]) /\ Len(p) = n
  <2> DEFINE T == [key : Nat, value : FileValues]
  <2>1. \A i \in 1..n : p[i] \in T
    BY <1>4, <1>5
  <2>2. n \in Nat /\ p = [i \in 1..n |-> p[i]]
    BY <1>2, <1>5
  <2> HIDE DEF T
  <2>3. p \in Seq(T) /\ Len(p) = n
    BY ONLY <2>1, <2>2, Enumerated
  <2> QED
    BY <2>3 DEF T
<1>9. Content(w)
  BY <1>1, <1>3, <1>7, <1>8 DEF Content
<1> QED
  BY <1>3, <1>5, <1>6, <1>8, <1>9 DEF w, q, n

LEMMA StoredTyped ==
  ASSUME NEW c, Content(c)
  PROVE  Stored(c) \in Seq(Fields) /\ Len(Stored(c)) \in Nat
<1>1. Records(c) \in Seq(Seq(Fields))
  BY RecordsListed
<1>2. Stored(c) \in Seq(Fields)
  BY <1>1, JoinedSeq, StoredIsJoined
<1> QED
  BY <1>2, ItemsIn

LEMMA EmptyMetadata == TypedMetadata([k \in {} |-> k])
BY FS_EmptySet DEF TypedMetadata

LEMMA WriteTyped == ASSUME GTypes, write PROVE GTypes'
<1>1. /\ fields' = Stored(Written(first)) /\ first.status = "parsed" /\ ggufStage' = "written"
      /\ at' = "header" /\ got' = <<>> /\ pos' = 0 /\ bytes' = 0
      /\ header' = <<>> /\ pairsRead' = 0 /\ metadata' = [k \in {} |-> k] /\ tensors' = <<>>
      /\ UNCHANGED <<original, complete, first, second>>
  BY Zenon DEF write
<1>2. fields' \in Seq(Fields) /\ Len(fields') \in Nat
  <2>1. Content(Written(first))
    BY <1>1, WrittenContent DEF GTypes, FileTypes
  <2> QED
    BY <1>1, <2>1, StoredTyped
<1>3. FileTypes'
  <2>1. FileTypes /\ ggufStage' \in {"fetched", "parsed", "written", "done"}
    BY <1>1 DEF GTypes
  <2> QED
    BY <1>1, <2>1, Zenon DEF FileTypes
<1>4. InRecord'
  BY <1>1 DEF InRecord
<1>5. TypedMetadata(metadata')
  BY <1>1, EmptyMetadata
<1>6. /\ got' \in Seq(Nat) /\ pos' \in 0..Len(fields') /\ bytes' \in Nat
      /\ header' \in Seq(Nat) /\ pairsRead' \in Nat /\ tensors' \in Seq(Entries)
      /\ at' \in {"header", "pair", "tensor", "parsed", "refused", "astray"}
  BY <1>1, <1>2
<1> QED
  BY <1>2, <1>3, <1>4, <1>5, <1>6, Zenon DEF GTypes, ReaderTypes, TypedMetadata

LEMMA ShortOnes ==
  ASSUME NEW n \in Nat, NEW S, NEW T, S \subseteq T, NEW s \in UpTo(n, S)
  PROVE  s \in Seq(T) /\ Len(s) \in Nat /\ DOMAIN s = 1..Len(s) /\ \A i \in 1..Len(s) : s[i] \in S
<1>1. PICK k \in 0..n : s \in [1..k -> S]
  BY DEF UpTo
<1>2. s \in [1..k -> S] /\ k \in Nat
  BY <1>1
<1>3. s = [i \in 1..k |-> s[i]] /\ \A i \in 1..k : s[i] \in S /\ s[i] \in T
  BY <1>2
<1>4. s \in Seq(T) /\ Len(s) = k /\ DOMAIN s = 1..k
  BY ONLY <1>2, <1>3, Enumerated
<1> QED
  BY <1>2, <1>3, <1>4

LEMMA FetchedTyped ==
  ASSUME GgufAssumption, GgufInit
  PROVE  Content(original) /\ Counted(original)
<1>1. PICK h \in Headers, pairs \in UpTo(MaxPairs, [key : Names, value : Values]),
           entries \in UpTo(MaxTensors, Tensors) :
        original = [header |-> <<h.magic, h.version, Len(entries), Len(pairs)>>,
                    pairs |-> pairs, tensors |-> entries]
  BY Zenon DEF GgufInit
<1> DEFINE P == [key : Names, value : Values]
           Q == [key : Nat, value : FileValues]
<1>2. P \subseteq Q /\ Tensors \subseteq FileTensors /\ MaxPairs \in Nat /\ MaxTensors \in Nat
      /\ h.magic \in Nat /\ h.version \in Nat
  <2>1. Values \subseteq FileValues /\ Names \subseteq Nat
    BY DEF GgufAssumption, FileValues
  <2>2. Headers \subseteq [magic : Nat, version : Nat] /\ MaxPairs \in Nat /\ MaxTensors \in Nat
        /\ Tensors \subseteq FileTensors
    BY DEF GgufAssumption, FileTensors
  <2>3. h \in [magic : Nat, version : Nat]
    BY <2>2
  <2> QED
    BY <2>1, <2>2, <2>3
<1> HIDE DEF P, Q
<1>3. /\ pairs \in Seq(Q) /\ Len(pairs) \in Nat /\ \A i \in 1..Len(pairs) : pairs[i] \in P
  BY <1>2, ShortOnes DEF P
<1>4. entries \in Seq(FileTensors) /\ Len(entries) \in Nat
  BY <1>2, ShortOnes
<1> DEFINE a == Len(entries)
           b == Len(pairs)
           s == <<h.magic, h.version, a, b>>
<1>5. /\ original.header = s /\ original.pairs = pairs /\ original.tensors = entries
  <2> HIDE DEF s
  <2> QED
    BY <1>1 DEF s
<1>6. /\ s \in Seq(Nat) /\ Len(s) = 4 /\ s[3] = a /\ s[4] = b
  <2> HIDE DEF a, b
  <2>1. a \in Nat /\ b \in Nat
    BY <1>3, <1>4 DEF a, b
  <2> QED
    BY <1>2, <2>1
<1> HIDE DEF s
<1>7. Content(original)
  BY <1>3, <1>4, <1>5, <1>6 DEF Content, Q
<1>8. \A i \in 1..b : OneTag(pairs[i].value)
  <2> SUFFICES ASSUME NEW i \in 1..b PROVE OneTag(pairs[i].value)
    OBVIOUS
  <2>1. pairs[i].value \in Values /\ pairs[i] \in Q
    <3>1. pairs[i] \in P
      BY <1>3
    <3> QED
      BY <1>2, <3>1 DEF P
  <2> DEFINE v == pairs[i].value
  <2>2. v \in Values /\ v \in FileValues
    BY <2>1 DEF Q
  <2> HIDE DEF v
  <2>3. v.tag = 9 => \A j \in DOMAIN v.items : v.items[j].tag = v.elem
    BY <2>2 DEF GgufAssumption
  <2>4. v.tag = 9 => DOMAIN v.items = 1..Len(v.items)
    BY <2>2, ValueTyped, ItemsIn
  <2>5. OneTag(v)
    BY <2>3, <2>4, Zenon DEF OneTag
  <2> QED
    BY <2>5 DEF v
<1>9. Counted(original)
  BY <1>5, <1>6, <1>8 DEF Counted
<1> QED
  BY <1>7, <1>9

LEMMA InitTyped == ASSUME GgufAssumption, GgufInit PROVE GTypes
<1>1. Content(original) /\ Counted(original)
  BY FetchedTyped
<1>2. PICK n \in 0..Len(Stored(original)) :
        fields = SubSeq(Stored(original), 1, n) /\ complete = (n = Len(Stored(original)))
  BY Zenon DEF GgufInit
<1>3. fields \in Seq(Fields) /\ Len(fields) \in Nat
  <2> DEFINE s == Stored(original)
  <2>1. s \in Seq(Fields) /\ Len(s) \in Nat /\ n \in 0..Len(s) /\ fields = SubSeq(s, 1, n)
    BY <1>1, <1>2, StoredTyped
  <2> HIDE DEF s
  <2>2. SubSeq(s, 1, n) \in Seq(Fields)
    BY ONLY <2>1
  <2> QED
    BY <2>1, <2>2
<1>4. complete \in BOOLEAN
  BY <1>2
<1>5. /\ ggufStage = "fetched" /\ at = "header" /\ got = <<>> /\ pos = 0 /\ bytes = 0
      /\ header = <<>> /\ pairsRead = 0 /\ metadata = [k \in {} |-> k] /\ tensors = <<>>
      /\ first = [status |-> "none"] /\ second = [status |-> "none"]
  BY Zenon DEF GgufInit, NotRead
<1>6. Outcome(first) /\ Outcome(second)
  <2>1. Outcome([status |-> "none"])
    BY DEF Outcome
  <2> QED
    BY <1>5, <2>1
<1>7. FileTypes
  BY <1>1, <1>4, <1>5, <1>6, Zenon DEF FileTypes
<1>8. InRecord
  BY <1>5 DEF InRecord
<1>9. TypedMetadata(metadata)
  BY <1>5, EmptyMetadata
<1>10. ReaderTypes
  <2>1. /\ got \in Seq(Nat) /\ pos \in 0..Len(fields) /\ bytes \in Nat
        /\ header \in Seq(Nat) /\ pairsRead \in Nat /\ tensors \in Seq(Entries)
        /\ at \in {"header", "pair", "tensor", "parsed", "refused", "astray"}
    BY <1>3, <1>5
  <2> QED
    BY <1>3, <1>8, <1>9, <2>1 DEF ReaderTypes
<1> QED
  BY <1>7, <1>10 DEF GTypes

LEMMA GgufTyped == ASSUME GTypes, GgufNext PROVE GTypes'
BY HeaderTyped, PairTyped, TensorTyped, StopTyped, ReturnTyped, WriteTyped, Zenon DEF GgufNext

-----------------------------------------------------------------------------
(***************************************************************************)
(* The reader, in a file that holds c or the beginning of it: what it has  *)
(* read agrees with c, and it is at a field of the record that comes next. *)
(***************************************************************************)
\* n pairs have been read: of a key that came up more than once any of the values.
MetadataOf(m, pairs, n) ==
  /\ m = [k \in DOMAIN m |-> m[k]]
  /\ DOMAIN m = {pairs[i].key : i \in 1..n}
  /\ \A k \in DOMAIN m : \E i \in 1..n : pairs[i].key = k /\ m[k] = Parsed(pairs[i].value)

HeaderGood(h) == h[1] = Magic /\ h[2] \in {2, 3}

\* Nothing in it is refused.
Fine(c) == HeaderGood(c.header) /\ \A i \in 1..Len(c.tensors) : c.tensors[i].type \in GgmlTypes

Agrees(c) ==
  /\ pairsRead \in 0..Len(c.pairs) /\ MetadataOf(metadata, c.pairs, pairsRead)
  /\ tensors \in Seq(Entries) /\ Len(tensors) \in 0..Len(c.tensors)
  /\ \A i \in 1..Len(tensors) : tensors[i] = c.tensors[i]
  /\ at \in {"pair", "tensor", "parsed"} => header = c.header /\ HeaderGood(c.header)
  /\ at = "header" => /\ pairsRead = 0 /\ Len(tensors) = 0
                      /\ Len(got) > 0 => c.header[1] = Magic
                      /\ Len(got) > 1 => c.header[2] \in {2, 3}
  /\ at = "pair" => pairsRead < Len(c.pairs) /\ Len(tensors) = 0
  /\ at = "tensor" => /\ pairsRead = Len(c.pairs) /\ Len(tensors) < Len(c.tensors)
                      /\ Len(got) > 2 + Len(c.tensors[Len(tensors) + 1].dims) =>
                           c.tensors[Len(tensors) + 1].type \in GgmlTypes
  /\ at = "parsed" => pairsRead = Len(c.pairs) /\ Len(tensors) = Len(c.tensors)

\* The records that are through.
Through == IF at = "header" THEN 0 ELSE 1 + pairsRead + Len(tensors)

Placed(c, n, g, p, b) ==
  LET r == Records(c)
  IN  /\ StartOf(g, r[n + 1]) /\ Len(g) < Len(r[n + 1])
      /\ p = Begins(r, n) + Len(g) /\ b = BytesAt(r, n, Len(g))

InPlace(c) ==
  /\ at # "astray"
  /\ at \in {"header", "pair", "tensor"} => Placed(c, Through, got, pos, bytes)
  /\ at = "parsed" => pos = Len(Stored(c)) /\ bytes = TotalBytes(Records(c))
  /\ at = "refused" => ~(Fine(c) /\ Len(fields) = Len(Stored(c)))

FileStarts(c) ==
  /\ fields \in Seq(Fields) /\ Len(fields) \in 0..Len(Stored(c))
  /\ \A i \in 1..Len(fields) : fields[i] = Stored(c)[i]

Reads(c) == Content(c) /\ Counted(c) /\ FileStarts(c) /\ Agrees(c) /\ InPlace(c)

LEMMA MetadataGrows ==
  ASSUME NEW pairs, NEW n \in Nat, NEW m, MetadataOf(m, pairs, n), NEW w,
         w = [k \in DOMAIN m \cup {pairs[n + 1].key} |->
                IF k = pairs[n + 1].key THEN Parsed(pairs[n + 1].value) ELSE m[k]]
  PROVE  MetadataOf(w, pairs, n + 1)
<1> DEFINE key == pairs[n + 1].key
           val == Parsed(pairs[n + 1].value)
           D == DOMAIN m \cup {key}
<1>1. DOMAIN w = D /\ w = [k \in DOMAIN w |-> w[k]]
      /\ \A k \in D : w[k] = IF k = key THEN val ELSE m[k]
  <2>1. w = [k \in D |-> IF k = key THEN val ELSE m[k]]
    BY Zenon
  <2> HIDE DEF key, val, D
  <2> QED
    BY ONLY <2>1
<1>2. \A i : i \in 1..(n + 1) <=> i \in 1..n \/ i = n + 1
  OBVIOUS
<1>3. D = {pairs[i].key : i \in 1..(n + 1)}
  <2>1. DOMAIN m = {pairs[i].key : i \in 1..n}
    BY DEF MetadataOf
  <2> QED
    BY <1>2, <2>1
<1>4. \A k \in D : \E i \in 1..(n + 1) : pairs[i].key = k /\ w[k] = Parsed(pairs[i].value)
  <2> SUFFICES ASSUME NEW k \in D
               PROVE  \E i \in 1..(n + 1) : pairs[i].key = k /\ w[k] = Parsed(pairs[i].value)
    OBVIOUS
  <2>1. CASE k = key
    <3>1. n + 1 \in 1..(n + 1)
      OBVIOUS
    <3> QED
      BY <1>1, <2>1, <3>1
  <2>2. CASE k # key
    <3>1. k \in DOMAIN m /\ w[k] = m[k]
      BY <1>1, <2>2
    <3>2. PICK i \in 1..n : pairs[i].key = k /\ m[k] = Parsed(pairs[i].value)
      BY <3>1 DEF MetadataOf
    <3>3. i \in 1..(n + 1)
      BY <1>2
    <3> QED
      BY <3>1, <3>2, <3>3
  <2> QED
    BY <2>1, <2>2
<1> HIDE DEF D
<1> QED
  BY <1>1, <1>3, <1>4 DEF MetadataOf

LEMMA MetadataWhole ==
  ASSUME NEW pairs, NEW n \in Nat, DOMAIN pairs = 1..n, NEW m, MetadataOf(m, pairs, n)
  PROVE  /\ DOMAIN m = {pairs[i].key : i \in DOMAIN pairs}
         /\ Unique(pairs) => \A i \in DOMAIN pairs : m[pairs[i].key] = Parsed(pairs[i].value)
<1>1. DOMAIN m = {pairs[i].key : i \in 1..n}
  BY DEF MetadataOf
<1>2. ASSUME Unique(pairs), NEW i \in 1..n PROVE m[pairs[i].key] = Parsed(pairs[i].value)
  <2>1. PICK j \in 1..n : /\ pairs[j].key = pairs[i].key
                          /\ m[pairs[i].key] = Parsed(pairs[j].value)
    BY <1>1 DEF MetadataOf
  <2>2. j = i
    BY <1>2, <2>1 DEF Unique
  <2> QED
    BY <2>1, <2>2
<1> QED
  BY <1>1, <1>2

\* Every record has a field, and there is one as long as records are missing.
LEMMA RecordsFilled ==
  ASSUME NEW c, Content(c), NEW n \in Nat, n < Len(Records(c))
  PROVE  Records(c)[n + 1] \in Seq(Fields) /\ Len(Records(c)[n + 1]) \in Nat
         /\ Len(Records(c)[n + 1]) > 2
<1> DEFINE r == Records(c)
           p == Len(c.pairs)
           t == Len(c.tensors)
<1>1. /\ r \in Seq(Seq(Fields)) /\ p \in Nat /\ t \in Nat /\ Len(r) = 1 + p + t
      /\ r[1] = StoredHeader(c.header)
      /\ \A i \in 1..p : r[1 + i] = StoredPair(c.pairs[i])
      /\ \A i \in 1..t : r[1 + p + i] = StoredTensor(c.tensors[i])
  BY RecordsListed
<1>2. /\ c.header \in Seq(Nat) /\ Len(c.header) = 4
      /\ c.pairs \in Seq([key : Nat, value : FileValues]) /\ c.tensors \in Seq(FileTensors)
  BY DEF Content
<1>3. n + 1 \in 1..Len(r)
  <2> DEFINE m == Len(r)
  <2>1. m \in Nat /\ n < m
    <3>1. m \in Nat
      BY <1>1, ItemsIn
    <3> QED
      BY ONLY <3>1, n < Len(Records(c))
  <2> HIDE DEF m
  <2>2. n + 1 \in 1..m
    BY <2>1
  <2> QED
    BY <2>2 DEF m
<1>4. r[n + 1] \in Seq(Fields)
  BY <1>1, <1>3, ItemsIn
<1>5. Len(r[n + 1]) \in Nat
  BY <1>4, ItemsIn
<1>6. Len(r[n + 1]) > 2
  <2>1. CASE n = 0
    <3>1. Len(StoredHeader(c.header)) = 4
      BY <1>2, HeaderStored
    <3>2. n + 1 = 1
      BY <2>1
    <3> DEFINE k == Len(r[n + 1])
    <3>3. k = 4
      BY <1>1, <3>1, <3>2
    <3> HIDE DEF k
    <3>4. k > 2
      BY <3>3
    <3> QED
      BY <3>4 DEF k
  <2>2. CASE n \in 1..p
    <3>1. r[n + 1] = StoredPair(c.pairs[n])
      <4>1. n + 1 = 1 + n
        OBVIOUS
      <4> QED
        BY <1>1, <2>2, <4>1
    <3>2. c.pairs[n] \in [key : Nat, value : FileValues]
      BY <1>2, <2>2, ItemsIn
    <3> QED
      BY <3>1, <3>2, PairStored
  <2>3. CASE n - p \in 1..t
    <3>1. r[n + 1] = StoredTensor(c.tensors[n - p])
      <4>1. n + 1 = 1 + p + (n - p)
        <5> HIDE DEF p
        <5> QED
          BY ONLY <1>1, n \in Nat
      <4> QED
        BY <1>1, <2>3, <4>1
    <3>2. c.tensors[n - p] \in FileTensors
      BY <1>2, <2>3, ItemsIn
    <3> DEFINE d == Len(c.tensors[n - p].dims)
               k == Len(r[n + 1])
    <3>3. k = 4 + d
      BY <3>1, <3>2, TensorStored
    <3>4. d \in Nat
      <4>1. c.tensors[n - p].dims \in Seq(Nat)
        BY <3>2 DEF FileTensors
      <4> QED
        BY ONLY <4>1, ItemsIn
    <3> HIDE DEF k, d
    <3>5. k > 2
      BY <3>3, <3>4
    <3> QED
      BY <3>5 DEF k
  <2>4. n = 0 \/ n \in 1..p \/ n - p \in 1..t
    <3> DEFINE m == Len(r)
    <3>1. p \in Nat /\ t \in Nat /\ m = 1 + p + t /\ n < m
      BY <1>1
    <3> HIDE DEF p, t, m
    <3> QED
      BY ONLY <3>1, n \in Nat
  <2> QED
    BY <2>1, <2>2, <2>3, <2>4
<1> QED
  BY <1>4, <1>5, <1>6

\* The field the reader takes is the one that comes next in its record.
LEMMA PlaceTaken ==
  ASSUME NEW c, Content(c), FileStarts(c), NEW n \in Nat, n < Len(Records(c)),
         Placed(c, n, got, pos, bytes), got \in Seq(Nat)
  PROVE  LET s == Records(c)[n + 1] IN
         /\ pos < Len(Stored(c)) /\ Len(got) \in Nat /\ Len(s) \in Nat /\ Len(got) < Len(s)
         /\ StartOf(got, s) /\ s[Len(got) + 1] \in Fields
         /\ pos < Len(fields) =>
              /\ fields[pos + 1] = s[Len(got) + 1]
              /\ Got \in Seq(Nat) /\ Len(Got) = Len(got) + 1 /\ StartOf(Got, s)
              /\ pos + 1 = Begins(Records(c), n) + Len(Got)
              /\ bytes + Width(fields[pos + 1]) = BytesAt(Records(c), n, Len(Got))
<1> DEFINE r == Records(c)
           s == r[n + 1]
           k == Len(got)
           o == Begins(r, n)
<1>1. r \in Seq(Seq(Fields)) /\ s \in Seq(Fields) /\ Len(s) \in Nat
  BY RecordsListed, RecordsFilled
<1>2. k \in Nat /\ StartOf(got, s) /\ k < Len(s) /\ pos = o + k /\ bytes = BytesAt(r, n, k)
  <2>1. k \in Nat
    BY ItemsIn
  <2> QED
    BY <2>1, Zenon DEF Placed
<1>3. /\ o \in Nat /\ Begins(r, n + 1) = o + Len(s) /\ Begins(r, n + 1) <= Len(Stored(c))
      /\ \A j \in 1..Len(s) : Stored(c)[o + j] = s[j]
  <2>1. Stored(c) = JoinOf(r)
    BY StoredIsJoined
  <2>2. n \in 0..Len(r)
    <3> DEFINE m == Len(r)
    <3>1. m \in Nat /\ n < m
      BY <1>1
    <3> HIDE DEF m
    <3>2. n \in 0..m
      BY <3>1
    <3> QED
      BY <3>2 DEF m
  <2>3. o \in Nat
    BY <1>1, <2>2, JoinedPlaces
  <2>4. /\ Begins(r, n + 1) = o + Len(s) /\ Begins(r, n + 1) <= Len(JoinOf(r))
        /\ \A j \in 1..Len(s) : JoinOf(r)[o + j] = s[j]
    BY <1>1, JoinedPlaces
  <2> QED
    BY <2>1, <2>3, <2>4
<1>4. Len(Stored(c)) \in Nat
  BY StoredTyped
<1>5. k + 1 \in 1..Len(s) /\ pos < Len(Stored(c)) /\ pos + 1 = o + (k + 1) /\ pos \in Nat
  <2> DEFINE a == Len(s)
             b == Len(Stored(c))
             e == Begins(r, n + 1)
  <2>1. a \in Nat /\ b \in Nat /\ k \in Nat /\ o \in Nat /\ e = o + a /\ e <= b /\ k < a /\ pos = o + k
    BY <1>1, <1>2, <1>3, <1>4
  <2> HIDE DEF a, b, e, k, o
  <2>2. k + 1 \in 1..a /\ pos < b /\ pos + 1 = o + (k + 1) /\ pos \in Nat
    BY ONLY <2>1
  <2> QED
    BY <2>2 DEF a, b
<1>6. s[k + 1] \in Fields
  BY <1>1, <1>5, ItemsIn
<1>7. ASSUME pos < Len(fields)
      PROVE  /\ fields[pos + 1] = s[k + 1]
             /\ Got \in Seq(Nat) /\ Len(Got) = k + 1 /\ StartOf(Got, s)
             /\ bytes + Width(fields[pos + 1]) = BytesAt(r, n, k + 1)
  <2>1. fields[pos + 1] = s[k + 1]
    <3>1. pos + 1 \in 1..Len(fields)
      <4> DEFINE m == Len(fields)
      <4>1. m \in Nat /\ pos < m /\ pos \in Nat
        BY <1>5, <1>7 DEF FileStarts
      <4> HIDE DEF m
      <4>2. pos + 1 \in 1..m
        BY ONLY <4>1
      <4> QED
        BY <4>2 DEF m
    <3>2. fields[pos + 1] = Stored(c)[pos + 1]
      BY <3>1 DEF FileStarts
    <3> QED
      BY <1>3, <1>5, <3>2
  <2>2. s[k + 1].val \in Nat
    BY <1>6 DEF Fields
  <2> DEFINE x == fields[pos + 1].val
  <2>3. x \in Nat /\ x = s[k + 1].val /\ Got = Append(got, x)
    BY <2>1, <2>2 DEF Got
  <2> HIDE DEF x
  <2>4. /\ Got \in Seq(Nat) /\ Len(Got) = k + 1 /\ Got[k + 1] = x
        /\ \A j \in 1..k : Got[j] = got[j]
    BY <2>3
  <2>5. StartOf(Got, s)
    <3>1. \A j \in 1..k : got[j] = s[j].val
      BY <1>2 DEF StartOf
    <3>2. \A j \in 1..(k + 1) : Got[j] = s[j].val
      <4>1. \A j \in 1..(k + 1) : j \in 1..k \/ j = k + 1
        BY <1>2
      <4> QED
        BY <2>3, <2>4, <3>1, <4>1
    <3>3. k + 1 <= Len(s)
      BY <1>5
    <3> QED
      BY <2>4, <3>2, <3>3, Zenon DEF StartOf
  <2>6. bytes + Width(fields[pos + 1]) = BytesAt(r, n, k + 1)
    <3> DEFINE w == Width(s[k + 1])
               a == SumOf(FieldSizes(s), 1..k)
               b == SumOf(FieldSizes(s), 1..(k + 1))
               d == SumOf(RecordSizes(r), 1..n)
    <3>1. w \in Nat
      BY <1>6, WidthTyped
    <3>2. b = a + w
      BY <1>1, <1>2, FieldsSized
    <3>3. a \in Nat
      <4>1. k \in 0..Len(s)
        BY <1>1, <1>2
      <4> QED
        BY <1>1, <4>1, FieldsSized
    <3>4. d \in Nat
      <4>1. n \in 0..Len(r)
        <5> DEFINE m == Len(r)
        <5>1. m \in Nat /\ n < m
          BY <1>1
        <5> HIDE DEF m
        <5>2. n \in 0..m
          BY <5>1
        <5> QED
          BY <5>2 DEF m
      <4> QED
        BY <1>1, <4>1, RecordsSized
    <3>5. bytes = d + a /\ BytesAt(r, n, k + 1) = d + b
      BY <1>2 DEF BytesAt
    <3> HIDE DEF w, a, b, d
    <3> QED
      BY <2>1, <3>1, <3>2, <3>3, <3>4, <3>5 DEF w
  <2> QED
    BY <2>1, <2>4, <2>5, <2>6
<1> QED
  BY <1>1, <1>2, <1>5, <1>6, <1>7

\* At the first field of a record.
LEMMA AtTheFirst ==
  ASSUME NEW c, Content(c), NEW n \in Nat, n < Len(Records(c))
  PROVE  Placed(c, n, <<>>, Begins(Records(c), n), SumOf(RecordSizes(Records(c)), 1..n))
<1> DEFINE r == Records(c)
           s == r[n + 1]
           o == Begins(r, n)
           d == SumOf(RecordSizes(r), 1..n)
<1>1. r \in Seq(Seq(Fields)) /\ s \in Seq(Fields) /\ Len(s) \in Nat /\ Len(s) > 2
  BY RecordsListed, RecordsFilled
<1>2. n \in 0..Len(r)
  <2> DEFINE m == Len(r)
  <2>1. m \in Nat
    BY <1>1, ItemsIn
  <2>2. n < m
    OBVIOUS
  <2> HIDE DEF m
  <2>3. n \in 0..m
    BY ONLY <2>1, <2>2, n \in Nat
  <2> QED
    BY <2>3 DEF m
<1>3. o \in Nat /\ d \in Nat
  BY <1>1, <1>2, JoinedPlaces, RecordsSized
<1>4. SumOf(FieldSizes(s), 1..0) = 0
  <2>1. 1..0 = {}
    OBVIOUS
  <2> QED
    BY <1>1, <2>1, FieldsSized
<1>5. StartOf(<<>>, s) /\ Len(<<>>) < Len(s) /\ Len(<<>>) = 0
  <2>1. Len(<<>>) = 0
    OBVIOUS
  <2>2. 0 < Len(s) /\ 0 <= Len(s)
    <3> DEFINE m == Len(s)
    <3>1. m \in Nat /\ m > 2
      BY <1>1
    <3> HIDE DEF m
    <3>2. 0 < m /\ 0 <= m
      BY ONLY <3>1
    <3> QED
      BY <3>2 DEF m
  <2>3. \A j \in 1..0 : FALSE
    OBVIOUS
  <2> QED
    BY <2>1, <2>2, <2>3 DEF StartOf
<1>6. BytesAt(r, n, 0) = d
  BY <1>3, <1>4 DEF BytesAt
<1>7. o + 0 = o
  BY <1>3
<1> QED
  BY <1>5, <1>6, <1>7 DEF Placed

\* A record is through.
LEMMA NextPlaced ==
  ASSUME NEW c, Content(c), Counted(c), NextRecord,
         header' = c.header, HeaderGood(c.header),
         pairsRead' \in 0..Len(c.pairs), MetadataOf(metadata', c.pairs, pairsRead'),
         tensors' \in Seq(Entries), Len(tensors') \in 0..Len(c.tensors),
         \A i \in 1..Len(tensors') : tensors'[i] = c.tensors[i],
         pairsRead' < Len(c.pairs) => Len(tensors') = 0,
         NEW n \in Nat, n = 1 + pairsRead' + Len(tensors'),
         pos' = Begins(Records(c), n), bytes' = SumOf(RecordSizes(Records(c)), 1..n)
  PROVE  Agrees(c)' /\ InPlace(c)'
<1> DEFINE r == Records(c)
           p == Len(c.pairs)
           t == Len(c.tensors)
           u == Len(tensors')
<1>1. /\ p \in Nat /\ t \in Nat /\ Len(r) = 1 + p + t /\ r \in Seq(Seq(Fields))
  BY RecordsListed
<1>2. /\ got' = <<>>
      /\ at' = IF pairsRead' < p THEN "pair" ELSE IF u < t THEN "tensor" ELSE "parsed"
  BY DEF NextRecord, Counted
<1>3. pairsRead' \in 0..p /\ u \in 0..t /\ n = 1 + pairsRead' + u
  OBVIOUS
<1>4. Len(got') = 0
  BY <1>2
<1>5. /\ at' = "pair" => pairsRead' < p /\ u = 0
      /\ at' = "tensor" => pairsRead' = p /\ u < t
      /\ at' = "parsed" => pairsRead' = p /\ u = t
      /\ at' \in {"pair", "tensor", "parsed"}
  <2> DEFINE k == pairsRead'
  <2>1. k < p => u = 0
    OBVIOUS
  <2>2. at' = IF k < p THEN "pair" ELSE IF u < t THEN "tensor" ELSE "parsed"
    BY <1>2
  <2>3. k \in 0..p /\ u \in 0..t /\ p \in Nat /\ t \in Nat
    BY <1>1
  <2> HIDE DEF k, p, t, u
  <2>4. (~(k < p) => k = p) /\ (~(u < t) => u = t)
    BY ONLY <2>3
  <2>5. CASE k < p
    BY <2>1, <2>2, <2>5 DEF k
  <2>6. CASE ~(k < p) /\ u < t
    BY <2>2, <2>4, <2>6 DEF k
  <2>7. CASE ~(k < p) /\ ~(u < t)
    BY <2>2, <2>4, <2>7 DEF k
  <2> QED
    BY <2>5, <2>6, <2>7
<1>6. Agrees(c)'
  <2>1. ~(Len(got') > 2 + Len(c.tensors[u + 1].dims)) \/ at' # "tensor"
    <3> SUFFICES ASSUME at' = "tensor" PROVE ~(Len(got') > 2 + Len(c.tensors[u + 1].dims))
      OBVIOUS
    <3>1. u + 1 \in 1..t
      <4>1. u < t /\ u \in 0..t /\ t \in Nat
        BY <1>1, <1>5
      <4> HIDE DEF u, t
      <4> QED
        BY ONLY <4>1
    <3>2. c.tensors[u + 1] \in FileTensors
      <4>1. c.tensors \in Seq(FileTensors)
        BY DEF Content
      <4> QED
        BY <3>1, <4>1, ItemsIn
    <3>3. c.tensors[u + 1].dims \in Seq(Nat)
      BY <3>2 DEF FileTensors
    <3> DEFINE d == Len(c.tensors[u + 1].dims)
    <3>4. d \in Nat
      BY ONLY <3>3, ItemsIn
    <3> HIDE DEF d
    <3>5. ~(0 > 2 + d)
      BY ONLY <3>4
    <3> QED
      BY <1>4, <3>5 DEF d
  <2>2. at' # "header"
    BY <1>5
  <2> QED
    BY <1>3, <1>5, <2>1, <2>2, Zenon DEF Agrees
<1>7. CASE at' \in {"pair", "tensor"}
  <2>1. n < Len(r)
    <3> DEFINE m == Len(r)
               k == pairsRead'
    <3>1. k \in 0..p /\ u \in 0..t /\ n = 1 + k + u /\ m = 1 + p + t /\ p \in Nat /\ t \in Nat
      BY <1>1, <1>3
    <3>2. (k < p /\ u = 0) \/ (k = p /\ u < t)
      BY <1>5, <1>7
    <3> HIDE DEF m, k, p, t, u
    <3>3. n < m
      BY ONLY <3>1, <3>2
    <3> QED
      BY <3>3 DEF m
  <2>2. Placed(c, n, got', pos', bytes')
    BY <1>2, <2>1, AtTheFirst
  <2>3. Through' = n
    BY <1>3, <1>7 DEF Through
  <2>4. Placed(c, Through', got', pos', bytes')
    BY <2>2, <2>3
  <2>5. at' \notin {"astray", "parsed", "refused"}
    BY <1>7
  <2>6. InPlace(c)'
    BY <2>4, <2>5, Zenon DEF InPlace
  <2> QED
    BY <1>6, <2>6
<1>8. CASE at' = "parsed"
  <2>1. n = Len(r)
    <3> DEFINE m == Len(r)
               k == pairsRead'
    <3>1. k = p /\ u = t /\ n = 1 + k + u /\ m = 1 + p + t
      BY <1>1, <1>3, <1>5, <1>8
    <3> HIDE DEF m, k, p, t, u
    <3>3. n = m
      BY ONLY <3>1
    <3> QED
      BY <3>3 DEF m
  <2>2. pos' = Len(Stored(c))
    BY <1>1, <2>1, JoinedPlaces, StoredIsJoined
  <2>3. bytes' = TotalBytes(r)
    BY <2>1 DEF TotalBytes
  <2>4. at' \notin {"astray", "header", "pair", "tensor", "refused"}
    BY <1>8
  <2>5. InPlace(c)'
    BY <2>2, <2>3, <2>4, Zenon DEF InPlace
  <2> QED
    BY <1>6, <2>5
<1> QED
  BY <1>5, <1>7, <1>8

\* After the last field of a record the next one begins.
LEMMA RecordThrough ==
  ASSUME NEW c, Content(c), NEW n \in Nat, n < Len(Records(c))
  PROVE  LET r == Records(c) IN
         /\ Begins(r, n) + Len(r[n + 1]) = Begins(r, n + 1)
         /\ BytesAt(r, n, Len(r[n + 1])) = SumOf(RecordSizes(r), 1..(n + 1))
<1>1. Records(c) \in Seq(Seq(Fields))
  BY RecordsListed
<1> QED
  BY <1>1, JoinedPlaces, RecordsSized DEF BytesAt

LEMMA UnreadAgrees == ASSUME NEW c PROVE MetadataOf([k \in {} |-> k], c.pairs, 0)
<1>1. {c.pairs[i].key : i \in 1..0} = {}
  OBVIOUS
<1> QED
  BY <1>1 DEF MetadataOf

\* At the beginning of a file.
LEMMA FileBegins ==
  ASSUME NEW c, Content(c)
  PROVE  Placed(c, 0, <<>>, 0, 0) /\ Len(c.pairs) \in Nat /\ Len(c.tensors) \in Nat
<1>1. /\ Records(c) \in Seq(Seq(Fields)) /\ Len(c.pairs) \in Nat /\ Len(c.tensors) \in Nat
      /\ Len(Records(c)) = 1 + Len(c.pairs) + Len(c.tensors)
  BY RecordsListed
<1>2. 0 < Len(Records(c))
  <2> DEFINE m == Len(Records(c))
             p == Len(c.pairs)
             t == Len(c.tensors)
  <2>1. p \in Nat /\ t \in Nat /\ m = 1 + p + t
    BY <1>1
  <2> HIDE DEF m, p, t
  <2>2. 0 < m
    BY ONLY <2>1
  <2> QED
    BY <2>2 DEF m
<1>3. Begins(Records(c), 0) = 0
  BY <1>1, JoinedPlaces
<1>4. SumOf(RecordSizes(Records(c)), 1..0) = 0
  <2>1. 1..0 = {}
    OBVIOUS
  <2> QED
    BY <1>1, <2>1, RecordsSized
<1>5. Placed(c, 0, <<>>, Begins(Records(c), 0), SumOf(RecordSizes(Records(c)), 1..0))
  BY <1>2, AtTheFirst
<1> QED
  BY <1>1, <1>3, <1>4, <1>5

\* The record the reader is in.
LEMMA ThroughIn ==
  ASSUME NEW c, Reads(c), at \in {"header", "pair", "tensor"}
  PROVE  /\ Through \in Nat /\ Through < Len(Records(c))
         /\ at = "header" => Through = 0 /\ Records(c)[Through + 1] = StoredHeader(c.header)
         /\ at = "pair" =>
              LET p == c.pairs[pairsRead + 1] IN
              /\ Through = 1 + pairsRead /\ pairsRead + 1 \in 1..Len(c.pairs)
              /\ p \in [key : Nat, value : FileValues] /\ OneTag(p.value)
              /\ Records(c)[Through + 1] = StoredPair(p)
         /\ at = "tensor" =>
              LET t == c.tensors[Len(tensors) + 1] IN
              /\ Through = 1 + pairsRead + Len(tensors)
              /\ Len(tensors) + 1 \in 1..Len(c.tensors) /\ t \in FileTensors
              /\ Len(t.dims) \in Nat
              /\ Records(c)[Through + 1] = StoredTensor(t)
<1> DEFINE r == Records(c)
           p == Len(c.pairs)
           t == Len(c.tensors)
           u == Len(tensors)
           m == Len(r)
<1>1. /\ r \in Seq(Seq(Fields)) /\ p \in Nat /\ t \in Nat /\ m = 1 + p + t
      /\ r[1] = StoredHeader(c.header)
      /\ \A i \in 1..p : r[1 + i] = StoredPair(c.pairs[i])
      /\ \A i \in 1..t : r[1 + p + i] = StoredTensor(c.tensors[i])
  BY RecordsListed DEF Reads
<1>2. /\ c.pairs \in Seq([key : Nat, value : FileValues]) /\ c.tensors \in Seq(FileTensors)
      /\ \A i \in 1..p : OneTag(c.pairs[i].value)
  BY DEF Reads, Content, Counted
<1>3. /\ pairsRead \in 0..p /\ u \in 0..t
      /\ at = "header" => pairsRead = 0 /\ u = 0
      /\ at = "pair" => pairsRead < p /\ u = 0
      /\ at = "tensor" => pairsRead = p /\ u < t
  BY DEF Reads, Agrees
<1>4. CASE at = "header"
  <2>1. Through = 0 /\ 0 + 1 = 1
    BY <1>4 DEF Through
  <2>2. 0 < m
    <3> HIDE DEF m, p, t
    <3> QED
      BY ONLY <1>1
  <2> QED
    BY <1>1, <1>4, <2>1, <2>2
<1>5. CASE at = "pair"
  <2>1. Through = 1 + pairsRead + u
    BY <1>5 DEF Through
  <2>2. /\ Through = 1 + pairsRead /\ Through < m /\ pairsRead + 1 \in 1..p
        /\ Through + 1 = 1 + (pairsRead + 1) /\ Through \in Nat
    <3>1. pairsRead < p /\ u = 0
      BY <1>3, <1>5
    <3>2. p \in Nat /\ t \in Nat /\ m = 1 + p + t /\ pairsRead \in 0..p
      BY <1>1, <1>3
    <3> HIDE DEF m, p, t, u
    <3> QED
      BY ONLY <2>1, <3>1, <3>2
  <2>3. c.pairs[pairsRead + 1] \in [key : Nat, value : FileValues]
    BY <1>2, <2>2, ItemsIn
  <2>4. OneTag(c.pairs[pairsRead + 1].value)
    BY <1>2, <2>2
  <2>5. r[Through + 1] = StoredPair(c.pairs[pairsRead + 1])
    BY <1>1, <2>2
  <2> QED
    BY <1>5, <2>2, <2>3, <2>4, <2>5
<1>6. CASE at = "tensor"
  <2>1. Through = 1 + pairsRead + u
    BY <1>6 DEF Through
  <2>2. /\ Through < m /\ u + 1 \in 1..t
        /\ Through + 1 = 1 + p + (u + 1) /\ Through \in Nat
    <3>1. pairsRead = p /\ u < t
      BY <1>3, <1>6
    <3>2. p \in Nat /\ t \in Nat /\ m = 1 + p + t /\ u \in 0..t
      BY <1>1, <1>3
    <3> HIDE DEF m, p, t, u
    <3> QED
      BY ONLY <2>1, <3>1, <3>2
  <2>3. c.tensors[u + 1] \in FileTensors
    BY <1>2, <2>2, ItemsIn
  <2>4. Len(c.tensors[u + 1].dims) \in Nat
    <3>1. c.tensors[u + 1].dims \in Seq(Nat)
      BY <2>3 DEF FileTensors
    <3> QED
      BY ONLY <3>1, ItemsIn
  <2>5. r[Through + 1] = StoredTensor(c.tensors[u + 1])
    BY <1>1, <2>2
  <2> QED
    BY <1>6, <2>1, <2>2, <2>3, <2>4, <2>5
<1> QED
  BY <1>4, <1>5, <1>6

\* A field was taken.
LEMMA ReaderMoves ==
  ASSUME NEW c, GTypes, Reads(c), NEW rec \in {"header", "pair", "tensor"}, Takes(rec)
  PROVE  LET s == Records(c)[Through + 1] IN
         /\ at = rec /\ Got \in Seq(Nat) /\ got \in Seq(Nat)
         /\ Len(got) \in Nat /\ Len(Got) = Len(got) + 1
         /\ StartOf(got, s) /\ StartOf(Got, s) /\ Len(s) \in Nat
         /\ pos' = Begins(Records(c), Through) + Len(Got)
         /\ bytes' = BytesAt(Records(c), Through, Len(Got))
         /\ FileStarts(c)'
         /\ UNCHANGED fields
<1>1. /\ at = rec /\ pos < Len(fields) /\ pos' = pos + 1 /\ bytes' = bytes + Width(fields[pos + 1])
      /\ UNCHANGED fields
  BY Zenon DEF Takes, fileVars
<1>2. Through \in Nat /\ Through < Len(Records(c))
  BY <1>1, ThroughIn
<1>3. got \in Seq(Nat)
  BY DEF GTypes, ReaderTypes
<1>4. Content(c) /\ FileStarts(c)
  BY DEF Reads
<1>5. Placed(c, Through, got, pos, bytes)
  BY <1>1 DEF Reads, InPlace
<1>6. FileStarts(c)'
  BY <1>1, <1>4, Zenon DEF FileStarts
<1> DEFINE n == Through
<1> HIDE DEF n
<1>7. LET s == Records(c)[n + 1] IN
         /\ Len(got) \in Nat /\ Len(s) \in Nat /\ StartOf(got, s)
         /\ Got \in Seq(Nat) /\ Len(Got) = Len(got) + 1 /\ StartOf(Got, s)
         /\ pos + 1 = Begins(Records(c), n) + Len(Got)
         /\ bytes + Width(fields[pos + 1]) = BytesAt(Records(c), n, Len(Got))
  BY <1>1, <1>2, <1>3, <1>4, <1>5, PlaceTaken DEF n
<1> QED
  BY <1>1, <1>3, <1>6, <1>7 DEF n

\* A record goes on.
LEMMA StaysPlaced ==
  ASSUME NEW c, GTypes, Reads(c), NEW rec \in {"header", "pair", "tensor"}, Takes(rec), GoesOn,
         Len(Got) < Len(Records(c)[Through + 1])
  PROVE  InPlace(c)' /\ got' = Got /\ at' = rec
         /\ UNCHANGED <<header, pairsRead, metadata, tensors>>
<1>1. /\ got' = Got /\ at' = at /\ UNCHANGED <<header, pairsRead, metadata, tensors>>
  BY Zenon DEF GoesOn, parsedVars
<1>2. Through' = Through
  BY <1>1, Zenon DEF Through
<1>3. /\ at = rec /\ StartOf(Got, Records(c)[Through + 1])
      /\ pos' = Begins(Records(c), Through) + Len(Got)
      /\ bytes' = BytesAt(Records(c), Through, Len(Got))
  BY ReaderMoves
<1>4. Placed(c, Through, Got, pos', bytes')
  BY <1>3 DEF Placed
<1>5. Placed(c, Through', got', pos', bytes')
  BY <1>1, <1>2, <1>4
<1>6. at' \notin {"astray", "parsed", "refused"}
  BY <1>1, <1>3
<1>7. InPlace(c)'
  BY <1>5, <1>6, Zenon DEF InPlace
<1> QED
  BY <1>1, <1>3, <1>7

\* Nothing is refused of a file that is fine.
LEMMA RefusedPlaced ==
  ASSUME NEW c, Reads(c), Refused, ~Fine(c)
  PROVE  Agrees(c)' /\ InPlace(c)'
<1>1. at' = "refused" /\ UNCHANGED <<got, header, pairsRead, metadata, tensors>>
  BY Zenon DEF Refused, parsedVars
<1>2. Agrees(c)'
  BY <1>1 DEF Reads, Agrees
<1>3. InPlace(c)'
  BY <1>1 DEF InPlace
<1> QED
  BY <1>2, <1>3

LEMMA HeaderReads == ASSUME NEW c, GTypes, Reads(c), ReadHeader PROVE Reads(c)'
<1> DEFINE h == c.header
           k == Len(got)
           m == Len(Got)
<1>1. Takes("header")
  BY DEF ReadHeader
<1>2. /\ at = "header" /\ Got \in Seq(Nat) /\ got \in Seq(Nat) /\ k \in Nat /\ m = k + 1
      /\ FileStarts(c)'
  BY <1>1, ReaderMoves
<1>3. /\ Through = 0 /\ Records(c)[Through + 1] = StoredHeader(h)
      /\ pos' = Begins(Records(c), Through) + m
      /\ bytes' = BytesAt(Records(c), Through, m)
  BY <1>1, <1>2, ReaderMoves, ThroughIn
<1>4. h \in Seq(Nat) /\ Len(h) = 4 /\ Content(c) /\ Counted(c)
  BY DEF Reads, Content
<1>5. StartOf(Got, StoredHeader(h))
  BY <1>1, <1>3, ReaderMoves
<1>6. \A j \in 1..m : Got[j] = h[j]
  BY <1>2, <1>4, <1>5, HeaderRead
<1>7. Content(c)' /\ Counted(c)'
  BY <1>4
<1>8. /\ pairsRead = 0 /\ Len(tensors) = 0
      /\ k > 0 => h[1] = Magic
      /\ k > 1 => h[2] \in {2, 3}
      /\ pairsRead \in 0..Len(c.pairs) /\ MetadataOf(metadata, c.pairs, pairsRead)
      /\ tensors \in Seq(Entries) /\ Len(tensors) \in 0..Len(c.tensors)
      /\ \A i \in 1..Len(tensors) : tensors[i] = c.tensors[i]
  BY <1>2 DEF Reads, Agrees
<1>9. ~BadHeader(Got) => (m > 0 => h[1] = Magic) /\ (m > 1 => h[2] \in {2, 3})
  <2>1. /\ m = 1 => Got[1] = h[1]
        /\ m = 2 => Got[2] = h[2]
    <3>1. (m = 1 => 1 \in 1..m) /\ (m = 2 => 2 \in 1..m)
      OBVIOUS
    <3> HIDE DEF m
    <3> QED
      BY <1>6, <3>1
  <2>2. /\ m = 1 /\ ~BadHeader(Got) => Got[1] = Magic
        /\ m = 2 /\ ~BadHeader(Got) => Got[2] \in {2, 3}
    BY DEF BadHeader
  <2>3. (m > 0 => m = 1 \/ k > 0) /\ (m > 1 => m = 2 \/ k > 1)
    <3>1. k \in Nat /\ m = k + 1
      BY <1>2
    <3> HIDE DEF k, m
    <3> QED
      BY ONLY <3>1
  <2> HIDE DEF k, m
  <2> QED
    BY <1>8, <2>1, <2>2, <2>3
<1>10. CASE BadHeader(Got) /\ Refused
  <2>1. ~HeaderGood(h)
    <3>1. \/ m = 1 /\ Got[1] # Magic
          \/ m = 2 /\ Got[2] \notin {2, 3}
      BY <1>10 DEF BadHeader
    <3>2. (m = 1 => 1 \in 1..m) /\ (m = 2 => 2 \in 1..m)
      OBVIOUS
    <3> HIDE DEF m
    <3> QED
      BY <1>6, <3>1, <3>2 DEF HeaderGood
  <2>2. ~Fine(c)
    BY <2>1 DEF Fine
  <2> QED
    BY <1>2, <1>7, <1>10, <2>2, RefusedPlaced DEF Reads
<1>11. CASE ~BadHeader(Got) /\ m < 4 /\ GoesOn
  <2>1. Len(StoredHeader(h)) = 4
    BY <1>4, HeaderStored
  <2>2. InPlace(c)' /\ got' = Got /\ at' = "header"
        /\ UNCHANGED <<header, pairsRead, metadata, tensors>>
    BY <1>1, <1>3, <1>11, <2>1, StaysPlaced
  <2>3. Agrees(c)'
    <3>1. (m > 0 => h[1] = Magic) /\ (m > 1 => h[2] \in {2, 3})
      BY <1>9, <1>11
    <3>2. at' \notin {"pair", "tensor", "parsed"}
      BY <2>2
    <3> QED
      BY <1>8, <2>2, <3>1, <3>2, Zenon DEF Agrees
  <2> QED
    BY <1>2, <1>7, <2>2, <2>3 DEF Reads
<1>12. CASE m = 4 /\ header' = Got /\ UNCHANGED <<pairsRead, metadata, tensors>> /\ NextRecord
  <2>1. Got = h
    BY <1>2, <1>4, <1>5, <1>12, HeaderRead
  <2>2. HeaderGood(h)
    <3>1. k > 0 /\ k > 1
      <4>1. k \in Nat /\ m = k + 1 /\ m = 4
        BY <1>2, <1>12
      <4> HIDE DEF k, m
      <4> QED
        BY ONLY <4>1
    <3> QED
      BY <1>8, <3>1 DEF HeaderGood
  <2>3. /\ Len(Records(c)[Through + 1]) = m /\ 0 \in Nat /\ 0 < Len(Records(c))
    <3>1. Len(StoredHeader(h)) = 4
      BY <1>4, HeaderStored
    <3>2. Through < Len(Records(c))
      BY <1>2, ThroughIn
    <3> QED
      BY <1>3, <1>12, <3>1, <3>2
  <2>4. /\ pos' = Begins(Records(c), 1) /\ bytes' = SumOf(RecordSizes(Records(c)), 1..1)
    <3> DEFINE r == Records(c)
    <3>1. /\ Begins(r, 0) + Len(r[0 + 1]) = Begins(r, 0 + 1)
          /\ BytesAt(r, 0, Len(r[0 + 1])) = SumOf(RecordSizes(r), 1..(0 + 1))
      BY <1>4, <2>3, RecordThrough
    <3>2. 0 + 1 = 1
      OBVIOUS
    <3>3. Len(r[0 + 1]) = m /\ pos' = Begins(r, 0) + m /\ bytes' = BytesAt(r, 0, m)
      BY <1>3, <2>3
    <3> HIDE DEF r, m
    <3> QED
      BY <3>1, <3>2, <3>3 DEF r
  <2> DEFINE n == 1 + pairsRead' + Len(tensors')
  <2>5. n = 1 /\ n \in Nat
    BY <1>8, <1>12
  <2>6. /\ header' = c.header /\ pairsRead' \in 0..Len(c.pairs)
        /\ MetadataOf(metadata', c.pairs, pairsRead')
        /\ tensors' \in Seq(Entries) /\ Len(tensors') \in 0..Len(c.tensors)
        /\ \A i \in 1..Len(tensors') : tensors'[i] = c.tensors[i]
        /\ pairsRead' < Len(c.pairs) => Len(tensors') = 0
    BY <1>8, <1>12, <2>1
  <2>7. pos' = Begins(Records(c), n) /\ bytes' = SumOf(RecordSizes(Records(c)), 1..n)
    BY <2>4, <2>5
  <2> HIDE DEF n
  <2>8. n = 1 + pairsRead' + Len(tensors')
    BY DEF n
  <2>9. Agrees(c)' /\ InPlace(c)'
    BY <1>4, <1>12, <2>2, <2>5, <2>6, <2>7, <2>8, NextPlaced
  <2> QED
    BY <1>2, <1>7, <2>9 DEF Reads
<1> QED
  BY <1>10, <1>11, <1>12, Zenon DEF ReadHeader

LEMMA PairReads == ASSUME NEW c, GTypes, Reads(c), ReadPair PROVE Reads(c)'
<1> DEFINE p == c.pairs[pairsRead + 1]
           s == StoredPair(p)
           k == Len(got)
           m == Len(Got)
<1>1. Takes("pair")
  BY DEF ReadPair
<1>2. /\ at = "pair" /\ Got \in Seq(Nat) /\ got \in Seq(Nat) /\ k \in Nat /\ m = k + 1
      /\ FileStarts(c)' /\ pos' = Begins(Records(c), Through) + m
      /\ bytes' = BytesAt(Records(c), Through, m)
  BY <1>1, ReaderMoves
<1>3. /\ Through = 1 + pairsRead /\ pairsRead + 1 \in 1..Len(c.pairs)
      /\ p \in [key : Nat, value : FileValues] /\ OneTag(p.value)
      /\ Records(c)[Through + 1] = s /\ Through \in Nat /\ Through < Len(Records(c))
  BY <1>2, ThroughIn
<1>4. Content(c) /\ Counted(c)
  BY DEF Reads
<1>5. StartOf(Got, s) /\ Len(s) \in Nat
  BY <1>1, <1>3, ReaderMoves
<1>6. /\ ~BadPair(Got)
      /\ m < Len(s) => ~PairWhole(Got)
      /\ m = Len(s) => PairWhole(Got) /\ Got[1] = p.key /\ ValueOf(Got) = Parsed(p.value)
  <2> HIDE DEF p
  <2> QED
    BY <1>2, <1>3, <1>5, PairRead
<1>7. m <= Len(s) /\ (~PairWhole(Got) => m < Len(s)) /\ (PairWhole(Got) => m = Len(s))
  <2> DEFINE l == Len(s)
  <2>1. m <= l
    BY <1>5 DEF StartOf
  <2>2. l \in Nat /\ m \in Nat
    BY <1>2, <1>5
  <2>3. (m < l => ~PairWhole(Got)) /\ (m = l => PairWhole(Got))
    BY <1>6
  <2> HIDE DEF l, m
  <2> QED
    BY ONLY <2>1, <2>2, <2>3 DEF l
<1>8. Content(c)' /\ Counted(c)'
  BY <1>4
<1>9. /\ pairsRead < Len(c.pairs) /\ Len(tensors) = 0 /\ header = c.header /\ HeaderGood(c.header)
      /\ pairsRead \in 0..Len(c.pairs) /\ MetadataOf(metadata, c.pairs, pairsRead)
      /\ tensors \in Seq(Entries) /\ Len(tensors) \in 0..Len(c.tensors)
      /\ \A i \in 1..Len(tensors) : tensors[i] = c.tensors[i]
  BY <1>2 DEF Reads, Agrees
<1>10. CASE ~PairWhole(Got) /\ GoesOn
  <2>1. m < Len(Records(c)[Through + 1])
    BY <1>3, <1>7, <1>10
  <2>2. InPlace(c)' /\ got' = Got /\ at' = "pair"
        /\ UNCHANGED <<header, pairsRead, metadata, tensors>>
    BY <1>1, <1>10, <2>1, StaysPlaced
  <2>3. at' \notin {"header", "tensor", "parsed"}
    BY <2>2
  <2>4. Agrees(c)'
    BY <1>9, <2>2, <2>3, Zenon DEF Agrees
  <2> QED
    BY <1>2, <1>8, <2>2, <2>4 DEF Reads
<1>11. CASE /\ PairWhole(Got)
            /\ metadata' = [x \in DOMAIN metadata \cup {Got[1]} |->
                             IF x = Got[1] THEN ValueOf(Got) ELSE metadata[x]]
            /\ pairsRead' = pairsRead + 1 /\ UNCHANGED <<header, tensors>> /\ NextRecord
  <2>1. m = Len(s) /\ Got[1] = p.key /\ ValueOf(Got) = Parsed(p.value)
    BY <1>6, <1>7, <1>11
  <2>2. pairsRead \in Nat /\ pairsRead' = pairsRead + 1
    BY <1>9, <1>11
  <2>3. MetadataOf(metadata', c.pairs, pairsRead')
    <3>1. metadata' = [x \in DOMAIN metadata \cup {p.key} |->
                         IF x = p.key THEN Parsed(p.value) ELSE metadata[x]]
      BY <1>11, <2>1
    <3>2. MetadataOf(metadata', c.pairs, pairsRead + 1)
      BY <1>9, <2>2, <3>1, MetadataGrows
    <3> QED
      BY <2>2, <3>2
  <2> DEFINE n == 1 + pairsRead' + Len(tensors')
  <2>4. n = Through + 1 /\ n \in Nat
    BY <1>3, <1>9, <1>11, <2>2
  <2>5. pos' = Begins(Records(c), n) /\ bytes' = SumOf(RecordSizes(Records(c)), 1..n)
    <3> DEFINE r == Records(c)
               i == Through
    <3>1. /\ Begins(r, i) + Len(r[i + 1]) = Begins(r, i + 1)
          /\ BytesAt(r, i, Len(r[i + 1])) = SumOf(RecordSizes(r), 1..(i + 1))
      BY <1>3, <1>4, RecordThrough
    <3>2. Len(r[i + 1]) = m /\ pos' = Begins(r, i) + m /\ bytes' = BytesAt(r, i, m)
      BY <1>2, <1>3, <2>1
    <3>3. n = i + 1
      BY <2>4
    <3> HIDE DEF r, m, i, n
    <3> QED
      BY <3>1, <3>2, <3>3 DEF r
  <2>6. /\ header' = c.header /\ pairsRead' \in 0..Len(c.pairs)
        /\ tensors' \in Seq(Entries) /\ Len(tensors') \in 0..Len(c.tensors)
        /\ \A i \in 1..Len(tensors') : tensors'[i] = c.tensors[i]
        /\ pairsRead' < Len(c.pairs) => Len(tensors') = 0
    <3>1. pairsRead' \in 0..Len(c.pairs)
      <4> DEFINE l == Len(c.pairs)
      <4>1. pairsRead + 1 \in 1..l
        BY <1>3
      <4> HIDE DEF l
      <4>2. pairsRead' \in 0..l
        BY ONLY <2>2, <4>1
      <4> QED
        BY <4>2 DEF l
    <3> QED
      BY <1>9, <1>11, <3>1
  <2> HIDE DEF n
  <2>7. n = 1 + pairsRead' + Len(tensors')
    BY DEF n
  <2>8. Agrees(c)' /\ InPlace(c)'
    BY <1>4, <1>9, <1>11, <2>3, <2>4, <2>5, <2>6, <2>7, NextPlaced
  <2> QED
    BY <1>2, <1>8, <2>8 DEF Reads
<1> QED
  BY <1>6, <1>10, <1>11, Zenon DEF ReadPair

LEMMA TensorReads == ASSUME NEW c, GTypes, Reads(c), ReadTensor PROVE Reads(c)'
<1> DEFINE u == Len(tensors)
           t == c.tensors[u + 1]
           d == Len(t.dims)
           s == StoredTensor(t)
           k == Len(got)
           m == Len(Got)
<1>1. Takes("tensor")
  BY DEF ReadTensor
<1>2. /\ at = "tensor" /\ Got \in Seq(Nat) /\ got \in Seq(Nat) /\ k \in Nat /\ m = k + 1
      /\ FileStarts(c)' /\ pos' = Begins(Records(c), Through) + m
      /\ bytes' = BytesAt(Records(c), Through, m)
  BY <1>1, ReaderMoves
<1>3. /\ Through = 1 + pairsRead + u /\ u + 1 \in 1..Len(c.tensors)
      /\ t \in FileTensors /\ d \in Nat
      /\ Records(c)[Through + 1] = s /\ Through \in Nat /\ Through < Len(Records(c))
  BY <1>2, ThroughIn
<1>4. Content(c) /\ Counted(c)
  BY DEF Reads
<1>5. StartOf(Got, s) /\ Len(s) \in Nat
  BY <1>1, <1>3, ReaderMoves
<1>6. /\ BadTensor(Got) <=> m = 3 + d /\ t.type \notin GgmlTypes
      /\ m < 4 + d => ~TensorWhole(Got)
      /\ m = 4 + d => TensorWhole(Got) /\ TensorOf(Got) = t
      /\ Len(s) = 4 + d
  <2> HIDE DEF u
  <2> QED
    BY <1>2, <1>3, <1>5, TensorRead, TensorStored
<1>7. m <= 4 + d /\ (~TensorWhole(Got) => m < 4 + d) /\ (TensorWhole(Got) => m = 4 + d)
  <2> DEFINE l == Len(s)
  <2>1. m <= l /\ l = 4 + d
    BY <1>5, <1>6 DEF StartOf
  <2>2. d \in Nat /\ m \in Nat
    BY <1>2, <1>3
  <2>3. (m < 4 + d => ~TensorWhole(Got)) /\ (m = 4 + d => TensorWhole(Got))
    BY <1>6
  <2> HIDE DEF l, m, d
  <2> QED
    BY ONLY <2>1, <2>2, <2>3
<1>8. Content(c)' /\ Counted(c)'
  BY <1>4
<1>9. /\ pairsRead = Len(c.pairs) /\ u < Len(c.tensors) /\ header = c.header /\ HeaderGood(c.header)
      /\ k > 2 + d => t.type \in GgmlTypes
      /\ pairsRead \in 0..Len(c.pairs) /\ MetadataOf(metadata, c.pairs, pairsRead)
      /\ tensors \in Seq(Entries) /\ u \in 0..Len(c.tensors)
      /\ \A i \in 1..u : tensors[i] = c.tensors[i]
  BY <1>2 DEF Reads, Agrees
<1>10. ~BadTensor(Got) /\ m > 2 + d => t.type \in GgmlTypes
  <2>1. m = k + 1 /\ k \in Nat /\ d \in Nat
    BY <1>2, <1>3
  <2>2. ~BadTensor(Got) => ~(m = 3 + d /\ t.type \notin GgmlTypes)
    BY <1>6
  <2>3. k > 2 + d => t.type \in GgmlTypes
    BY <1>9
  <2> HIDE DEF t, u, k, m, d
  <2> QED
    BY ONLY <2>1, <2>2, <2>3
<1>11. CASE BadTensor(Got) /\ Refused
  <2>1. t.type \notin GgmlTypes
    BY <1>6, <1>11
  <2>2. ~Fine(c)
    BY <1>3, <2>1 DEF Fine
  <2> QED
    BY <1>2, <1>8, <1>11, <2>2, RefusedPlaced DEF Reads
<1>12. CASE ~BadTensor(Got) /\ ~TensorWhole(Got) /\ GoesOn
  <2>1. m < Len(Records(c)[Through + 1])
    BY <1>3, <1>6, <1>7, <1>12
  <2>2. InPlace(c)' /\ got' = Got /\ at' = "tensor"
        /\ UNCHANGED <<header, pairsRead, metadata, tensors>>
    BY <1>1, <1>12, <2>1, StaysPlaced
  <2>3. at' \notin {"header", "pair", "parsed"}
    BY <2>2
  <2>4. m > 2 + d => t.type \in GgmlTypes
    BY <1>10, <1>12
  <2>5. Agrees(c)'
    BY <1>9, <2>2, <2>3, <2>4, Zenon DEF Agrees
  <2> QED
    BY <1>2, <1>8, <2>2, <2>5 DEF Reads
<1>13. CASE /\ TensorWhole(Got) /\ tensors' = Append(tensors, TensorOf(Got))
            /\ UNCHANGED <<header, pairsRead, metadata>> /\ NextRecord
  <2>1. m = 4 + d /\ TensorOf(Got) = t
    BY <1>6, <1>7, <1>13
  <2>2. t \in Entries
    <3>1. k > 2 + d
      <4>1. m = k + 1 /\ k \in Nat /\ d \in Nat
        BY <1>2, <1>3
      <4> HIDE DEF t, u, k, m, d
      <4> QED
        BY ONLY <2>1, <4>1
    <3>2. t.type \in GgmlTypes
      BY <1>9, <3>1
    <3> HIDE DEF t
    <3> QED
      BY <1>3, <3>2 DEF FileTensors, Entries
  <2>3. /\ tensors' \in Seq(Entries) /\ Len(tensors') = u + 1 /\ u \in Nat
        /\ \A i \in 1..(u + 1) : tensors'[i] = c.tensors[i]
    <3>1. tensors' = Append(tensors, t)
      BY <1>13, <2>1
    <3>2. tensors \in Seq(Entries) /\ u \in Nat
      BY <1>9
    <3> DEFINE e == t
    <3>3. tensors' = Append(tensors, e) /\ e \in Entries /\ e = c.tensors[u + 1]
      BY <2>2, <3>1
    <3> HIDE DEF e
    <3>4. /\ tensors' \in Seq(Entries) /\ Len(tensors') = u + 1 /\ tensors'[u + 1] = e
          /\ \A i \in 1..u : tensors'[i] = tensors[i]
      BY ONLY <3>2, <3>3
    <3>5. \A i \in 1..(u + 1) : i \in 1..u \/ i = u + 1
      BY ONLY <3>2
    <3> HIDE DEF u
    <3> QED
      BY <1>9, <3>2, <3>3, <3>4, <3>5
  <2>4. pairsRead' = pairsRead /\ pairsRead \in Nat
    BY <1>9, <1>13
  <2> DEFINE n == 1 + pairsRead' + Len(tensors')
  <2>5. n = Through + 1 /\ n \in Nat
    <3> DEFINE v == Len(tensors')
    <3>1. v = u + 1 /\ u \in Nat /\ Through = 1 + pairsRead + u
      BY <1>3, <2>3
    <3> HIDE DEF u, v
    <3>2. 1 + pairsRead' + v = Through + 1 /\ 1 + pairsRead' + v \in Nat
      BY ONLY <2>4, <3>1
    <3> QED
      BY <3>2 DEF v
  <2>6. pos' = Begins(Records(c), n) /\ bytes' = SumOf(RecordSizes(Records(c)), 1..n)
    <3> DEFINE r == Records(c)
               i == Through
    <3>1. /\ Begins(r, i) + Len(r[i + 1]) = Begins(r, i + 1)
          /\ BytesAt(r, i, Len(r[i + 1])) = SumOf(RecordSizes(r), 1..(i + 1))
      BY <1>3, <1>4, RecordThrough
    <3>2. Len(r[i + 1]) = m /\ pos' = Begins(r, i) + m /\ bytes' = BytesAt(r, i, m)
      BY <1>2, <1>3, <1>6, <2>1
    <3>3. n = i + 1
      BY <2>5
    <3> HIDE DEF r, m, i, n
    <3> QED
      BY <3>1, <3>2, <3>3 DEF r
  <2>7. /\ header' = c.header /\ pairsRead' \in 0..Len(c.pairs)
        /\ tensors' \in Seq(Entries) /\ Len(tensors') \in 0..Len(c.tensors)
        /\ \A i \in 1..Len(tensors') : tensors'[i] = c.tensors[i]
        /\ pairsRead' < Len(c.pairs) => Len(tensors') = 0
    <3>1. Len(tensors') \in 0..Len(c.tensors)
      <4> DEFINE l == Len(c.tensors)
                 v == Len(tensors')
      <4>1. u + 1 \in 1..l /\ v = u + 1 /\ u \in Nat
        BY <1>3, <2>3
      <4> HIDE DEF l, v, u
      <4>2. v \in 0..l
        BY ONLY <4>1
      <4> QED
        BY <4>2 DEF l, v
    <3>2. ~(pairsRead' < Len(c.pairs))
      BY <1>9, <2>4
    <3>3. header' = c.header /\ pairsRead' \in 0..Len(c.pairs)
      BY <1>9, <1>13
    <3> QED
      BY <2>3, <3>1, <3>2, <3>3
  <2> HIDE DEF n
  <2>8. n = 1 + pairsRead' + Len(tensors')
    BY DEF n
  <2>9. MetadataOf(metadata', c.pairs, pairsRead')
    BY <1>9, <1>13
  <2>10. Agrees(c)' /\ InPlace(c)'
    BY <1>4, <1>9, <1>13, <2>5, <2>6, <2>7, <2>8, <2>9, NextPlaced
  <2> QED
    BY <1>2, <1>8, <2>10 DEF Reads
<1> QED
  BY <1>11, <1>12, <1>13, Zenon DEF ReadTensor

\* The field that comes next is of the kind the reader wants, and there is one in c.
LEMMA NextIsWanted ==
  ASSUME NEW c, GTypes, Reads(c), AtRecord
  PROVE  /\ pos < Len(Stored(c))
         /\ pos < Len(fields) => fields[pos + 1].kind = Wanted
<1> DEFINE n == Through
           s == Records(c)[n + 1]
           k == Len(got)
<1>1. at \in {"header", "pair", "tensor"} /\ got \in Seq(Nat)
  BY DEF AtRecord, GTypes, ReaderTypes
<1>2. Content(c) /\ FileStarts(c) /\ Placed(c, n, got, pos, bytes)
  BY <1>1 DEF Reads, InPlace
<1>3. n \in Nat /\ n < Len(Records(c))
  BY <1>1, ThroughIn
<1> HIDE DEF n
<1>4. /\ pos < Len(Stored(c)) /\ k \in Nat /\ Len(s) \in Nat /\ k < Len(s) /\ StartOf(got, s)
      /\ pos < Len(fields) => fields[pos + 1] = s[k + 1]
  BY <1>1, <1>2, <1>3, PlaceTaken
<1>5. CASE at = "header"
  <2>1. s = StoredHeader(c.header) /\ Wanted = HeaderKind(got)
    BY <1>5, ThroughIn DEF n, Wanted
  <2>2. c.header \in Seq(Nat) /\ Len(c.header) = 4
    BY <1>2 DEF Content
  <2>3. Len(StoredHeader(c.header)) = 4
    BY <2>2, HeaderStored
  <2>4. StoredHeader(c.header)[k + 1].kind = HeaderKind(got)
    <3>1. k < 4 /\ StartOf(got, StoredHeader(c.header))
      BY <1>4, <2>1, <2>3
    <3> QED
      BY <1>1, <2>2, <3>1, HeaderRead
  <2> QED
    BY <1>4, <2>1, <2>4
<1>6. CASE at = "pair"
  <2> DEFINE p == c.pairs[pairsRead + 1]
  <2>1. s = StoredPair(p) /\ p \in [key : Nat, value : FileValues] /\ OneTag(p.value)
    BY <1>6, ThroughIn DEF n
  <2>2. Wanted = PairKind(got)
    BY <1>6 DEF Wanted
  <2> HIDE DEF p, s, k
  <2>3. StoredPair(p)[k + 1].kind = PairKind(got)
    BY <1>1, <1>4, <2>1, PairRead DEF k
  <2> QED
    BY <1>4, <2>1, <2>2, <2>3
<1>7. CASE at = "tensor"
  <2> DEFINE t == c.tensors[Len(tensors) + 1]
             d == Len(t.dims)
  <2>1. s = StoredTensor(t) /\ t \in FileTensors /\ d \in Nat
    BY <1>7, ThroughIn DEF n
  <2>2. Wanted = TensorKind(got)
    BY <1>7 DEF Wanted
  <2> HIDE DEF t, s, k
  <2>3. Len(StoredTensor(t)) = 4 + d
    BY <2>1, TensorStored
  <2> HIDE DEF d
  <2>4. k < 4 + d
    BY <1>4, <2>1, <2>3
  <2>5. StoredTensor(t)[k + 1].kind = TensorKind(got)
    BY <1>1, <1>4, <2>1, <2>4, TensorRead DEF k, d
  <2> QED
    BY <1>4, <2>1, <2>2, <2>5
<1> QED
  BY <1>1, <1>4, <1>5, <1>6, <1>7

LEMMA StopReads == ASSUME NEW c, GTypes, Reads(c), EndOfFile \/ GoAstray PROVE Reads(c)'
<1>1. AtRecord
  BY DEF EndOfFile, GoAstray
<1>2. ~GoAstray
  BY <1>1, NextIsWanted DEF GoAstray
<1>3. /\ pos = Len(fields) /\ at' = "refused"
      /\ UNCHANGED <<fields, got, pos, bytes, header, pairsRead, metadata, tensors>>
  BY <1>2, Zenon DEF EndOfFile, fileVars, parsedVars
<1>4. Content(c)' /\ Counted(c)' /\ FileStarts(c)'
  BY <1>3, Zenon DEF Reads, FileStarts
<1>5. Agrees(c)'
  BY <1>3 DEF Reads, Agrees
<1>6. InPlace(c)'
  <2> DEFINE a == Len(fields)
             b == Len(Stored(c))
  <2>1. pos < b /\ pos = a
    BY <1>1, <1>3, NextIsWanted
  <2>2. pos \in Nat /\ b \in Nat
    <3>1. pos \in Nat
      BY DEF GTypes, ReaderTypes
    <3>2. b \in Nat
      BY StoredTyped DEF Reads
    <3> QED
      BY <3>1, <3>2
  <2> HIDE DEF a, b
  <2>3. a # b
    BY ONLY <2>1, <2>2
  <2>4. Len(fields') # Len(Stored(c))
    BY <1>3, <2>3 DEF a, b
  <2> QED
    BY <1>3, <2>4 DEF InPlace
<1> QED
  BY <1>4, <1>5, <1>6 DEF Reads

-----------------------------------------------------------------------------
(***************************************************************************)
(* What is written of the metadata takes the room it had in the file, and  *)
(* is read as it was.                                                      *)
(***************************************************************************)
\* A bool takes a byte whatever its value; any other value is read as it is.
LEMMA ScalarKept ==
  ASSUME NEW t \in DOMAIN Kinds, NEW n \in Nat
  PROVE  LET u == Scalar(t, n) IN
         /\ u \in Scalars /\ u.tag = t /\ u.data \in Nat
         /\ Scalar(u.tag, u.data) = u
         /\ Width(FieldOf(Kinds[t], u.data)) = Width(FieldOf(Kinds[t], n))
<1> DEFINE u == Scalar(t, n)
<1>1. u \in Scalars
  BY ScalarTyped
<1>2. u.tag = t /\ u.data = IF t = 7 /\ n > 0 THEN 1 ELSE n
  BY DEF Scalar
<1>3. Scalar(u.tag, u.data) = u
  BY DEF Scalar
<1>4. u.data \in Nat
  BY <1>2
<1>5. Width(FieldOf(Kinds[t], u.data)) = Width(FieldOf(Kinds[t], n))
  <2>1. CASE t = 7
    <3>1. Kinds[7] = "byte"
      BY KindsTyped DEF Kinds
    <3>2. \A m \in Nat : Width(FieldOf("byte", m)) = 1
      BY DEF Width, FieldOf
    <3> QED
      BY <1>4, <2>1, <3>1, <3>2
  <2>2. CASE t # 7
    <3>1. u.data = n
      BY <1>2, <2>2
    <3> QED
      BY <3>1
  <2> QED
    BY <2>1, <2>2
<1> QED
  BY <1>1, <1>2, <1>3, <1>4, <1>5

LEMMA ArrayParsed ==
  ASSUME NEW v \in FileValues, v.tag = 9
  PROVE  LET n == Len(v.items)
             p == Parsed(v)
         IN  /\ n \in Nat /\ p.tag = 9 /\ p = [tag |-> 9, items |-> p.items]
             /\ p.items \in Seq(Scalars) /\ Len(p.items) = n
             /\ \A i \in 1..n : p.items[i] = Scalar(v.items[i].tag, v.items[i].data)
<1> DEFINE s == v.items
           n == Len(s)
           e(i) == Scalar(s[i].tag, s[i].data)
           f == [i \in DOMAIN s |-> e(i)]
<1>1. s \in Seq(Scalars)
  BY ValueTyped
<1>2. n \in Nat /\ DOMAIN s = 1..n /\ \A i \in 1..n : s[i] \in Scalars
  BY <1>1, ItemsIn
<1>3. \A i \in 1..n : e(i) \in Scalars
  BY <1>2, ScalarKept DEF Scalars
<1>4. Parsed(v) = [tag |-> 9, items |-> f]
  BY DEF Parsed
<1> HIDE DEF e
<1>5. f = [i \in 1..n |-> f[i]] /\ \A i \in 1..n : f[i] = e(i)
  BY <1>2
<1>6. \A i \in 1..n : f[i] \in Scalars
  BY <1>3, <1>5
<1> HIDE DEF f, n
<1>7. f \in Seq(Scalars) /\ Len(f) = n
  BY <1>2, <1>5, <1>6, Enumerated
<1>8. Parsed(v).tag = 9 /\ Parsed(v).items = f
  BY <1>4
<1> QED
  BY <1>2, <1>4, <1>5, <1>7, <1>8 DEF e, n

LEMMA ParsedTyped == ASSUME NEW v \in FileValues PROVE Parsed(v) \in ParsedValues
<1>1. CASE v.tag # 9
  <2>1. Parsed(v) = Scalar(v.tag, v.data) /\ v.tag \in DOMAIN Kinds /\ v.data \in Nat
    BY <1>1, ValueTyped DEF Parsed
  <2> QED
    BY <2>1, ScalarKept DEF ParsedValues
<1>2. CASE v.tag = 9
  BY <1>2, ArrayParsed DEF ParsedValues
<1> QED
  BY <1>1, <1>2

\* A value that was read and is written, as it stands in a file again.
LEMMA WrittenBack ==
  ASSUME NEW v \in FileValues, OneTag(v)
  PROVE  LET u == WrittenValue(Parsed(v)) IN
         /\ u \in FileValues /\ OneTag(u) /\ Parsed(u) = Parsed(v) /\ u.tag = v.tag
         /\ v.tag # 9 => u.data = Scalar(v.tag, v.data).data
         /\ v.tag = 9 =>
              /\ Len(u.items) = Len(v.items)
              /\ \A i \in 1..Len(v.items) : u.items[i] = Scalar(v.items[i].tag, v.items[i].data)
<1> DEFINE p == Parsed(v)
           u == WrittenValue(p)
<1>1. p \in ParsedValues /\ u \in FileValues
  BY ParsedTyped, WrittenTyped
<1>2. CASE v.tag # 9
  <2>1. p = Scalar(v.tag, v.data) /\ v.tag \in DOMAIN Kinds /\ v.data \in Nat
    BY <1>2, ValueTyped DEF Parsed
  <2>2. p.tag = v.tag /\ Scalar(p.tag, p.data) = p
    BY <2>1, ScalarKept
  <2>3. u = p
    BY <1>2, <2>2 DEF WrittenValue
  <2>4. Parsed(u) = p
    BY <1>2, <2>2, <2>3 DEF Parsed
  <2> HIDE DEF p, u
  <2> QED
    BY <1>1, <1>2, <2>1, <2>2, <2>3, <2>4 DEF OneTag, p, u
<1>3. CASE v.tag = 9
  <2> DEFINE s == v.items
             n == Len(s)
  <2>1. /\ n \in Nat /\ p.tag = 9 /\ p = [tag |-> 9, items |-> p.items]
        /\ p.items \in Seq(Scalars) /\ Len(p.items) = n
        /\ \A i \in 1..n : p.items[i] = Scalar(s[i].tag, s[i].data)
    BY <1>3, ArrayParsed
  <2>2. \A i \in 1..n : s[i] \in Scalars /\ s[i].tag = v.elem
    <3>1. s \in Seq(Scalars) /\ \A i \in 1..n : s[i].tag = v.elem
      BY <1>3, ValueTyped DEF OneTag
    <3> QED
      BY <3>1, ItemsIn
  <2>3. \A i \in 1..n : p.items[i].tag = v.elem /\ Scalar(p.items[i].tag, p.items[i].data) = p.items[i]
    <3> SUFFICES ASSUME NEW i \in 1..n
                 PROVE  /\ p.items[i].tag = v.elem
                        /\ Scalar(p.items[i].tag, p.items[i].data) = p.items[i]
      OBVIOUS
    <3>1. s[i].tag \in DOMAIN Kinds /\ s[i].data \in Nat /\ s[i].tag = v.elem
      BY <2>2 DEF Scalars
    <3>2. p.items[i] = Scalar(s[i].tag, s[i].data)
      BY <2>1
    <3> HIDE DEF p, s
    <3> QED
      BY <3>1, <3>2, ScalarKept
  <2>4. u.tag = 9 /\ u.elem = ElemType(p) /\ u.items = p.items
    BY <2>1 DEF WrittenValue
  <2>5. \A i \in 1..n : u.items[i].tag = u.elem
    <3> SUFFICES ASSUME NEW i \in 1..n PROVE u.items[i].tag = u.elem
      OBVIOUS
    <3>1. p.items # <<>> /\ 1 \in 1..n
      <4> HIDE DEF p, n
      <4>1. 1 \in 1..n /\ n # 0
        BY <2>1
      <4> QED
        BY <2>1, <4>1
    <3>2. u.elem = p.items[1].tag
      BY <2>4, <3>1 DEF ElemType
    <3> QED
      BY <2>3, <2>4, <3>1, <3>2
  <2> HIDE DEF p, u
  <2>6. Parsed(u) = p
    <3> DEFINE f == [i \in DOMAIN u.items |-> Scalar(u.items[i].tag, u.items[i].data)]
    <3>1. Parsed(u) = [tag |-> 9, items |-> f]
      BY <2>4 DEF Parsed
    <3>2. DOMAIN u.items = 1..n /\ u.items = [i \in 1..n |-> u.items[i]]
      <4> DEFINE w == u.items
      <4>1. w \in Seq(Scalars) /\ Len(w) = n
        BY <2>1, <2>4
      <4> HIDE DEF w, n
      <4> QED
        BY <4>1 DEF w
    <3>3. \A i \in 1..n : Scalar(u.items[i].tag, u.items[i].data) = u.items[i]
      BY <2>3, <2>4
    <3>4. f = u.items
      BY <3>2, <3>3
    <3> QED
      BY <2>1, <2>4, <3>1, <3>4
  <2> QED
    BY <1>1, <1>3, <2>1, <2>4, <2>5, <2>6 DEF OneTag, p, u
<1> QED
  BY <1>2, <1>3

\* It takes as many bytes as it did, whatever the type it gives to an empty array.
LEMMA PairSizeKept ==
  ASSUME NEW p \in [key : Nat, value : FileValues], OneTag(p.value), NEW w,
         w = [key |-> p.key, value |-> WrittenValue(Parsed(p.value))]
  PROVE  /\ Len(StoredPair(w)) = Len(StoredPair(p))
         /\ FieldSizes(StoredPair(w)) = FieldSizes(StoredPair(p))
<1> DEFINE v == p.value
           u == w.value
           a == StoredPair(p)
           b == StoredPair(w)
<1>1. /\ v \in FileValues /\ u \in FileValues /\ u.tag = v.tag /\ w.key = p.key
      /\ w \in [key : Nat, value : FileValues]
      /\ v.tag # 9 => u.data = Scalar(v.tag, v.data).data
      /\ v.tag = 9 =>
           /\ Len(u.items) = Len(v.items)
           /\ \A i \in 1..Len(v.items) : u.items[i] = Scalar(v.items[i].tag, v.items[i].data)
  <2>1. p.key \in Nat /\ v \in FileValues
    OBVIOUS
  <2>2. u = WrittenValue(Parsed(v)) /\ w.key = p.key
    OBVIOUS
  <2> HIDE DEF v, u
  <2>3. /\ u \in FileValues /\ u.tag = v.tag
        /\ v.tag # 9 => u.data = Scalar(v.tag, v.data).data
        /\ v.tag = 9 =>
             /\ Len(u.items) = Len(v.items)
             /\ \A i \in 1..Len(v.items) : u.items[i] = Scalar(v.items[i].tag, v.items[i].data)
    BY <2>1, <2>2, WrittenBack DEF v
  <2>4. w = [key |-> p.key, value |-> u]
    BY <2>2 DEF v
  <2> QED
    BY <2>1, <2>2, <2>3, <2>4
<1>2. \A m, n \in Nat : Width(FieldOf("word", m)) = Width(FieldOf("word", n))
      /\ Width(FieldOf("long", m)) = Width(FieldOf("long", n))
  BY DEF Width, FieldOf
<1> HIDE DEF a, b, v, u
<1>3. /\ Len(a) \in Nat /\ Len(a) > 2
      /\ a[1] = FieldOf("text", p.key) /\ a[2] = FieldOf("word", v.tag)
      /\ v.tag # 9 => Len(a) = 3 /\ a[3] = FieldOf(Kinds[v.tag], v.data)
      /\ v.tag = 9 => /\ Len(a) = 4 + Len(v.items)
                      /\ a[3] = FieldOf("word", v.elem)
                      /\ a[4] = FieldOf("long", Len(v.items))
                      /\ \A i \in 1..Len(v.items) : a[4 + i] = FieldOf(Kinds[v.items[i].tag], v.items[i].data)
  <2>1. a \in Seq(Fields)
    BY PairStored DEF a, v
  <2> QED
    BY <2>1, PairStored, ItemsIn DEF a, v
<1>4. /\ Len(b) \in Nat /\ Len(b) > 2
      /\ b[1] = FieldOf("text", w.key) /\ b[2] = FieldOf("word", u.tag)
      /\ u.tag # 9 => Len(b) = 3 /\ b[3] = FieldOf(Kinds[u.tag], u.data)
      /\ u.tag = 9 => /\ Len(b) = 4 + Len(u.items)
                      /\ b[3] = FieldOf("word", u.elem)
                      /\ b[4] = FieldOf("long", Len(u.items))
                      /\ \A i \in 1..Len(u.items) : b[4 + i] = FieldOf(Kinds[u.items[i].tag], u.items[i].data)
  <2>1. b \in Seq(Fields)
    BY <1>1, PairStored DEF b, u
  <2> QED
    BY <1>1, <2>1, PairStored, ItemsIn DEF b, u
<1>5. Len(b) = Len(a) /\ \A j \in 1..Len(a) : Width(b[j]) = Width(a[j])
  <2>1. CASE v.tag # 9
    <3>1. v.tag \in DOMAIN Kinds /\ v.data \in Nat
      BY <1>1, <2>1, ValueTyped
    <3>2. Width(b[3]) = Width(a[3])
      BY <1>1, <1>3, <1>4, <2>1, <3>1, ScalarKept
    <3>3. Len(a) = 3 /\ Len(b) = 3 /\ b[1] = a[1] /\ b[2] = a[2]
      BY <1>1, <1>3, <1>4, <2>1
    <3>4. \A j \in 1..3 : j = 1 \/ j = 2 \/ j = 3
      OBVIOUS
    <3> QED
      BY <3>2, <3>3, <3>4
  <2>2. CASE v.tag = 9
    <3> DEFINE n == Len(v.items)
    <3>1. v.elem \in Nat /\ u.elem \in Nat /\ n \in Nat /\ v.items \in Seq(Scalars)
      BY <1>1, <2>2, ValueTyped, ItemsIn
    <3>2. /\ Len(a) = 4 + n /\ Len(b) = 4 + n /\ b[1] = a[1] /\ b[2] = a[2] /\ b[4] = a[4]
          /\ Width(b[3]) = Width(a[3])
      <4>1. b[1] = a[1] /\ b[2] = a[2]
        BY <1>1, <1>3, <1>4
      <4>2. u.tag = 9 /\ Len(u.items) = n
        BY <1>1, <2>2
      <4>3. Len(a) = 4 + n /\ a[3] = FieldOf("word", v.elem) /\ a[4] = FieldOf("long", n)
        BY <1>3, <2>2
      <4>4. Len(b) = 4 + n /\ b[3] = FieldOf("word", u.elem) /\ b[4] = FieldOf("long", n)
        BY <1>4, <4>2, Zenon
      <4>5. Width(b[3]) = Width(a[3])
        BY <1>2, <3>1, <4>3, <4>4, ZenonT(30)
      <4> QED
        BY <4>1, <4>3, <4>4, <4>5, Zenon
    <3>3. \A i \in 1..n : Width(b[4 + i]) = Width(a[4 + i])
      <4> SUFFICES ASSUME NEW i \in 1..n PROVE Width(b[4 + i]) = Width(a[4 + i])
        OBVIOUS
      <4>1. v.items[i].tag \in DOMAIN Kinds /\ v.items[i].data \in Nat
        <5>1. v.items[i] \in Scalars
          BY <3>1, ItemsIn
        <5> QED
          BY <5>1 DEF Scalars
      <4> DEFINE t == v.items[i].tag
                 d == v.items[i].data
      <4>2. u.items[i] = Scalar(t, d) /\ a[4 + i] = FieldOf(Kinds[t], d)
            /\ b[4 + i] = FieldOf(Kinds[u.items[i].tag], u.items[i].data)
        BY <1>1, <1>3, <1>4, <2>2
      <4> HIDE DEF t, d
      <4> QED
        BY <4>1, <4>2, ScalarKept DEF t, d
    <3> HIDE DEF n
    <3>4. \A j \in 1..(4 + n) : j = 1 \/ j = 2 \/ j = 3 \/ j = 4 \/ (j - 4 \in 1..n /\ j = 4 + (j - 4))
      BY <3>1
    <3> QED
      BY <3>2, <3>3, <3>4
  <2> QED
    BY <2>1, <2>2
<1> QED
  BY <1>5 DEF FieldSizes, a, b

\* b takes a permutation of 1..n.
Permutes(b, n) ==
  /\ b \in [1..n -> 1..n]
  /\ \A i, j \in 1..n : b[i] = b[j] => i = j
  /\ \A j \in 1..n : \E i \in 1..n : b[i] = j

\* The i-th key of m in their order is that of the pair b[i], which was read last.
InOrder(b, n, pairs, m) ==
  /\ Permutes(b, n)
  /\ \A i \in 1..n : LET k == SortedKeys(DOMAIN m)[i] IN
       k = pairs[b[i]].key /\ m[k] = Parsed(pairs[b[i]].value)

\* Where the keys differ, each of them is written once, in a place of its own.
LEMMA KeysOnce ==
  ASSUME NEW n \in Nat, NEW pairs, DOMAIN pairs = 1..n, Unique(pairs),
         NEW m, TypedMetadata(m), MetadataOf(m, pairs, n)
  PROVE  Len(SortedKeys(DOMAIN m)) = n /\ \E b : InOrder(b, n, pairs, m)
<1> DEFINE K == DOMAIN m
           q == SortedKeys(K)
           f == [i \in 1..n |-> pairs[i].key]
           at1(i) == CHOOSE j \in 1..n : pairs[j].key = q[i]
           b == [i \in 1..n |-> at1(i)]
<1>1. IsFiniteSet(K) /\ K \subseteq Nat
  BY DEF TypedMetadata
<1>2. K = {pairs[i].key : i \in 1..n} /\ \A i \in 1..n : m[pairs[i].key] = Parsed(pairs[i].value)
  <2>1. K = {pairs[i].key : i \in 1..n}
    BY DEF MetadataOf
  <2>2. \A i \in DOMAIN pairs : m[pairs[i].key] = Parsed(pairs[i].value)
    BY MetadataWhole
  <2> QED
    BY <2>1, <2>2
<1>3. Cardinality(K) = n
  <2>1. f \in [1..n -> K] /\ \A i \in 1..n : f[i] = pairs[i].key
    BY <1>2
  <2>2. \A i, j \in 1..n : f[i] = f[j] => i = j
    BY <2>1 DEF Unique
  <2>3. \A k \in K : \E i \in 1..n : f[i] = k
    BY <1>2, <2>1
  <2> HIDE DEF f, K
  <2>4. f \in Bijection(1..n, K)
    BY <2>1, <2>2, <2>3 DEF Bijection, Injection, Surjection, IsInjective
  <2>5. ExistsBijection(1..n, K)
    BY <2>4 DEF ExistsBijection
  <2> QED
    BY <2>5, FS_CountingElements
<1> HIDE DEF K
<1>4. /\ Len(q) = n /\ \A i \in 1..n : q[i] \in K
      /\ \A k \in K : \E i \in 1..n : q[i] = k
      /\ \A i, j \in 1..n : q[i] = q[j] => i = j
  BY <1>1, <1>3, KeysSorted
<1> HIDE DEF q
<1>5. \A i \in 1..n : at1(i) \in 1..n /\ pairs[at1(i)].key = q[i]
  <2> SUFFICES ASSUME NEW i \in 1..n PROVE at1(i) \in 1..n /\ pairs[at1(i)].key = q[i]
    OBVIOUS
  <2>1. q[i] \in K
    BY <1>4
  <2>2. \E j \in 1..n : pairs[j].key = q[i]
    BY ONLY <1>2, <2>1
  <2> QED
    BY <2>2
<1> HIDE DEF at1
<1>6. b \in [1..n -> 1..n] /\ \A i \in 1..n : b[i] = at1(i)
  BY <1>5
<1> HIDE DEF b
<1>7. \A i, j \in 1..n : b[i] = b[j] => i = j
  BY <1>4, <1>5, <1>6, SMTT(30)
<1>8. \A j \in 1..n : \E i \in 1..n : b[i] = j
  <2> SUFFICES ASSUME NEW j \in 1..n PROVE \E i \in 1..n : b[i] = j
    OBVIOUS
  <2>1. PICK i \in 1..n : q[i] = pairs[j].key
    BY <1>2, <1>4
  <2>2. pairs[b[i]].key = pairs[j].key /\ b[i] \in DOMAIN pairs /\ j \in DOMAIN pairs
    BY <1>5, <1>6, <2>1
  <2>3. b[i] = j
    BY <2>2, Zenon DEF Unique
  <2> QED
    BY <2>3
<1>9. \A i \in 1..n : q[i] = pairs[b[i]].key /\ m[q[i]] = Parsed(pairs[b[i]].value)
  BY <1>2, <1>5, <1>6
<1>10. Permutes(b, n)
  BY <1>6, <1>7, <1>8 DEF Permutes
<1>11. InOrder(b, n, pairs, m)
  BY <1>9, <1>10, Zenon DEF InOrder, q, K
<1> QED
  BY <1>4, <1>11 DEF q, K

-----------------------------------------------------------------------------
Offset(c) == ((TotalBytes(Records(c)) + 31) \div 32) * 32

\* What parse returns of a file that holds c.
Made(c, r) ==
  /\ r = [status |-> "parsed", header |-> c.header, metadata |-> r.metadata,
          tensors |-> c.tensors, dataOffset |-> Offset(c)]
  /\ MetadataOf(r.metadata, c.pairs, Len(c.pairs))
  /\ Fine(c)

\* The pairs that are written are those of the file, in the order of their keys.
LEMMA PairsWritten ==
  ASSUME NEW c, Content(c), Counted(c), Unique(c.pairs), NEW g, Outcome(g), Made(c, g)
  PROVE  LET w == Written(g)
             n == Len(c.pairs)
         IN  /\ Content(w) /\ Counted(w) /\ w.header = c.header /\ w.tensors = c.tensors
             /\ Fine(w) /\ n \in Nat /\ Len(w.pairs) = n
             /\ \E b : Permutes(b, n) /\
                  \A i \in 1..n :
                       w.pairs[i] = [key |-> c.pairs[b[i]].key,
                                     value |-> WrittenValue(Parsed(c.pairs[b[i]].value))]
<1> DEFINE w == Written(g)
           n == Len(c.pairs)
           m == g.metadata
           q == SortedKeys(DOMAIN m)
<1>1. g.status = "parsed" /\ g.header = c.header /\ g.tensors = c.tensors
  BY DEF Made
<1>2. MetadataOf(m, c.pairs, n) /\ Fine(c) /\ TypedMetadata(m)
  BY <1>1 DEF Made, Outcome
<1>3. n \in Nat /\ DOMAIN c.pairs = 1..n /\ c.pairs \in Seq([key : Nat, value : FileValues])
  <2>1. c.pairs \in Seq([key : Nat, value : FileValues])
    BY DEF Content
  <2> QED
    BY <2>1, ItemsIn
<1>4. /\ Content(w) /\ w.header = g.header /\ w.tensors = g.tensors /\ Len(w.pairs) = Len(q)
      /\ \A i \in 1..Len(q) : /\ w.pairs[i].key = q[i]
                              /\ w.pairs[i].value = WrittenValue(m[q[i]])
  BY <1>1, WrittenContent
<1> HIDE DEF w, m, q, n
<1>5. Len(q) = n /\ \E b : InOrder(b, n, c.pairs, m)
  BY <1>2, <1>3, KeysOnce DEF q
<1>6. PICK b : InOrder(b, n, c.pairs, m)
  BY <1>5
<1>7. /\ Permutes(b, n) /\ b \in [1..n -> 1..n]
       /\ \A i \in 1..n : q[i] = c.pairs[b[i]].key /\ m[q[i]] = Parsed(c.pairs[b[i]].value)
  BY <1>6, Zenon DEF InOrder, Permutes, q
<1>8. \A i \in 1..n : w.pairs[i] \in [key : Nat, value : FileValues]
  <2>1. w.pairs \in Seq([key : Nat, value : FileValues]) /\ Len(w.pairs) = n
    BY <1>4, <1>5 DEF Content
  <2> QED
    BY <2>1, ItemsIn
<1>9. ASSUME NEW i \in 1..n
      PROVE  w.pairs[i] = [key |-> c.pairs[b[i]].key,
                           value |-> WrittenValue(Parsed(c.pairs[b[i]].value))]
  <2> DEFINE e == w.pairs[i]
             k == c.pairs[b[i]].key
             v == WrittenValue(Parsed(c.pairs[b[i]].value))
  <2>1. e \in [key : Nat, value : FileValues]
    BY <1>8
  <2>2. e.key = k /\ e.value = v
    <3>1. i \in 1..Len(q)
      BY <1>5
    <3>2. e.key = q[i] /\ e.value = WrittenValue(m[q[i]])
      BY <1>4, <3>1, Zenon
    <3>3. q[i] = k /\ m[q[i]] = Parsed(c.pairs[b[i]].value)
      BY <1>7, Zenon
    <3> QED
      BY <3>2, <3>3, Zenon
  <2> HIDE DEF e, k, v
  <2>3. e = [key |-> k, value |-> v]
    BY <2>1, <2>2
  <2> QED
    BY <2>3 DEF e, k, v
<1>10. Counted(w)
  <2>1. w.header[3] = Len(w.tensors) /\ w.header[4] = Len(w.pairs)
    BY <1>1, <1>4, <1>5 DEF Counted, n
  <2>2. \A i \in 1..Len(w.pairs) : OneTag(w.pairs[i].value)
    <3> SUFFICES ASSUME NEW i \in 1..n PROVE OneTag(w.pairs[i].value)
      BY <1>4, <1>5
    <3> DEFINE v == c.pairs[b[i]].value
    <3>1. b[i] \in 1..n
      BY <1>7
    <3>2. v \in FileValues /\ OneTag(v)
      <4>1. c.pairs[b[i]] \in [key : Nat, value : FileValues]
        BY <1>3, <3>1, ItemsIn
      <4> QED
        BY <3>1, <4>1 DEF Counted, n
    <3> HIDE DEF v
    <3>3. OneTag(WrittenValue(Parsed(v)))
      BY <3>2, WrittenBack
    <3> DEFINE k == c.pairs[b[i]].key
    <3>4. w.pairs[i] = [key |-> k, value |-> WrittenValue(Parsed(v))]
      BY <1>9, Zenon DEF v
    <3> HIDE DEF k
    <3> QED
      BY <3>3, <3>4
  <2> QED
    BY <2>1, <2>2, Zenon DEF Counted
<1>11. Fine(w)
  BY <1>1, <1>2, <1>4, Zenon DEF Fine
<1> QED
  BY <1>1, <1>3, <1>4, <1>5, <1>7, <1>9, <1>10, <1>11 DEF w, n

LEMMA BytesKept ==
  ASSUME NEW c, Content(c), Counted(c), NEW w, Content(w),
         w.header = c.header, w.tensors = c.tensors, Len(w.pairs) = Len(c.pairs),
         NEW b, Permutes(b, Len(c.pairs)),
         \A i \in 1..Len(c.pairs) :
           w.pairs[i] = [key |-> c.pairs[b[i]].key,
                         value |-> WrittenValue(Parsed(c.pairs[b[i]].value))]
  PROVE  TotalBytes(Records(w)) = TotalBytes(Records(c))
<1> DEFINE r == Records(c)
           s == Records(w)
           n == Len(c.pairs)
           t == Len(c.tensors)
           m == 1 + n + t
           to == [i \in 1..m |-> IF i = 1 THEN 1 ELSE IF i <= 1 + n THEN 1 + b[i - 1] ELSE i]
           size(x) == SumOf(FieldSizes(x), 1..Len(x))
<1>1. /\ r \in Seq(Seq(Fields)) /\ n \in Nat /\ t \in Nat /\ Len(r) = m
      /\ r[1] = StoredHeader(c.header)
      /\ \A i \in 1..n : r[1 + i] = StoredPair(c.pairs[i])
      /\ \A i \in 1..t : r[1 + n + i] = StoredTensor(c.tensors[i])
  BY RecordsListed
<1>2. /\ s \in Seq(Seq(Fields)) /\ Len(s) = m /\ s[1] = StoredHeader(c.header)
      /\ \A i \in 1..n : s[1 + i] = StoredPair(w.pairs[i])
      /\ \A i \in 1..t : s[1 + n + i] = StoredTensor(c.tensors[i])
  <2>1. /\ s \in Seq(Seq(Fields)) /\ Len(s) = 1 + Len(w.pairs) + Len(w.tensors)
        /\ s[1] = StoredHeader(w.header)
        /\ \A i \in 1..Len(w.pairs) : s[1 + i] = StoredPair(w.pairs[i])
        /\ \A i \in 1..Len(w.tensors) : s[1 + Len(w.pairs) + i] = StoredTensor(w.tensors[i])
    BY RecordsListed
  <2>2. Len(w.pairs) = n /\ w.tensors = c.tensors /\ w.header = c.header /\ Len(w.tensors) = t
    OBVIOUS
  <2> HIDE DEF s, n, t
  <2> QED
    BY <2>1, <2>2, Zenon
<1>3. \A i \in 1..n : c.pairs[i] \in [key : Nat, value : FileValues] /\ OneTag(c.pairs[i].value)
  <2>1. c.pairs \in Seq([key : Nat, value : FileValues])
    BY DEF Content
  <2> QED
    BY <2>1, ItemsIn DEF Counted
<1>4. /\ b \in [1..n -> 1..n] /\ \A i, j \in 1..n : b[i] = b[j] => i = j
      /\ \A j \in 1..n : \E i \in 1..n : b[i] = j
  BY DEF Permutes
<1>5. \A i \in 1..n : size(StoredPair(w.pairs[i])) = size(StoredPair(c.pairs[b[i]]))
  <2> SUFFICES ASSUME NEW i \in 1..n
               PROVE  size(StoredPair(w.pairs[i])) = size(StoredPair(c.pairs[b[i]]))
    OBVIOUS
  <2> DEFINE p == c.pairs[b[i]]
             u == w.pairs[i]
  <2>1. /\ p \in [key : Nat, value : FileValues] /\ OneTag(p.value)
        /\ u = [key |-> p.key, value |-> WrittenValue(Parsed(p.value))]
    <3>1. b[i] \in 1..n
      BY <1>4
    <3> HIDE DEF n
    <3> QED
      BY <1>3, <3>1 DEF n
  <2> HIDE DEF p, u
  <2>2. /\ Len(StoredPair(u)) = Len(StoredPair(p))
        /\ FieldSizes(StoredPair(u)) = FieldSizes(StoredPair(p))
    BY <2>1, PairSizeKept
  <2>3. size(StoredPair(u)) = size(StoredPair(p))
    BY <2>2, Zenon
  <2> QED
    BY <2>3 DEF p, u
<1> HIDE DEF n, t
<1>6. m \in Nat /\ IsFiniteSet(1..m)
  BY <1>1, FS_Interval
<1>7. ASSUME NEW i \in 1..m
      PROVE  \/ i = 1
             \/ i - 1 \in 1..n /\ i # 1 /\ i <= 1 + n /\ i = 1 + (i - 1)
             \/ i - 1 - n \in 1..t /\ i # 1 /\ ~(i <= 1 + n) /\ i = 1 + n + (i - 1 - n)
  BY <1>1
<1>8. ASSUME NEW i \in 1..m
      PROVE  /\ i = 1 => to[i] = 1
             /\ i - 1 \in 1..n => to[i] = 1 + b[i - 1] /\ b[i - 1] \in 1..n /\ i # 1
             /\ i - 1 - n \in 1..t => to[i] = i /\ i # 1
  <2> DEFINE x == b[i - 1]
  <2>1. to[i] = IF i = 1 THEN 1 ELSE IF i <= 1 + n THEN 1 + x ELSE i
    OBVIOUS
  <2>2. i - 1 \in 1..n => x \in 1..n
    BY <1>4
  <2>3. n \in Nat /\ t \in Nat /\ i \in Nat
    BY <1>1
  <2> HIDE DEF x, to
  <2>4. /\ i = 1 => to[i] = 1
        /\ i - 1 \in 1..n => to[i] = 1 + x /\ x \in 1..n /\ i # 1
        /\ i - 1 - n \in 1..t => to[i] = i /\ i # 1
    BY ONLY <2>1, <2>2, <2>3
  <2> QED
    BY <2>4 DEF x
<1> HIDE DEF to
<1>9. to \in [1..m -> 1..m]
  <2>1. to = [i \in 1..m |-> to[i]]
    BY DEF to
  <2>2. \A i \in 1..m : to[i] \in 1..m
    <3> SUFFICES ASSUME NEW i \in 1..m PROVE to[i] \in 1..m
      OBVIOUS
    <3>1. CASE i = 1
      BY <1>8, <3>1
    <3>2. CASE i - 1 \in 1..n
      <4> DEFINE x == b[i - 1]
      <4>1. to[i] = 1 + x /\ x \in 1..n /\ n \in Nat /\ t \in Nat
        BY <1>1, <1>8, <3>2
      <4> HIDE DEF x
      <4> QED
        BY ONLY <4>1
    <3>3. CASE i - 1 - n \in 1..t
      BY <1>8, <3>3
    <3> QED
      BY <1>7, <3>1, <3>2, <3>3
  <2> HIDE DEF m
  <2> QED
    BY <2>1, <2>2
<1>10. \A i, j \in 1..m : to[i] = to[j] => i = j
  <2> SUFFICES ASSUME NEW i \in 1..m, NEW j \in 1..m, to[i] = to[j] PROVE i = j
    OBVIOUS
  <2> DEFINE x == b[i - 1]
             y == b[j - 1]
  <2>1. \/ i = 1 /\ to[i] = 1
        \/ i - 1 \in 1..n /\ to[i] = 1 + x /\ x \in 1..n
        \/ i - 1 - n \in 1..t /\ to[i] = i
    BY <1>7, <1>8
  <2>2. \/ j = 1 /\ to[j] = 1
        \/ j - 1 \in 1..n /\ to[j] = 1 + y /\ y \in 1..n
        \/ j - 1 - n \in 1..t /\ to[j] = j
    BY <1>7, <1>8
  <2>3. i - 1 \in 1..n /\ j - 1 \in 1..n /\ x = y => i - 1 = j - 1
    BY <1>4
  <2>4. i \in Nat /\ j \in Nat /\ n \in Nat /\ t \in Nat /\ to[i] = to[j]
    BY <1>1
  <2> HIDE DEF x, y, m
  <2> QED
    BY ONLY <2>1, <2>2, <2>3, <2>4
<1>11. \A j \in 1..m : \E i \in 1..m : to[i] = j
  <2>1. IsFiniteSet(1..m) /\ to \in [1..m -> 1..m]
    BY <1>6, <1>9
  <2> HIDE DEF m
  <2>2. to \in Injection(1..m, 1..m)
    BY <1>10, <2>1 DEF Injection, IsInjective
  <2>3. to \in Surjection(1..m, 1..m)
    BY <2>1, <2>2, FS_Injection
  <2> QED
    BY <2>3 DEF Surjection
<1>12. \A i \in 1..m : RecordSizes(s)[i] = size(s[i]) /\ RecordSizes(r)[i] = size(r[i])
  <2>1. Len(s) = m /\ Len(r) = m
    BY <1>1, <1>2
  <2> HIDE DEF m, r, s
  <2> QED
    BY <2>1, Zenon DEF RecordSizes
<1> HIDE DEF size, r, s
<1>13. \A i \in 1..m : size(s[i]) = size(r[to[i]])
  <2> SUFFICES ASSUME NEW i \in 1..m PROVE size(s[i]) = size(r[to[i]])
    OBVIOUS
  <2>1. CASE i = 1
    BY <1>1, <1>2, <1>8, <2>1
  <2>2. CASE i - 1 \in 1..n /\ i = 1 + (i - 1)
    <3> DEFINE k == i - 1
    <3>1. s[1 + k] = StoredPair(w.pairs[k]) /\ r[1 + b[k]] = StoredPair(c.pairs[b[k]])
          /\ to[i] = 1 + b[k] /\ size(StoredPair(w.pairs[k])) = size(StoredPair(c.pairs[b[k]]))
      BY <1>1, <1>2, <1>5, <1>8, <2>2
    <3>2. i = 1 + k
      BY <2>2
    <3> HIDE DEF k
    <3> QED
      BY <3>1, <3>2, Zenon
  <2>3. CASE i - 1 - n \in 1..t /\ i = 1 + n + (i - 1 - n)
    <3> DEFINE k == i - 1 - n
    <3>1. k \in 1..t /\ i = 1 + n + k /\ to[i] = i
      BY <1>8, <2>3
    <3> HIDE DEF k
    <3>2. s[i] = r[i]
      BY <1>1, <1>2, <3>1
    <3> QED
      BY <3>1, <3>2
  <2> QED
    BY <1>7, <2>1, <2>2, <2>3
<1>14. IntValued(RecordSizes(s), 1..m) /\ IntValued(RecordSizes(r), 1..m)
  BY <1>1, <1>2, RecordsSized
<1>15. \A i \in 1..m : RecordSizes(s)[i] = RecordSizes(r)[to[i]]
  BY <1>9, <1>12, <1>13
<1>16. TotalBytes(r) = SumOf(RecordSizes(r), 1..m) /\ TotalBytes(s) = SumOf(RecordSizes(s), 1..m)
  BY <1>1, <1>2 DEF TotalBytes
<1> DEFINE S == 1..m
<1>17. /\ IntValued(RecordSizes(s), S) /\ IntValued(RecordSizes(r), S) /\ to \in [S -> S]
       /\ \A x, y \in S : to[x] = to[y] => x = y
       /\ \A y \in S : \E x \in S : to[x] = y
       /\ \A x \in S : RecordSizes(s)[x] = RecordSizes(r)[to[x]]
  BY <1>9, <1>10, <1>11, <1>14, <1>15
<1> HIDE DEF S
<1>18. SumOf(RecordSizes(s), S) = SumOf(RecordSizes(r), S)
  BY ONLY <1>17, SumPermuted
<1> QED
  BY <1>16, <1>18 DEF S, r, s

\* What was parsed and is written is a file of this format that nothing is refused of.
LEMMA FileWritten ==
  ASSUME NEW c, Content(c), Counted(c), Unique(c.pairs), NEW g, Outcome(g), Made(c, g)
  PROVE  Content(Written(g)) /\ Counted(Written(g)) /\ Fine(Written(g)) /\ Offset(Written(g)) = Offset(c)
<1> DEFINE w == Written(g)
           n == Len(c.pairs)
<1>1. /\ Content(w) /\ Counted(w) /\ w.header = c.header /\ w.tensors = c.tensors
      /\ Fine(w) /\ n \in Nat /\ Len(w.pairs) = n
  BY PairsWritten
<1>2. PICK b : /\ Permutes(b, n)
               /\ \A i \in 1..n :
                    w.pairs[i] = [key |-> c.pairs[b[i]].key,
                                  value |-> WrittenValue(Parsed(c.pairs[b[i]].value))]
  BY PairsWritten
<1> HIDE DEF w
<1>3. TotalBytes(Records(w)) = TotalBytes(Records(c))
  BY <1>1, <1>2, BytesKept
<1>4. Offset(w) = Offset(c)
  BY <1>3, Zenon DEF Offset
<1> QED
  BY <1>1, <1>4 DEF w

\* And it is parsed to the same.
LEMMA ParsedAgain ==
  ASSUME NEW c, Content(c), Counted(c), Unique(c.pairs), NEW g, Outcome(g), Made(c, g),
         NEW h, Made(Written(g), h)
  PROVE  h = g
<1> DEFINE w == Written(g)
           n == Len(c.pairs)
           mg == g.metadata
           mh == h.metadata
<1>1. /\ w.header = c.header /\ w.tensors = c.tensors /\ n \in Nat /\ Len(w.pairs) = n
  BY PairsWritten
<1>2. PICK b : /\ Permutes(b, n)
               /\ \A i \in 1..n :
                    w.pairs[i] = [key |-> c.pairs[b[i]].key,
                                  value |-> WrittenValue(Parsed(c.pairs[b[i]].value))]
  BY PairsWritten
<1>3. /\ b \in [1..n -> 1..n] /\ \A j \in 1..n : \E i \in 1..n : b[i] = j
  BY <1>2 DEF Permutes
<1>4. Offset(w) = Offset(c)
  BY FileWritten
<1>5. /\ MetadataOf(mg, c.pairs, n) /\ MetadataOf(mh, w.pairs, n)
  BY <1>1 DEF Made
<1>6. DOMAIN c.pairs = 1..n /\ \A i \in 1..n : c.pairs[i].value \in FileValues /\ OneTag(c.pairs[i].value)
  <2>1. c.pairs \in Seq([key : Nat, value : FileValues])
    BY DEF Content
  <2>2. DOMAIN c.pairs = 1..n /\ \A i \in 1..n : c.pairs[i] \in [key : Nat, value : FileValues]
    BY <2>1, ItemsIn
  <2>3. \A i \in 1..n : OneTag(c.pairs[i].value)
    BY DEF Counted
  <2> QED
    BY <2>2, <2>3
<1> HIDE DEF w, mg, mh, n
<1>7. /\ DOMAIN mg = {c.pairs[i].key : i \in 1..n}
      /\ \A i \in 1..n : mg[c.pairs[i].key] = Parsed(c.pairs[i].value)
  <2>1. DOMAIN mg = {c.pairs[i].key : i \in 1..n}
    BY <1>5 DEF MetadataOf
  <2>2. \A i \in DOMAIN c.pairs : mg[c.pairs[i].key] = Parsed(c.pairs[i].value)
    BY <1>1, <1>5, <1>6, MetadataWhole
  <2> QED
    BY <1>6, <2>1, <2>2
<1>8. /\ mg = [k \in DOMAIN mg |-> mg[k]] /\ mh = [k \in DOMAIN mh |-> mh[k]]
      /\ DOMAIN mh = {w.pairs[i].key : i \in 1..n}
      /\ \A k \in DOMAIN mh : \E i \in 1..n : w.pairs[i].key = k /\ mh[k] = Parsed(w.pairs[i].value)
  BY <1>5 DEF MetadataOf
<1>9. \A i \in 1..n : /\ b[i] \in 1..n /\ w.pairs[i].key = c.pairs[b[i]].key
                      /\ Parsed(w.pairs[i].value) = Parsed(c.pairs[b[i]].value)
  <2> SUFFICES ASSUME NEW i \in 1..n
               PROVE  /\ b[i] \in 1..n /\ w.pairs[i].key = c.pairs[b[i]].key
                      /\ Parsed(w.pairs[i].value) = Parsed(c.pairs[b[i]].value)
    OBVIOUS
  <2> DEFINE p == c.pairs[b[i]]
             v == p.value
             e == w.pairs[i]
  <2>1. e = [key |-> p.key, value |-> WrittenValue(Parsed(v))] /\ b[i] \in 1..n
    BY <1>2, <1>3
  <2>2. v \in FileValues /\ OneTag(v)
    BY <1>6, <2>1
  <2> HIDE DEF e, v
  <2>3. e.key = p.key /\ e.value = WrittenValue(Parsed(v))
    BY <2>1
  <2>4. Parsed(WrittenValue(Parsed(v))) = Parsed(v)
    BY <2>2, WrittenBack
  <2> QED
    BY <2>1, <2>3, <2>4 DEF e, v
<1>10. DOMAIN mh = DOMAIN mg
  <2>1. \A k \in DOMAIN mh : k \in DOMAIN mg
    BY <1>7, <1>8, <1>9
  <2>2. \A k \in DOMAIN mg : k \in DOMAIN mh
    <3> SUFFICES ASSUME NEW k \in DOMAIN mg PROVE k \in DOMAIN mh
      OBVIOUS
    <3>1. PICK j \in 1..n : c.pairs[j].key = k
      BY <1>7
    <3>2. PICK i \in 1..n : b[i] = j
      BY <1>3
    <3>3. w.pairs[i].key = k
      BY <1>9, <3>1, <3>2
    <3> QED
      BY <1>8, <3>3
  <2> QED
    BY <2>1, <2>2
<1>11. \A k \in DOMAIN mg : mh[k] = mg[k]
  <2> SUFFICES ASSUME NEW k \in DOMAIN mg PROVE mh[k] = mg[k]
    OBVIOUS
  <2>1. PICK i \in 1..n : w.pairs[i].key = k /\ mh[k] = Parsed(w.pairs[i].value)
    BY <1>8, <1>10
  <2>2. mh[k] = Parsed(c.pairs[b[i]].value) /\ k = c.pairs[b[i]].key /\ b[i] \in 1..n
    BY <1>9, <2>1
  <2> QED
    BY <1>7, <2>2
<1>12. mh = mg
  BY <1>8, <1>10, <1>11
<1>13. /\ g = [status |-> "parsed", header |-> c.header, metadata |-> mg,
               tensors |-> c.tensors, dataOffset |-> Offset(c)]
       /\ h = [status |-> "parsed", header |-> w.header, metadata |-> mh,
               tensors |-> w.tensors, dataOffset |-> Offset(w)]
  BY Zenon DEF Made, w, mg, mh
<1> QED
  BY <1>1, <1>4, <1>12, <1>13, Zenon

-----------------------------------------------------------------------------
\* What parse returns once the reader is through a file or has stopped in it.
LEMMA ReaderReturns ==
  ASSUME NEW c, GTypes, Reads(c), at \in {"parsed", "refused", "astray"}
  PROVE  \/ /\ Result = [status |-> "refused"]
            /\ ~(Fine(c) /\ Len(fields) = Len(Stored(c)))
         \/ /\ Made(c, Result) /\ Result.status = "parsed"
            /\ Len(fields) = Len(Stored(c))
<1>1. at # "astray"
  BY DEF Reads, InPlace
<1>2. CASE at = "refused"
  <2>1. Result = [status |-> "refused"]
    BY <1>2 DEF Result
  <2> QED
    BY <1>2, <2>1 DEF Reads, InPlace
<1>3. CASE at = "parsed"
  <2> DEFINE d == ((bytes + 31) \div 32) * 32
  <2>1. /\ header = c.header /\ HeaderGood(c.header) /\ pairsRead = Len(c.pairs)
        /\ MetadataOf(metadata, c.pairs, pairsRead) /\ tensors \in Seq(Entries)
        /\ Len(tensors) = Len(c.tensors) /\ \A i \in 1..Len(tensors) : tensors[i] = c.tensors[i]
    BY <1>3 DEF Reads, Agrees
  <2>2. c.tensors \in Seq(FileTensors)
    BY DEF Reads, Content
  <2>3. tensors = c.tensors /\ \A i \in 1..Len(c.tensors) : c.tensors[i].type \in GgmlTypes
    <3> DEFINE s == c.tensors
    <3>1. s \in Seq(FileTensors) /\ tensors \in Seq(Entries) /\ Len(tensors) = Len(s)
          /\ \A i \in 1..Len(tensors) : tensors[i] = s[i]
      BY <2>1, <2>2
    <3> HIDE DEF s
    <3>2. tensors = s
      BY ONLY <3>1
    <3>3. \A i \in 1..Len(s) : s[i] \in Entries
      BY ONLY <3>1, <3>2, ItemsIn
    <3>4. \A i \in 1..Len(s) : s[i].type \in GgmlTypes
      BY <3>3 DEF Entries
    <3> QED
      BY <3>2, <3>4 DEF s
  <2>4. Fine(c)
    BY <2>1, <2>3 DEF Fine
  <2>5. pos = Len(Stored(c)) /\ bytes = TotalBytes(Records(c)) /\ pos \in 0..Len(fields)
        /\ Len(fields) \in 0..Len(Stored(c))
    BY <1>3 DEF Reads, InPlace, FileStarts, GTypes, ReaderTypes
  <2>6. Len(fields) = Len(Stored(c))
    <3> DEFINE a == Len(fields)
               b == Len(Stored(c))
    <3>1. pos = b /\ pos \in 0..a /\ a \in 0..b
      BY <2>5
    <3> HIDE DEF a, b
    <3>2. a = b
      BY ONLY <3>1
    <3> QED
      BY <3>2 DEF a, b
  <2>7. d = Offset(c)
    BY <2>5, Zenon DEF Offset
  <2> HIDE DEF d
  <2>8. Result = [status |-> "parsed", header |-> header, metadata |-> metadata,
                  tensors |-> tensors, dataOffset |-> d]
    BY <1>3 DEF Result, d
  <2>9. Result.metadata = metadata /\ Result.status = "parsed"
    BY <2>8
  <2>10. Made(c, Result)
    <3>1. MetadataOf(Result.metadata, c.pairs, Len(c.pairs))
      BY <2>1, <2>9
    <3>2. Result = [status |-> "parsed", header |-> c.header, metadata |-> Result.metadata,
                    tensors |-> c.tensors, dataOffset |-> Offset(c)]
      BY <2>1, <2>3, <2>7, <2>8, <2>9, Zenon
    <3> QED
      BY <2>4, <3>1, <3>2, Zenon DEF Made
  <2> QED
    BY <2>6, <2>9, <2>10
<1> QED
  BY <1>1, <1>2, <1>3

-----------------------------------------------------------------------------
(***************************************************************************)
(* The invariant: what the first parse returned, and where the reader is   *)
(* in the file that was fetched, or in the one that was written.           *)
(***************************************************************************)
FirstParse ==
  /\ ggufStage = "fetched" => /\ first = NotRead /\ second = NotRead
                              /\ complete <=> Len(fields) = Len(Stored(original))
  /\ ggufStage # "fetched" => \/ first = [status |-> "refused"]
                              \/ complete /\ Made(original, first) /\ first.status = "parsed"
  /\ ggufStage \in {"written", "done"} => first.status = "parsed"

Reading ==
  /\ ggufStage = "fetched" => \E c : c = original /\ Reads(c)
  /\ ggufStage = "written" /\ Unique(original.pairs) =>
       \E c : c = Written(first) /\ Reads(c) /\ Len(fields) = Len(Stored(c))
  /\ ggufStage = "done" /\ Unique(original.pairs) => second = first

GInv == GTypes /\ FirstParse /\ Reading

\* A whole file, or the beginning of one, that is to be read.
LEMMA ReaderStarts ==
  ASSUME NEW c, Content(c), Counted(c), FileStarts(c),
         at = "header", got = <<>>, pos = 0, bytes = 0,
         header = <<>>, pairsRead = 0, metadata = [k \in {} |-> k], tensors = <<>>
  PROVE  Reads(c)
<1>1. Placed(c, 0, <<>>, 0, 0) /\ Len(c.pairs) \in Nat /\ Len(c.tensors) \in Nat
  BY FileBegins
<1>2. MetadataOf(metadata, c.pairs, pairsRead)
  BY UnreadAgrees
<1>3. at \notin {"pair", "tensor", "parsed", "refused", "astray"}
  OBVIOUS
<1>4. /\ pairsRead \in 0..Len(c.pairs) /\ Len(tensors) \in 0..Len(c.tensors)
      /\ Len(tensors) = 0 /\ Len(got) = 0 /\ tensors \in Seq(Entries)
  BY <1>1
<1>5. Agrees(c)
  BY <1>2, <1>3, <1>4 DEF Agrees
<1>6. Through = 0
  BY DEF Through
<1>7. Placed(c, Through, got, pos, bytes)
  BY <1>1, <1>6, Zenon
<1>8. InPlace(c)
  BY <1>3, <1>7 DEF InPlace
<1> QED
  BY <1>5, <1>8 DEF Reads

LEMMA ReaderStartsNext ==
  ASSUME NEW c, Content(c), Counted(c), FileStarts(c)',
         at' = "header", got' = <<>>, pos' = 0, bytes' = 0,
         header' = <<>>, pairsRead' = 0, metadata' = [k \in {} |-> k], tensors' = <<>>
  PROVE  Reads(c)'
<1>1. Placed(c, 0, <<>>, 0, 0) /\ Len(c.pairs) \in Nat /\ Len(c.tensors) \in Nat
  BY FileBegins
<1>2. MetadataOf(metadata', c.pairs, pairsRead')
  BY UnreadAgrees
<1>3. at' \notin {"pair", "tensor", "parsed", "refused", "astray"}
  OBVIOUS
<1>4. /\ pairsRead' \in 0..Len(c.pairs) /\ Len(tensors') \in 0..Len(c.tensors)
      /\ Len(tensors') = 0 /\ Len(got') = 0 /\ tensors' \in Seq(Entries)
  BY <1>1
<1>5. Agrees(c)'
  BY <1>2, <1>3, <1>4 DEF Agrees
<1>6. Through' = 0
  BY DEF Through
<1>7. Placed(c, Through', got', pos', bytes')
  BY <1>1, <1>6, Zenon
<1>8. InPlace(c)'
  BY <1>3, <1>7 DEF InPlace
<1> QED
  BY <1>5, <1>8 DEF Reads

\* The initial states.
LEMMA GgufStarts == ASSUME GgufAssumption, GgufInit PROVE GInv
<1>1. GTypes
  BY InitTyped
<1>2. /\ ggufStage = "fetched" /\ at = "header" /\ got = <<>> /\ pos = 0 /\ bytes = 0
      /\ header = <<>> /\ pairsRead = 0 /\ metadata = [k \in {} |-> k] /\ tensors = <<>>
      /\ first = NotRead /\ second = NotRead
  BY Zenon DEF GgufInit
<1>3. PICK n \in 0..Len(Stored(original)) :
        fields = SubSeq(Stored(original), 1, n) /\ complete = (n = Len(Stored(original)))
  BY Zenon DEF GgufInit
<1>4. PICK c : c = original
  OBVIOUS
<1>5. Content(c) /\ Counted(c)
  BY <1>1, <1>4 DEF GTypes, FileTypes
<1>6. FileStarts(c) /\ (complete <=> Len(fields) = Len(Stored(c)))
  <2> DEFINE s == Stored(c)
             m == Len(s)
  <2>1. s \in Seq(Fields) /\ m \in Nat /\ n \in 0..m /\ fields = SubSeq(s, 1, n) /\ m = Len(s)
    BY <1>3, <1>4, <1>5, StoredTyped
  <2>2. complete = (n = m)
    BY <1>3, <1>4
  <2> HIDE DEF s, m
  <2>3. fields \in Seq(Fields) /\ Len(fields) = n /\ \A i \in 1..n : fields[i] = s[i]
    BY ONLY <2>1
  <2>4. Len(fields) \in 0..m /\ \A i \in 1..Len(fields) : fields[i] = s[i]
    BY <2>1, <2>3
  <2>5. complete <=> Len(fields) = m
    BY <2>2, <2>3
  <2> QED
    BY <2>3, <2>4, <2>5, Zenon DEF FileStarts, s, m
<1>7. Reads(c)
  BY <1>2, <1>5, <1>6, ReaderStarts, Zenon
<1>8. FirstParse
  BY <1>2, <1>4, <1>6 DEF FirstParse
<1>9. Reading
  BY <1>2, <1>4, <1>7 DEF Reading
<1> QED
  BY <1>1, <1>8, <1>9 DEF GInv

\* A field is read, or the reader stops.
LEMMA ReaderKept ==
  ASSUME GInv, ReadHeader \/ ReadPair \/ ReadTensor \/ EndOfFile \/ GoAstray
  PROVE  GInv'
<1>1. UNCHANGED <<original, complete, fields, ggufStage, first, second>>
  BY Zenon DEF ReadHeader, ReadPair, ReadTensor, EndOfFile, GoAstray, Takes, fileVars
<1>2. GTypes /\ GTypes'
  <2>1. GTypes
    BY DEF GInv
  <2> QED
    BY <2>1, HeaderTyped, PairTyped, TensorTyped, StopTyped, Zenon
<1>3. ASSUME NEW c, Reads(c) PROVE Reads(c)'
  BY <1>2, <1>3, HeaderReads, PairReads, TensorReads, StopReads, Zenon
<1>4. FirstParse'
  BY <1>1, Zenon DEF GInv, FirstParse
<1>5. ggufStage' = "fetched" => \E c : c = original' /\ Reads(c)'
  <2> SUFFICES ASSUME ggufStage' = "fetched" PROVE \E c : c = original' /\ Reads(c)'
    OBVIOUS
  <2>1. PICK c : c = original /\ Reads(c)
    BY <1>1 DEF GInv, Reading
  <2>2. c = original' /\ Reads(c)'
    BY <1>1, <1>3, <2>1
  <2> QED
    BY <2>2, Zenon
<1>6. ggufStage' = "written" /\ Unique(original'.pairs) =>
        \E c : c = Written(first') /\ Reads(c)' /\ Len(fields') = Len(Stored(c))
  <2> SUFFICES ASSUME ggufStage' = "written", Unique(original'.pairs)
               PROVE  \E c : c = Written(first') /\ Reads(c)' /\ Len(fields') = Len(Stored(c))
    OBVIOUS
  <2>1. PICK c : c = Written(first) /\ Reads(c) /\ Len(fields) = Len(Stored(c))
    BY <1>1 DEF GInv, Reading
  <2>2. c = Written(first') /\ Reads(c)' /\ Len(fields') = Len(Stored(c))
    BY <1>1, <1>3, <2>1
  <2> QED
    BY <2>2, Zenon
<1>7. ggufStage' = "done" /\ Unique(original'.pairs) => second' = first'
  BY <1>1 DEF GInv, Reading
<1>8. Reading'
  BY <1>5, <1>6, <1>7, Zenon DEF Reading
<1> QED
  BY <1>2, <1>4, <1>8 DEF GInv

\* parse returns.
LEMMA ReturnKept == ASSUME GInv, Return PROVE GInv'
<1>1. /\ UNCHANGED <<original, complete, fields>> /\ at \in {"parsed", "refused", "astray"}
      /\ \/ ggufStage = "fetched" /\ ggufStage' = "parsed" /\ first' = Result /\ UNCHANGED second
         \/ ggufStage = "written" /\ ggufStage' = "done" /\ second' = Result /\ UNCHANGED first
  BY Zenon DEF Return
<1>2. GTypes /\ GTypes'
  <2>1. GTypes
    BY DEF GInv
  <2> QED
    BY <2>1, ReturnTyped
<1>3. CASE ggufStage = "fetched" /\ ggufStage' = "parsed" /\ first' = Result /\ UNCHANGED second
  <2>1. PICK c : c = original /\ Reads(c)
    BY <1>3 DEF GInv, Reading
  <2>2. complete <=> Len(fields) = Len(Stored(c))
    BY <1>3, <2>1 DEF GInv, FirstParse
  <2>3. \/ Result = [status |-> "refused"]
        \/ Made(c, Result) /\ Result.status = "parsed" /\ Len(fields) = Len(Stored(c))
    BY <1>1, <1>2, <2>1, ReaderReturns
  <2>4. \/ first' = [status |-> "refused"]
        \/ complete' /\ Made(original', first') /\ first'.status = "parsed"
    BY <1>1, <1>3, <2>1, <2>2, <2>3, Zenon
  <2>5. ggufStage' # "fetched" /\ ggufStage' \notin {"written", "done"}
    BY <1>3
  <2>6. FirstParse'
    BY <2>4, <2>5, Zenon DEF FirstParse
  <2>7. ggufStage' # "written" /\ ggufStage' # "done"
    BY <1>3
  <2>8. Reading'
    BY <2>5, <2>7, Zenon DEF Reading
  <2> QED
    BY <1>2, <2>6, <2>8 DEF GInv
<1>4. CASE ggufStage = "written" /\ ggufStage' = "done" /\ second' = Result /\ UNCHANGED first
  <2>1. ggufStage # "fetched" /\ ggufStage' # "fetched" /\ ggufStage' # "written"
    BY <1>4
  <2>2. first.status = "parsed" /\ first # [status |-> "refused"]
    <3>1. first.status = "parsed"
      BY <1>4 DEF GInv, FirstParse
    <3> QED
      BY <3>1
  <2>3. complete /\ Made(original, first)
    BY <2>1, <2>2, Zenon DEF GInv, FirstParse
  <2>4. FirstParse'
    BY <1>1, <1>4, <2>1, <2>2, <2>3, Zenon DEF FirstParse
  <2>5. ASSUME Unique(original.pairs) PROVE second' = first
    <3>1. PICK c : c = Written(first) /\ Reads(c) /\ Len(fields) = Len(Stored(c))
      BY <1>4, <2>5 DEF GInv, Reading
    <3>2. PICK o : o = original
      OBVIOUS
    <3>3. Content(o) /\ Counted(o) /\ Unique(o.pairs) /\ Outcome(first) /\ Made(o, first)
      BY <1>2, <2>3, <2>5, <3>2 DEF GTypes, FileTypes
    <3>4. PICK g : g = first
      OBVIOUS
    <3>5. Outcome(g) /\ Made(o, g) /\ c = Written(g)
      BY <3>1, <3>3, <3>4
    <3>6. Fine(c)
      BY <3>3, <3>5, FileWritten
    <3>7. Made(c, Result)
      BY <1>1, <1>2, <3>1, <3>6, ReaderReturns
    <3>8. PICK h : h = Result
      OBVIOUS
    <3>9. h = g
      BY <3>3, <3>5, <3>7, <3>8, ParsedAgain
    <3> QED
      BY <1>4, <3>4, <3>8, <3>9
  <2>6. Unique(original'.pairs) => second' = first'
    BY <1>1, <1>4, <2>5, Zenon
  <2>7. Reading'
    BY <2>1, <2>6, Zenon DEF Reading
  <2> QED
    BY <1>2, <2>4, <2>7 DEF GInv
<1> QED
  BY <1>1, <1>3, <1>4

\* What was parsed is written.
LEMMA WriteKept == ASSUME GInv, write PROVE GInv'
<1>1. /\ fields' = Stored(Written(first)) /\ first.status = "parsed"
      /\ ggufStage = "parsed" /\ ggufStage' = "written"
      /\ at' = "header" /\ got' = <<>> /\ pos' = 0 /\ bytes' = 0
      /\ header' = <<>> /\ pairsRead' = 0 /\ metadata' = [k \in {} |-> k] /\ tensors' = <<>>
      /\ UNCHANGED <<original, complete, first, second>>
  BY Zenon DEF write
<1>2. GTypes /\ GTypes'
  <2>1. GTypes
    BY DEF GInv
  <2> QED
    BY <2>1, WriteTyped
<1>3. ggufStage # "fetched" /\ ggufStage' # "fetched" /\ ggufStage' # "done"
  BY <1>1
<1>4. complete /\ Made(original, first)
  <2>1. first # [status |-> "refused"]
    BY <1>1
  <2> QED
    BY <1>3, <2>1, Zenon DEF GInv, FirstParse
<1>5. FirstParse'
  BY <1>1, <1>3, <1>4, Zenon DEF FirstParse
<1>6. ASSUME Unique(original.pairs)
      PROVE  \E c : c = Written(first') /\ Reads(c)' /\ Len(fields') = Len(Stored(c))
  <2>1. PICK o : o = original
    OBVIOUS
  <2>2. PICK g : g = first
    OBVIOUS
  <2>3. PICK c : c = Written(g)
    OBVIOUS
  <2>4. Content(o) /\ Counted(o) /\ Unique(o.pairs) /\ Outcome(g) /\ Made(o, g)
    BY <1>2, <1>4, <1>6, <2>1, <2>2 DEF GTypes, FileTypes
  <2>5. Content(c) /\ Counted(c)
    BY <2>3, <2>4, FileWritten
  <2>6. fields' = Stored(c)
    BY <1>1, <2>2, <2>3
  <2>7. FileStarts(c)'
    <3>1. Stored(c) \in Seq(Fields) /\ Len(Stored(c)) \in Nat
      BY <2>5, StoredTyped
    <3>2. Len(fields') \in 0..Len(Stored(c))
      <4> DEFINE n == Len(Stored(c))
      <4>1. n \in Nat
        BY <3>1
      <4> HIDE DEF n
      <4>2. n \in 0..n
        BY <4>1
      <4> QED
        BY <2>6, <4>2 DEF n
    <3>3. \A i \in 1..Len(fields') : fields'[i] = Stored(c)[i]
      BY <2>6
    <3> QED
      BY <2>6, <3>1, <3>2, <3>3, Zenon DEF FileStarts
  <2>8. Reads(c)'
    BY <1>1, <2>5, <2>7, ReaderStartsNext, Zenon
  <2>9. c = Written(first')
    BY <1>1, <2>2, <2>3
  <2>10. Len(fields') = Len(Stored(c))
    BY <2>6
  <2> QED
    BY <2>8, <2>9, <2>10, Zenon
<1>7. ggufStage' = "written" /\ Unique(original'.pairs) =>
        \E c : c = Written(first') /\ Reads(c)' /\ Len(fields') = Len(Stored(c))
  BY <1>1, <1>6, Zenon
<1>8. Reading'
  BY <1>3, <1>7, Zenon DEF Reading
<1> QED
  BY <1>2, <1>5, <1>8 DEF GInv

\* Every step keeps the invariant.
LEMMA GgufKept == ASSUME GInv, GgufNext PROVE GInv'
BY ReaderKept, ReturnKept, WriteKept, Zenon DEF GgufNext

LEMMA GgufIdle == ASSUME GInv, UNCHANGED ggufVars PROVE GInv'
<1>1. UNCHANGED <<original, complete, fields, ggufStage, first, second, at, got, pos, bytes,
                  header, pairsRead, metadata, tensors>>
  BY Zenon DEF ggufVars, fileVars, parsedVars
<1>2. GTypes /\ GTypes'
  BY <1>1, Zenon DEF GInv, GTypes, ReaderTypes, FileTypes, InRecord
<1>3. ASSUME NEW c, Reads(c) PROVE Reads(c)'
  BY <1>1, <1>3, Zenon DEF Reads, FileStarts, Agrees, InPlace, Through
<1>4. FirstParse'
  BY <1>1, Zenon DEF GInv, FirstParse
<1>5. ggufStage' = "fetched" => \E c : c = original' /\ Reads(c)'
  <2> SUFFICES ASSUME ggufStage' = "fetched" PROVE \E c : c = original' /\ Reads(c)'
    OBVIOUS
  <2>1. PICK c : c = original /\ Reads(c)
    BY <1>1 DEF GInv, Reading
  <2>2. c = original' /\ Reads(c)'
    BY <1>1, <1>3, <2>1
  <2> QED
    BY <2>2, Zenon
<1>6. ggufStage' = "written" /\ Unique(original'.pairs) =>
        \E c : c = Written(first') /\ Reads(c)' /\ Len(fields') = Len(Stored(c))
  <2> SUFFICES ASSUME ggufStage' = "written", Unique(original'.pairs)
               PROVE  \E c : c = Written(first') /\ Reads(c)' /\ Len(fields') = Len(Stored(c))
    OBVIOUS
  <2>1. PICK c : c = Written(first) /\ Reads(c) /\ Len(fields) = Len(Stored(c))
    BY <1>1 DEF GInv, Reading
  <2>2. c = Written(first') /\ Reads(c)' /\ Len(fields') = Len(Stored(c))
    BY <1>1, <1>3, <2>1
  <2> QED
    BY <2>2, Zenon
<1>7. ggufStage' = "done" /\ Unique(original'.pairs) => second' = first'
  BY <1>1 DEF GInv, Reading
<1>8. Reading'
  BY <1>5, <1>6, <1>7, Zenon DEF Reading
<1> QED
  BY <1>2, <1>4, <1>8 DEF GInv

\* No file is lost on the way: what is cut short is refused, what is parsed is what
\* the file holds, and what is written is parsed to the same.
LEMMA GgufWhole == ASSUME GInv PROVE GgufTypeOK /\ ParsedIsWhole
<1>1. GTypes /\ GgufTypeOK
  BY GTypesAreTypes DEF GInv
<1>2. \/ first = NotRead
      \/ first = [status |-> "refused"]
      \/ complete /\ Made(original, first) /\ first.status = "parsed"
  <2>1. CASE ggufStage = "fetched"
    BY <2>1, Zenon DEF GInv, FirstParse
  <2>2. CASE ggufStage # "fetched"
    BY <2>2, Zenon DEF GInv, FirstParse
  <2> QED
    BY <2>1, <2>2
<1>3. CutIsRefused
  <2> SUFFICES ASSUME ggufStage # "fetched"
               PROVE  /\ first.status \in {"parsed", "refused"}
                      /\ first.status = "parsed" => complete
    BY DEF CutIsRefused
  <2>1. \/ first = [status |-> "refused"]
        \/ complete /\ first.status = "parsed"
    BY Zenon DEF GInv, FirstParse
  <2> QED
    BY <2>1
<1>4. ContentIsParsed
  <2> SUFFICES ASSUME first.status = "parsed"
               PROVE  /\ first.header = original.header /\ first.tensors = original.tensors
                      /\ DOMAIN first.metadata = {original.pairs[i].key : i \in DOMAIN original.pairs}
                      /\ Unique(original.pairs) =>
                           \A i \in DOMAIN original.pairs :
                             first.metadata[original.pairs[i].key] = Parsed(original.pairs[i].value)
    BY Zenon DEF ContentIsParsed
  <2>1. first # NotRead /\ first # [status |-> "refused"]
    BY DEF NotRead
  <2>2. Made(original, first)
    BY <1>2, <2>1, Zenon
  <2>3. first.header = original.header /\ first.tensors = original.tensors
    BY <2>2 DEF Made
  <2>4. MetadataOf(first.metadata, original.pairs, Len(original.pairs))
    BY <2>2, Zenon DEF Made
  <2>5. Len(original.pairs) \in Nat /\ DOMAIN original.pairs = 1..Len(original.pairs)
    <3> DEFINE s == original.pairs
    <3>1. s \in Seq([key : Nat, value : FileValues])
      BY <1>1 DEF GTypes, FileTypes, Content
    <3> HIDE DEF s
    <3>2. Len(s) \in Nat /\ DOMAIN s = 1..Len(s)
      BY ONLY <3>1, ItemsIn
    <3> QED
      BY <3>2 DEF s
  <2> DEFINE ps == original.pairs
             n == Len(ps)
             m == first.metadata
  <2>6. n \in Nat /\ DOMAIN ps = 1..n /\ MetadataOf(m, ps, n)
    BY <2>4, <2>5
  <2> HIDE DEF ps, n, m
  <2>7. /\ DOMAIN m = {ps[i].key : i \in DOMAIN ps}
        /\ Unique(ps) => \A i \in DOMAIN ps : m[ps[i].key] = Parsed(ps[i].value)
    BY ONLY <2>6, MetadataWhole
  <2> QED
    BY <2>3, <2>7 DEF ps, m
<1>5. RoundTrip
  BY DEF GInv, Reading, RoundTrip
<1> QED
  BY <1>1, <1>3, <1>4, <1>5 DEF ParsedIsWhole

\* The reader refuses every file that was cut short before its data, what it returns
\* for any other is what the file says, however many pairs, tensors and elements it has
\* and of whichever types, and what the writer makes of that is read as the same.
THEOREM ModelFilesAlwaysWhole ==
  ASSUME GgufAssumption PROVE GgufSpec => [](GgufTypeOK /\ ParsedIsWhole)
<1>1. GInv /\ [GgufNext]_ggufVars => GInv'
  BY GgufKept, GgufIdle
<1> QED
  BY <1>1, GgufStarts, GgufWhole, PTL DEF GgufSpec
=============================================================================
