---------------------------- MODULE ListTheorems ----------------------------
(***************************************************************************)
(* Facts about the two list operations the C code performs on its linked   *)
(* lists, linking a node at the front (Cons) and unlinking a node          *)
(* (RemoveFirst), for lists in which no node occurs twice, and about the   *)
(* first free place of a table (Min) and sublists (Picked).                *)
(***************************************************************************)
EXTENDS SubLists, SequencesExt, SequenceTheorems, FiniteSetTheorems, FunctionTheorems,
        WellFoundedInduction, TLAPS

(* Linking a new node at the front: the list grows by exactly that node,   *)
(* and a list that was not empty keeps its last element.                   *)
LEMMA ConsFacts ==
    ASSUME NEW S, NEW s \in Seq(S), NEW e \in S, IsInjective(s), e \notin ToSet(s)
    PROVE  /\ Cons(e, s) \in Seq(S)
           /\ Len(Cons(e, s)) = Len(s) + 1
           /\ IsInjective(Cons(e, s))
           /\ ToSet(Cons(e, s)) = ToSet(s) \cup {e}
           /\ Cons(e, s) # <<>>
           /\ Last(Cons(e, s)) = IF s = <<>> THEN e ELSE Last(s)
<1> DEFINE t == Cons(e, s)
<1>1. /\ t \in Seq(S)
      /\ Len(t) = Len(s) + 1
      /\ t[1] = e
      /\ \A i \in 1..Len(s) : t[i + 1] = s[i]
  BY DEF Cons
<1>2. \A i \in 1..Len(t) : i = 1 \/ (i - 1 \in 1..Len(s) /\ t[i] = s[i - 1])
  <2>1. SUFFICES ASSUME NEW i \in 1..Len(t), i # 1
                 PROVE  i - 1 \in 1..Len(s) /\ t[i] = s[i - 1]
    OBVIOUS
  <2>2. i - 1 \in 1..Len(s)
    BY <1>1, <2>1
  <2>3. t[(i - 1) + 1] = s[i - 1]
    BY <1>1, <2>2
  <2>4. QED
    BY <2>2, <2>3
<1> HIDE DEF t
<1>3. DOMAIN s = 1..Len(s) /\ DOMAIN t = 1..Len(t) /\ Len(s) \in Nat
  BY <1>1
<1>4. IsInjective(t)
  <2>1. SUFFICES ASSUME NEW a \in 1..Len(t), NEW b \in 1..Len(t), t[a] = t[b]
                 PROVE  a = b
    BY <1>3 DEF IsInjective
  <2>2. ASSUME NEW i \in 1..Len(s) PROVE s[i] # e
    BY <1>3 DEF ToSet
  <2>3. CASE a = 1 \/ b = 1
    BY <1>1, <1>2, <2>1, <2>2, <2>3
  <2>4. CASE a # 1 /\ b # 1
    <3>1. /\ a - 1 \in 1..Len(s) /\ b - 1 \in 1..Len(s)
          /\ s[a - 1] = s[b - 1]
      BY <1>2, <2>1, <2>4
    <3>2. a - 1 = b - 1
      BY <1>3, <3>1 DEF IsInjective
    <3>3. QED
      BY <1>3, <1>1, <3>2
  <2>5. QED
    BY <2>3, <2>4
<1>5. ToSet(t) = ToSet(s) \cup {e}
  <2>1. ASSUME NEW x \in ToSet(t) PROVE x \in ToSet(s) \cup {e}
    <3>1. PICK i \in 1..Len(t) : t[i] = x
      BY <2>1, <1>3 DEF ToSet
    <3>2. CASE i = 1
      BY <1>1, <3>1, <3>2
    <3>3. CASE i # 1
      <4>1. i - 1 \in DOMAIN s /\ s[i - 1] = x
        BY <1>2, <1>3, <3>1, <3>3
      <4>2. QED
        BY <4>1 DEF ToSet
    <3>4. QED
      BY <3>2, <3>3
  <2>2. ASSUME NEW x \in ToSet(s) PROVE x \in ToSet(t)
    <3>1. PICK i \in 1..Len(s) : s[i] = x
      BY <1>3 DEF ToSet
    <3>2. i + 1 \in DOMAIN t /\ t[i + 1] = x
      BY <1>1, <1>3, <3>1
    <3>3. QED
      BY <3>2 DEF ToSet
  <2>3. e \in ToSet(t)
    BY <1>1, <1>3 DEF ToSet
  <2>4. QED
    BY <2>1, <2>2, <2>3
<1>6. Last(t) = IF s = <<>> THEN e ELSE Last(s)
  BY <1>1, <1>3 DEF Last
<1>7. t # <<>>
  BY <1>1, <1>3
<1>8. QED
  BY <1>1, <1>4, <1>5, <1>6, <1>7 DEF t

(* Unlinking a node: the list shrinks by exactly that node, and keeps its  *)
(* last element unless that is the one unlinked.                           *)
LEMMA RemoveFirstFacts ==
    ASSUME NEW S, NEW s \in Seq(S), NEW e \in ToSet(s), IsInjective(s)
    PROVE  /\ RemoveFirst(s, e) \in Seq(S)
           /\ Len(RemoveFirst(s, e)) = Len(s) - 1
           /\ IsInjective(RemoveFirst(s, e))
           /\ ToSet(RemoveFirst(s, e)) = ToSet(s) \ {e}
           /\ e # Last(s) => RemoveFirst(s, e) # <<>> /\ Last(RemoveFirst(s, e)) = Last(s)
<1>1. PICK k \in 1..Len(s) : s[k] = e
  BY DEF ToSet
<1> DEFINE t == RemoveFirst(s, e)
           I == {i \in 1..Len(s) : s[i] = e}
<1>2. I = {k}
  BY <1>1 DEF IsInjective
<1>3. Min(I) = k
  BY <1>2 DEF Min
<1>4. SelectInSeq(s, LAMBDA v : v = e) = k
  BY <1>2, <1>3 DEF SelectInSeq
<1>5. t = RemoveAt(s, k)
  BY <1>1, <1>4 DEF RemoveFirst
<1>6. t = SubSeq(s, 1, k - 1) \o SubSeq(s, k + 1, Len(s))
  BY <1>5 DEF RemoveAt
<1>7. /\ t \in Seq(S)
      /\ Len(t) = Len(s) - 1
      /\ \A i \in 1..Len(t) : t[i] = IF i < k THEN s[i] ELSE s[i + 1]
  <2> DEFINE front == SubSeq(s, 1, k - 1)
             back == SubSeq(s, k + 1, Len(s))
  <2>1. k \in Nat /\ k >= 1 /\ k <= Len(s) /\ Len(s) \in Nat
    BY <1>1
  <2>2. /\ front \in Seq(S)
        /\ Len(front) = k - 1
        /\ \A i \in 1..(k - 1) : front[i] = s[i]
    BY <2>1
  <2>3. /\ back \in Seq(S)
        /\ Len(back) = Len(s) - k
        /\ \A i \in 1..(Len(s) - k) : back[i] = s[k + i]
    BY <2>1
  <2>0. t = front \o back
    BY <1>6
  <2> HIDE DEF front, back, t
  <2>4. t \in Seq(S) /\ Len(t) = Len(s) - 1
    <3>1. t \in Seq(S) /\ Len(t) = Len(front) + Len(back)
      BY <2>0, <2>2, <2>3, ConcatProperties
    <3>2. (k - 1) + (Len(s) - k) = Len(s) - 1
      BY <2>1
    <3>3. QED
      BY <2>2, <2>3, <3>1, <3>2
  <2>5. ASSUME NEW i \in 1..Len(t) PROVE t[i] = IF i < k THEN s[i] ELSE s[i + 1]
    <3>1. CASE i < k
      <4>1. i \in 1..(k - 1)
        BY <2>1, <2>4, <3>1
      <4>2. t[i] = front[i]
        BY <2>0, <2>2, <2>3, <4>1
      <4>3. QED
        BY <2>2, <3>1, <4>1, <4>2
    <3>2. CASE ~(i < k)
      <4>1. i - (k - 1) \in 1..(Len(s) - k) /\ k + (i - (k - 1)) = i + 1
        BY <2>1, <2>4, <3>2
      <4>2. t[i] = back[i - (k - 1)]
        <5>1. i \in 1..(Len(front) + Len(back)) /\ ~(i <= Len(front))
          BY <2>1, <2>2, <2>3, <2>4, <3>2
        <5>2. t[i] = back[i - Len(front)]
          BY <2>0, <2>2, <2>3, <5>1
        <5>3. QED
          BY <2>2, <5>2
      <4>3. QED
        BY <2>3, <3>2, <4>1, <4>2
    <3>3. QED
      BY <3>1, <3>2
  <2>6. QED
    BY <2>4, <2>5
<1> HIDE DEF t
<1>8. Len(s) \in Nat /\ DOMAIN s = 1..Len(s) /\ DOMAIN t = 1..Len(t)
  BY <1>7
<1>9. IsInjective(t)
  <2> DEFINE back(i) == IF i < k THEN i ELSE i + 1
  <2>1. \A i \in 1..Len(t) : back(i) \in 1..Len(s) /\ t[i] = s[back(i)]
    BY <1>1, <1>7, <1>8
  <2>2. SUFFICES ASSUME NEW a \in 1..Len(t), NEW b \in 1..Len(t), t[a] = t[b]
                 PROVE  a = b
    BY <1>8 DEF IsInjective
  <2>3. back(a) = back(b)
    BY <1>8, <2>1, <2>2 DEF IsInjective
  <2>4. QED
    BY <1>1, <1>8, <2>3
<1>10. ToSet(t) = ToSet(s) \ {e}
  <2>1. ASSUME NEW x \in ToSet(t) PROVE x \in ToSet(s) \ {e}
    BY <1>1, <1>7, <1>8 DEF ToSet, IsInjective
  <2>2. ASSUME NEW x \in ToSet(s), x # e PROVE x \in ToSet(t)
    <3>1. PICK j \in 1..Len(s) : s[j] = x
      BY <1>8 DEF ToSet
    <3>2. j # k
      BY <1>1, <2>2, <3>1
    <3>3. CASE j < k
      BY <1>1, <1>7, <1>8, <3>1, <3>3 DEF ToSet
    <3>4. CASE j > k
      <4>1. j - 1 \in 1..Len(t) /\ t[j - 1] = s[(j - 1) + 1]
        BY <1>1, <1>7, <1>8, <3>1, <3>4
      <4>2. j - 1 \in DOMAIN t /\ t[j - 1] = x
        BY <1>8, <3>1, <4>1
      <4>3. QED
        BY <4>2 DEF ToSet
    <3>5. QED
      BY <3>1, <3>2, <3>3, <3>4
  <2>3. QED
    BY <2>1, <2>2
<1>11. ASSUME e # Last(s) PROVE t # <<>> /\ Last(t) = Last(s)
  <2>1. k < Len(s)
    BY <1>1, <1>8, <1>11 DEF Last
  <2>2. Len(t) \in 1..Len(t) /\ ~(Len(t) < k)
    BY <1>1, <1>7, <1>8, <2>1
  <2>3. QED
    BY <1>7, <1>8, <2>1, <2>2 DEF Last
<1>12. QED
  BY <1>7, <1>9, <1>10, <1>11 DEF t

(* A list of length one is emptied, a longer one is not. *)
LEMMA EmptyIffNoElement ==
    ASSUME NEW S, NEW s \in Seq(S)
    PROVE  /\ s = <<>> <=> ToSet(s) = {}
           /\ s = <<>> <=> Len(s) = 0
           /\ s # <<>> => Last(s) \in ToSet(s)
           /\ \A e : Contains(s, e) <=> e \in ToSet(s)
           /\ ToSet(s) \subseteq S
  BY DEF ToSet, Last, Contains

(* The least number of a set is in the set.                                *)
LEMMA MinIn ==
    ASSUME NEW S \in SUBSET Nat, S # {}
    PROVE  Min(S) \in S /\ \A x \in S : Min(S) <= x
<1> DEFINE Less == {p \in Nat \X Nat : p[1] < p[2]}
<1>1. IsWellFoundedOn(Less, Nat)
  BY NatLessThanWellFounded DEF OpToRel
<1>2. \E x \in S : \A y \in S : ~ (<<y, x>> \in Less)
  <2> HIDE DEF Less
  <2> QED BY <1>1, WFMin
<1>3. \E x \in S : \A y \in S : x <= y
  <2>1. PICK x \in S : \A y \in S : ~ (<<y, x>> \in Less)
    BY <1>2
  <2>2. ASSUME NEW y \in S PROVE x <= y
    <3>1. x \in Nat /\ y \in Nat
      OBVIOUS
    <3>2. ~ (y < x)
      BY <2>1, <3>1
    <3> QED BY <3>1, <3>2
  <2> QED BY <2>2
<1> QED
  BY <1>3 DEF Min

(* An element is taken out of a list: those after it move up.              *)
LEMMA RemoveAtFacts ==
    ASSUME NEW S, NEW s \in Seq(S), NEW k \in DOMAIN s
    PROVE  /\ RemoveAt(s, k) \in Seq(S)
           /\ DOMAIN RemoveAt(s, k) = 1..(Len(s) - 1)
           /\ \A i \in 1..(Len(s) - 1) : RemoveAt(s, k)[i] = s[IF i < k THEN i ELSE i + 1]
<1> DEFINE t == SubSeq(s, 1, k - 1)
           u == SubSeq(s, k + 1, Len(s))
<1>1. k \in 1..Len(s) /\ Len(s) \in Nat
  OBVIOUS
<1>2. /\ t \in Seq(S) /\ Len(t) = k - 1
      /\ \A i \in 1..(k - 1) : t[i] = s[i]
  <2>1. \A i \in 1..(k - 1) : s[i] \in S
    BY <1>1
  <2>2. k - 1 \in Int /\ 1 \in Int
    BY <1>1
  <2>3. /\ SubSeq(s, 1, k - 1) \in Seq(S)
        /\ Len(SubSeq(s, 1, k - 1)) = IF 1 <= k - 1 THEN (k - 1) - 1 + 1 ELSE 0
        /\ \A i \in 1..((k - 1) - 1 + 1) : SubSeq(s, 1, k - 1)[i] = s[1 + i - 1]
    BY <2>1, <2>2, SubSeqProperties
  <2> QED
    BY <1>1, <2>3
<1>3. /\ u \in Seq(S) /\ Len(u) = Len(s) - k
      /\ \A i \in 1..(Len(s) - k) : u[i] = s[k + i]
  <2>1. \A i \in (k + 1)..Len(s) : s[i] \in S
    BY <1>1
  <2>2. k + 1 \in Int /\ Len(s) \in Int
    BY <1>1
  <2>3. /\ SubSeq(s, k + 1, Len(s)) \in Seq(S)
        /\ Len(SubSeq(s, k + 1, Len(s))) = IF k + 1 <= Len(s) THEN Len(s) - (k + 1) + 1 ELSE 0
        /\ \A i \in 1..(Len(s) - (k + 1) + 1) : SubSeq(s, k + 1, Len(s))[i] = s[k + 1 + i - 1]
    BY <2>1, <2>2, SubSeqProperties
  <2> QED
    BY <1>1, <2>3
<1> HIDE DEF t, u
<1>4. /\ t \o u \in Seq(S) /\ Len(t \o u) = Len(s) - 1
      /\ \A i \in 1..(Len(s) - 1) : (t \o u)[i] = IF i <= k - 1 THEN t[i] ELSE u[i - (k - 1)]
  <2>1. /\ t \o u \in Seq(S) /\ Len(t \o u) = Len(t) + Len(u)
        /\ \A i \in 1..(Len(t) + Len(u)) : (t \o u)[i] = IF i <= Len(t) THEN t[i] ELSE u[i - Len(t)]
    BY <1>2, <1>3, ConcatProperties, ZenonT(60)
  <2>2. Len(t) = k - 1 /\ Len(u) = Len(s) - k /\ Len(t) + Len(u) = Len(s) - 1
    BY <1>1, <1>2, <1>3
  <2> QED
    BY <2>1, <2>2
<1>5. ASSUME NEW i \in 1..(Len(s) - 1)
      PROVE  (t \o u)[i] = s[IF i < k THEN i ELSE i + 1]
  <2>1. CASE i < k
    BY <1>1, <1>2, <1>4, <2>1
  <2>2. CASE ~(i < k)
    <3>1. i - (k - 1) \in 1..(Len(s) - k) /\ k + (i - (k - 1)) = i + 1
      BY <1>1, <2>2
    <3>2. (t \o u)[i] = u[i - (k - 1)]
      BY <1>1, <1>4, <2>2
    <3>3. u[i - (k - 1)] = s[k + (i - (k - 1))]
      BY <1>3, <3>1
    <3> QED
      BY <2>2, <3>1, <3>2, <3>3
  <2> QED
    BY <2>1, <2>2
<1>6. RemoveAt(s, k) = t \o u
  BY DEF RemoveAt, t, u
<1> QED
  BY <1>4, <1>5, <1>6

(* Every number up to their number is the rank of one of the places.       *)
LEMMA NthIn ==
    ASSUME NEW I \in SUBSET Nat, IsFiniteSet(I), NEW k \in 1..Cardinality(I)
    PROVE  Nth(I, k) \in I /\ Cardinality({j \in I : j <= Nth(I, k)}) = k
<1> DEFINE Upto(i) == {j \in I : j <= i}
           n == Cardinality(I)
           rank == [i \in I |-> Cardinality(Upto(i))]
<1>1. n \in Nat
  BY FS_CardinalityType
<1>2. ASSUME NEW i \in I
      PROVE  IsFiniteSet(Upto(i)) /\ rank[i] \in 1..n
  <2>1. Upto(i) \in SUBSET I /\ i \in Upto(i)
    OBVIOUS
  <2>2. IsFiniteSet(Upto(i)) /\ Cardinality(Upto(i)) <= n
    BY <2>1, FS_Subset
  <2>3. Cardinality(Upto(i)) \in Nat /\ Cardinality(Upto(i)) # 0
    BY <2>1, <2>2, FS_CardinalityType, FS_EmptySet
  <2> QED
    BY <1>1, <2>2, <2>3
<1>3. ASSUME NEW i \in I, NEW j \in I, i < j
      PROVE  rank[i] # rank[j]
  <2>1. Upto(i) \in SUBSET Upto(j) /\ j \in Upto(j) \ Upto(i)
    <3>1. i \in Nat /\ j \in Nat
      OBVIOUS
    <3>2. \A e \in I : e <= i => e <= j
      BY <1>3, <3>1
    <3>3. j \in Upto(j) /\ j \notin Upto(i)
      BY <1>3, <3>1
    <3>4. \A e \in Upto(i) : e \in Upto(j)
      BY <3>2
    <3> HIDE DEF Upto
    <3> QED
      BY <3>3, <3>4
  <2>2. Upto(i) # Upto(j)
    BY <2>1
  <2> QED
    BY <1>2, <2>1, <2>2, FS_Subset
<1>4. \A i, j \in I : rank[i] = rank[j] => i = j
  BY <1>3
<1>5. \E i \in I : rank[i] = k
  <2> SUFFICES ASSUME \A i \in I : rank[i] # k
               PROVE  FALSE
    OBVIOUS
  <2>1. rank \in [I -> (1..n) \ {k}]
    BY <1>2
  <2>2. IsFiniteSet(1..n) /\ Cardinality(1..n) = n
    BY <1>1, FS_Interval
  <2>3. IsFiniteSet((1..n) \ {k}) /\ Cardinality((1..n) \ {k}) = n - 1
    <3>1. IsFiniteSet((1..n) \ {k})
          /\ Cardinality((1..n) \ {k}) = IF k \in 1..n THEN Cardinality(1..n) - 1 ELSE Cardinality(1..n)
      BY <2>2, FS_RemoveElement, ZenonT(60)
    <3> QED
      BY <2>2, <3>1
  <2>4. Cardinality((1..n) \ {k}) < Cardinality(I)
    BY <1>1, <2>3
  <2> DEFINE others == (1..n) \ {k}
  <2> HIDE DEF rank, others
  <2>5. \E i, j \in I : i # j /\ rank[i] = rank[j]
    <3>1. rank \in [I -> others] /\ IsFiniteSet(others) /\ Cardinality(others) < Cardinality(I)
      BY <2>1, <2>3, <2>4 DEF others
    <3> QED
      BY <3>1, FS_PigeonHole
  <2> QED
    BY <1>4, <2>5
<1>6. \E i \in I : Cardinality({j \in I : j <= i}) = k
  BY <1>5
<1> QED
  BY <1>6 DEF Nth

(* A sublist of a list over S is a list over S, and picks no place twice.  *)
LEMMA PickedFacts ==
    ASSUME NEW S, NEW s \in Seq(S), NEW I \in SUBSET DOMAIN s
    PROVE  /\ Picked(s, I) \in Seq(S)
           /\ DOMAIN Picked(s, I) = 1..Cardinality(I) /\ Cardinality(I) \in Nat
           /\ \A k \in 1..Cardinality(I) : Nth(I, k) \in I /\ Picked(s, I)[k] = s[Nth(I, k)]
           /\ \A k, l \in 1..Cardinality(I) : Nth(I, k) = Nth(I, l) => k = l
<1>1. I \in SUBSET Nat /\ DOMAIN s = 1..Len(s) /\ Len(s) \in Nat
  OBVIOUS
<1>2. IsFiniteSet(I) /\ Cardinality(I) \in Nat
  <2>1. IsFiniteSet(1..Len(s))
    BY <1>1, FS_Interval
  <2> QED
    BY <1>1, <2>1, FS_Subset, FS_CardinalityType
<1>3. \A k \in 1..Cardinality(I) : Nth(I, k) \in I /\ Cardinality({j \in I : j <= Nth(I, k)}) = k
  BY <1>1, <1>2, NthIn
<1>4. \A k \in 1..Cardinality(I) : s[Nth(I, k)] \in S
  <2>1. \A i \in I : s[i] \in S
    OBVIOUS
  <2> QED
    BY <1>3, <2>1
<1>5. Picked(s, I) \in Seq(S)
  BY <1>2, <1>4 DEF Picked
<1>6. \A k, l \in 1..Cardinality(I) : Nth(I, k) = Nth(I, l) => k = l
  BY <1>3
<1> QED
  BY <1>2, <1>3, <1>5, <1>6 DEF Picked

(* Every place that is picked is picked once.                              *)
LEMMA PickedOnto ==
    ASSUME NEW S, NEW s \in Seq(S), NEW I \in SUBSET DOMAIN s
    PROVE  /\ \A i \in I : \E k \in 1..Cardinality(I) : Nth(I, k) = i
           /\ ToSet(Picked(s, I)) = {s[i] : i \in I}
           /\ IsInjective(s) => IsInjective(Picked(s, I))
<1> DEFINE n == Cardinality(I)
           f == [k \in 1..n |-> Nth(I, k)]
           p == Picked(s, I)
<1>1. /\ DOMAIN p = 1..n /\ n \in Nat
      /\ \A k \in 1..n : Nth(I, k) \in I /\ p[k] = s[Nth(I, k)]
      /\ \A k, l \in 1..n : Nth(I, k) = Nth(I, l) => k = l
  BY PickedFacts
<1>2. DOMAIN s = 1..Len(s) /\ Len(s) \in Nat /\ IsFiniteSet(1..Len(s))
  <2>1. DOMAIN s = 1..Len(s) /\ Len(s) \in Nat
    OBVIOUS
  <2> QED
    BY <2>1, FS_Interval
<1>3. IsFiniteSet(I)
  BY <1>2, FS_Subset
<1>4. IsFiniteSet(1..n) /\ Cardinality(1..n) = n
  BY <1>1, FS_Interval
<1> DEFINE D == 1..n
<1> HIDE DEF p, n
<1>5. f \in [D -> I] /\ \A k, l \in D : f[k] = f[l] => k = l
  BY <1>1
<1> HIDE DEF f
<1>6. f \in Injection(D, I)
  <2> HIDE DEF D
  <2> QED
    BY <1>5, Fun_IsInj
<1>7. Cardinality(D) = Cardinality(I) /\ IsFiniteSet(I)
  BY <1>3, <1>4 DEF n
<1>8. f \in Surjection(D, I)
  <2> HIDE DEF D
  <2> QED
    BY <1>6, <1>7, FS_Injection
<1>9. \A i \in I : \E k \in 1..n : Nth(I, k) = i
  <2>1. \A i \in I : \E k \in D : f[k] = i
    BY <1>8 DEF Surjection
  <2> QED
    BY <2>1 DEF f
<1>10. ToSet(p) = {s[i] : i \in I}
  <2>1. \A x : x \in ToSet(p) <=> \E k \in 1..n : p[k] = x
    BY <1>1 DEF ToSet
  <2>2. \A x : x \in ToSet(p) => x \in {s[i] : i \in I}
    BY <1>1, <2>1
  <2>3. \A x : x \in {s[i] : i \in I} => x \in ToSet(p)
    BY <1>1, <1>9, <2>1
  <2> QED
    BY <2>2, <2>3
<1>11. IsInjective(s) => IsInjective(p)
  <2> SUFFICES ASSUME IsInjective(s), NEW k \in 1..n, NEW l \in 1..n, p[k] = p[l] PROVE k = l
    BY <1>1 DEF IsInjective
  <2>1. Nth(I, k) \in DOMAIN s /\ Nth(I, l) \in DOMAIN s /\ s[Nth(I, k)] = s[Nth(I, l)]
    BY <1>1
  <2>2. Nth(I, k) = Nth(I, l)
    BY <2>1 DEF IsInjective
  <2> QED
    BY <1>1, <2>2
<1> QED
  BY <1>9, <1>10, <1>11 DEF n, p
=============================================================================
