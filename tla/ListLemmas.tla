----------------------------- MODULE ListLemmas -----------------------------
(***************************************************************************)
(* What the list operations the Master uses (append, pop, remove, insert)  *)
(* do to the elements of a list that holds no element twice.               *)
(***************************************************************************)
EXTENDS Integers, Sequences, SequencesExt, SequenceTheorems,
        WellFoundedInduction, TLAPS

\* A nonempty set of naturals has a least element, and Min returns it.
LEMMA MinOfNaturals ==
    ASSUME NEW S, S \subseteq Nat, S # {}
    PROVE  Min(S) \in S /\ \A y \in S : Min(S) <= y
<1>1. \E x \in S : \A y \in S : ~(<<y, x>> \in OpToRel(<, Nat))
  BY NatLessThanWellFounded, WFMin
<1>2. \E x \in S : \A y \in S : x <= y
  <2>1. PICK x \in S : \A y \in S : ~(<<y, x>> \in OpToRel(<, Nat))
    BY <1>1
  <2>2. ASSUME NEW y \in S PROVE x <= y
    <3>1. ~(y < x)
      BY <2>1 DEF OpToRel
    <3> QED
      BY <3>1
  <2> QED
    BY <2>2
<1> QED
  BY <1>2 DEF Min

\* The elements of a sequence, by position.
LEMMA ListRange ==
    ASSUME NEW S, NEW s \in Seq(S)
    PROVE  /\ ToSet(s) \subseteq S
           /\ ToSet(s) = {s[i] : i \in 1..Len(s)}
           /\ s \in Seq(ToSet(s))
           /\ (s = <<>>) <=> (ToSet(s) = {})
<1>1. DOMAIN s = 1..Len(s) /\ Len(s) \in Nat /\ s \in [1..Len(s) -> S]
  BY LenProperties
<1>2. s \in [1..Len(s) -> ToSet(s)]
  BY <1>1 DEF ToSet
<1>3. s \in Seq(ToSet(s))
  BY <1>1, <1>2, SeqDef
<1>4. (s = <<>>) <=> (Len(s) = 0)
  BY EmptySeq
<1>5. ToSet(s) \subseteq S /\ ToSet(s) = {s[i] : i \in 1..Len(s)}
  BY <1>1 DEF ToSet
<1>6. (s = <<>>) <=> (ToSet(s) = {})
  <2>1. Len(s) = 0 => ToSet(s) = {}
    BY <1>1, <1>5
  <2>2. Len(s) # 0 => s[1] \in ToSet(s)
    BY <1>1, <1>5
  <2> QED
    BY <1>4, <2>1, <2>2
<1> QED
  BY <1>3, <1>5, <1>6

\* list_add: one more element at the end.
LEMMA AppendLists ==
    ASSUME NEW S, NEW s \in Seq(S), NEW e \in S
    PROVE  /\ Append(s, e) \in Seq(S)
           /\ ToSet(Append(s, e)) = ToSet(s) \cup {e}
           /\ IsInjective(s) /\ e \notin ToSet(s) => IsInjective(Append(s, e))
<1> DEFINE t == Append(s, e)
<1>1. /\ t \in Seq(S) /\ Len(t) = Len(s) + 1 /\ t[Len(s) + 1] = e
      /\ \A i \in 1..Len(s) : t[i] = s[i]
  BY AppendProperties
<1>2. Len(s) \in Nat /\ DOMAIN s = 1..Len(s) /\ DOMAIN t = 1..Len(t)
  BY <1>1, LenProperties
<1> HIDE DEF t
<1>3. ToSet(t) = ToSet(s) \cup {e}
  BY <1>1, <1>2 DEF ToSet
<1>4. IsInjective(s) /\ e \notin ToSet(s) => IsInjective(t)
  BY <1>1, <1>2 DEF ToSet, IsInjective
<1> QED
  BY <1>1, <1>3, <1>4 DEF t

\* t has elements of s, in the order they have there.
KeepsOrder(s, t) ==
    \A i, j \in DOMAIN t : i < j => \E k, l \in DOMAIN s : /\ k < l
                                                           /\ t[i] = s[k] /\ t[j] = s[l]

\* list_remove(list, 0): the first element leaves.
LEMMA TailLists ==
    ASSUME NEW S, NEW s \in Seq(S), s # <<>>
    PROVE  /\ Head(s) \in S /\ Head(s) \in ToSet(s)
           /\ Tail(s) \in Seq(S)
           /\ ToSet(Tail(s)) \subseteq ToSet(s)
           /\ IsInjective(s) => /\ IsInjective(Tail(s))
                                /\ ToSet(Tail(s)) = ToSet(s) \ {Head(s)}
           /\ KeepsOrder(s, Tail(s))
<1> DEFINE t == Tail(s)
<1>1. /\ Head(s) \in S /\ t \in Seq(S) /\ Len(t) = Len(s) - 1
      /\ \A i \in 1..Len(t) : t[i] = s[i + 1]
  BY HeadTailProperties
<1>2. /\ Len(s) \in Nat \ {0} /\ DOMAIN s = 1..Len(s) /\ DOMAIN t = 1..Len(t)
      /\ Head(s) = s[1]
  BY <1>1, LenProperties, EmptySeq
<1> HIDE DEF t
<1>0. \A i \in 1..Len(t) : i + 1 \in 1..Len(s) /\ t[i] = s[i + 1]
  BY <1>1, <1>2
<1>3. Head(s) \in ToSet(s) /\ ToSet(t) \subseteq ToSet(s)
  BY <1>0, <1>2 DEF ToSet
<1>4. ASSUME IsInjective(s) PROVE IsInjective(t)
  <2> SUFFICES ASSUME NEW a \in 1..Len(t), NEW b \in 1..Len(t), t[a] = t[b]
               PROVE  a = b
    BY <1>2 DEF IsInjective
  <2>1. a + 1 = b + 1
    BY <1>0, <1>2, <1>4 DEF IsInjective
  <2> QED
    BY <2>1
<1>5. ASSUME IsInjective(s) PROVE ToSet(t) = ToSet(s) \ {Head(s)}
  <2>1. Head(s) \notin ToSet(t)
    BY <1>1, <1>2, <1>5 DEF ToSet, IsInjective
  <2>2. ASSUME NEW x \in ToSet(s), x # Head(s) PROVE x \in ToSet(t)
    <3>1. PICK i \in 1..Len(s) : s[i] = x
      BY <1>2 DEF ToSet
    <3>2. i - 1 \in 1..Len(t) /\ t[i - 1] = x
      BY <1>1, <1>2, <2>2, <3>1
    <3> QED
      BY <1>2, <3>2 DEF ToSet
  <2> QED
    BY <1>3, <2>1, <2>2
<1>6. KeepsOrder(s, t)
  <2> SUFFICES ASSUME NEW i \in 1..Len(t), NEW j \in 1..Len(t), i < j
               PROVE  \E k, l \in DOMAIN s : k < l /\ t[i] = s[k] /\ t[j] = s[l]
    BY <1>2 DEF KeepsOrder
  <2>1. /\ i + 1 \in DOMAIN s /\ j + 1 \in DOMAIN s /\ i + 1 < j + 1
        /\ t[i] = s[i + 1] /\ t[j] = s[j + 1]
    BY <1>0, <1>2
  <2> QED
    BY <2>1
<1> QED
  BY <1>1, <1>3, <1>4, <1>5, <1>6 DEF t

\* list_remove_element: the first occurrence leaves, the others close ranks.
LEMMA RemoveLists ==
    ASSUME NEW S, NEW s \in Seq(S), NEW e
    PROVE  /\ RemoveFirst(s, e) \in Seq(S)
           /\ ToSet(RemoveFirst(s, e)) \subseteq ToSet(s)
           /\ IsInjective(s) => /\ IsInjective(RemoveFirst(s, e))
                                /\ ToSet(RemoveFirst(s, e)) = ToSet(s) \ {e}
           /\ KeepsOrder(s, RemoveFirst(s, e))
<1> DEFINE t == RemoveFirst(s, e)
<1>0. /\ Len(s) \in Nat /\ DOMAIN s = 1..Len(s)
      /\ \A i \in 1..Len(s) : s[i] \in S
  BY LenProperties
<1>1. CASE ~\E i \in 1..Len(s) : s[i] = e
  <2>1. t = s
    BY <1>1 DEF RemoveFirst
  <2>2. e \notin ToSet(s)
    BY <1>0, <1>1 DEF ToSet
  <2>3. KeepsOrder(s, s)
    BY DEF KeepsOrder
  <2> QED
    BY <2>1, <2>2, <2>3
<1>2. CASE \E i \in 1..Len(s) : s[i] = e
  <2> DEFINE I == {i \in 1..Len(s) : s[i] = e}
             k == Min(I)
  <2>1. k \in 1..Len(s) /\ s[k] = e
    <3>1. I \subseteq Nat /\ I # {}
      BY <1>0, <1>2
    <3>2. k \in I
      BY <3>1, MinOfNaturals
    <3> QED
      BY <3>2
  <2>2. t = SubSeq(s, 1, k - 1) \o SubSeq(s, k + 1, Len(s))
    <3>1. I # {}
      BY <1>2
    <3> QED
      BY <1>2, <3>1 DEF RemoveFirst, RemoveAt, SelectInSeq
  <2> HIDE DEF k, t
  <2> DEFINE a == SubSeq(s, 1, k - 1)
             b == SubSeq(s, k + 1, Len(s))
  <2>3. /\ a \in Seq(S) /\ Len(a) = k - 1
        /\ \A i \in 1..k - 1 : a[i] = s[i]
    <3>1. k - 1 \in Int /\ \A i \in 1..k - 1 : s[i] \in S
      BY <1>0, <2>1
    <3>2. /\ a \in Seq(S) /\ Len(a) = IF 1 <= k - 1 THEN k - 1 - 1 + 1 ELSE 0
          /\ \A i \in 1..(k - 1 - 1 + 1) : a[i] = s[1 + i - 1]
      BY <3>1, SubSeqProperties
    <3> QED
      BY <2>1, <3>2
  <2>4. /\ b \in Seq(S) /\ Len(b) = Len(s) - k
        /\ \A i \in 1..Len(s) - k : b[i] = s[k + i]
    <3>1. k + 1 \in Int /\ \A i \in k + 1..Len(s) : s[i] \in S
      BY <1>0, <2>1
    <3>2. /\ b \in Seq(S)
          /\ Len(b) = IF k + 1 <= Len(s) THEN Len(s) - (k + 1) + 1 ELSE 0
          /\ \A i \in 1..(Len(s) - (k + 1) + 1) : b[i] = s[k + 1 + i - 1]
      BY <1>0, <3>1, SubSeqProperties
    <3> HIDE DEF b
    <3>4. ASSUME NEW i \in 1..Len(s) - k PROVE b[i] = s[k + i]
      <4>1. i \in 1..(Len(s) - (k + 1) + 1) /\ k + 1 + i - 1 = k + i
        BY <1>0, <2>1
      <4> QED
        BY <3>2, <4>1
    <3>5. Len(b) = Len(s) - k
      BY <1>0, <2>1, <3>2
    <3> QED
      BY <3>2, <3>4, <3>5
  <2> HIDE DEF a, b
  <2>5. /\ t \in Seq(S) /\ Len(t) = Len(s) - 1
        /\ \A i \in 1..Len(t) : t[i] = IF i < k THEN s[i] ELSE s[i + 1]
    <3>1. /\ t \in Seq(S) /\ Len(t) = Len(a) + Len(b)
          /\ \A i \in 1..Len(a) + Len(b) :
                t[i] = IF i <= Len(a) THEN a[i] ELSE b[i - Len(a)]
      BY <2>2, <2>3, <2>4, ConcatProperties DEF a, b
    <3> QED
      BY <1>0, <2>1, <2>3, <2>4, <3>1
  <2>6. DOMAIN t = 1..Len(t)
    BY <2>5, LenProperties
  <2> DEFINE Old(i) == IF i < k THEN i ELSE i + 1
  <2>7. \A i \in 1..Len(t) : Old(i) \in 1..Len(s) \ {k} /\ t[i] = s[Old(i)]
    BY <1>0, <2>1, <2>5
  <2>8. ToSet(t) \subseteq ToSet(s)
    BY <1>0, <2>6, <2>7 DEF ToSet
  <2>9. ASSUME IsInjective(s) PROVE IsInjective(t)
    <3> SUFFICES ASSUME NEW i \in 1..Len(t), NEW j \in 1..Len(t), t[i] = t[j]
                 PROVE  i = j
      BY <2>6 DEF IsInjective
    <3>1. Old(i) = Old(j)
      BY <1>0, <2>7, <2>9 DEF IsInjective
    <3> QED
      BY <1>0, <2>1, <3>1
  <2>10. ASSUME IsInjective(s) PROVE ToSet(t) = ToSet(s) \ {e}
    <3>1. e \notin ToSet(t)
      BY <1>0, <2>1, <2>6, <2>7, <2>10 DEF ToSet, IsInjective
    <3>2. ASSUME NEW x \in ToSet(s), x # e PROVE x \in ToSet(t)
      <4>1. PICK i \in 1..Len(s) : s[i] = x
        BY <1>0 DEF ToSet
      <4>2. i # k
        BY <2>1, <3>2, <4>1
      <4>3. \E j \in 1..Len(t) : t[j] = x
        <5>1. CASE i < k
          BY <1>0, <2>1, <2>5, <4>1, <5>1
        <5>2. CASE i > k
          <6>1. i - 1 \in 1..Len(t) /\ ~(i - 1 < k) /\ i - 1 + 1 = i
            BY <1>0, <2>1, <2>5, <5>2
          <6> QED
            BY <2>5, <4>1, <6>1
        <5> QED
          BY <1>0, <2>1, <4>2, <5>1, <5>2
      <4> QED
        BY <2>6, <4>3 DEF ToSet
    <3> QED
      BY <2>8, <3>1, <3>2
  <2>11. KeepsOrder(s, t)
    <3>1. \A i, j \in 1..Len(t) : i < j => Old(i) < Old(j)
      BY <2>1, <2>5
    <3> HIDE DEF Old
    <3> QED
      BY <1>0, <2>6, <2>7, <3>1 DEF KeepsOrder
  <2> QED
    BY <2>5, <2>8, <2>9, <2>10, <2>11 DEF t
<1> QED
  BY <1>1, <1>2

\* list_add_in_index: e takes position k and the rest moves up.
LEMMA InsertLists ==
    ASSUME NEW S, NEW s \in Seq(S), NEW e \in S, NEW k \in 1..Len(s) + 1
    PROVE  LET t == InsertAt(s, k, e)
           IN  /\ t \in Seq(S)
               /\ Len(t) = Len(s) + 1
               /\ \A i \in 1..Len(t) :
                     t[i] = IF i < k THEN s[i] ELSE IF i = k THEN e ELSE s[i - 1]
               /\ ToSet(t) = ToSet(s) \cup {e}
               /\ IsInjective(s) /\ e \notin ToSet(s) => IsInjective(t)
<1> DEFINE t == InsertAt(s, k, e)
           a == SubSeq(s, 1, k - 1)
           m == <<e>>
           b == SubSeq(s, k, Len(s))
<1>0. /\ Len(s) \in Nat /\ DOMAIN s = 1..Len(s) /\ k \in Nat /\ k >= 1 /\ k <= Len(s) + 1
      /\ \A i \in 1..Len(s) : s[i] \in S
  BY LenProperties
<1>1. t = a \o m \o b
  BY DEF InsertAt
<1>2. /\ a \in Seq(S) /\ Len(a) = k - 1
      /\ \A i \in 1..k - 1 : a[i] = s[i]
  <2>1. k - 1 \in Int /\ \A i \in 1..k - 1 : s[i] \in S
    BY <1>0
  <2>2. /\ a \in Seq(S) /\ Len(a) = IF 1 <= k - 1 THEN k - 1 - 1 + 1 ELSE 0
        /\ \A i \in 1..(k - 1 - 1 + 1) : a[i] = s[1 + i - 1]
    BY <2>1, SubSeqProperties
  <2> QED
    BY <1>0, <2>2
<1>3. /\ b \in Seq(S) /\ Len(b) = Len(s) - k + 1
      /\ \A i \in 1..Len(s) - k + 1 : b[i] = s[k + i - 1]
  <2>1. \A i \in k..Len(s) : s[i] \in S
    BY <1>0
  <2>2. /\ b \in Seq(S)
        /\ Len(b) = IF k <= Len(s) THEN Len(s) - k + 1 ELSE 0
        /\ \A i \in 1..(Len(s) - k + 1) : b[i] = s[k + i - 1]
    BY <1>0, <2>1, SubSeqProperties
  <2> HIDE DEF b
  <2> QED
    BY <1>0, <2>2
<1>4. m \in Seq(S) /\ Len(m) = 1 /\ m[1] = e
  OBVIOUS
<1> HIDE DEF t, a, b, m
<1> DEFINE am == a \o m
<1>5. /\ am \in Seq(S) /\ Len(am) = k
      /\ \A i \in 1..k : am[i] = IF i < k THEN s[i] ELSE e
  <2>1. /\ am \in Seq(S) /\ Len(am) = Len(a) + Len(m)
        /\ \A i \in 1..Len(a) + Len(m) :
              am[i] = IF i <= Len(a) THEN a[i] ELSE m[i - Len(a)]
    <3>1. a \in Seq(S) /\ m \in Seq(S)
      BY <1>2, <1>4
    <3> QED
      BY <3>1, ConcatProperties
  <2> HIDE DEF am
  <2> QED
    BY <1>0, <1>2, <1>4, <2>1
<1>6. /\ t \in Seq(S) /\ Len(t) = Len(s) + 1
      /\ \A i \in 1..Len(t) :
            t[i] = IF i < k THEN s[i] ELSE IF i = k THEN e ELSE s[i - 1]
  <2>1. /\ t \in Seq(S) /\ Len(t) = Len(am) + Len(b)
        /\ \A i \in 1..Len(am) + Len(b) :
              t[i] = IF i <= Len(am) THEN am[i] ELSE b[i - Len(am)]
    <3>1. t = am \o b
      BY <1>1
    <3>2. am \in Seq(S) /\ b \in Seq(S)
      BY <1>3, <1>5
    <3> HIDE DEF am
    <3>3. /\ am \o b \in Seq(S) /\ Len(am \o b) = Len(am) + Len(b)
          /\ \A i \in 1..Len(am) + Len(b) :
                (am \o b)[i] = IF i <= Len(am) THEN am[i] ELSE b[i - Len(am)]
      BY <3>2, ConcatProperties
    <3> QED
      BY <3>1, <3>3
  <2> HIDE DEF am
  <2>2. Len(t) = Len(s) + 1 /\ Len(am) + Len(b) = Len(s) + 1
    BY <1>0, <1>3, <1>5, <2>1
  <2>3. ASSUME NEW i \in 1..Len(t), i > k PROVE t[i] = s[i - 1]
    <3>1. i - k \in 1..Len(s) - k + 1 /\ k + (i - k) - 1 = i - 1
      BY <1>0, <2>2, <2>3
    <3>2. b[i - k] = s[i - 1]
      BY <1>3, <3>1
    <3>3. t[i] = b[i - k]
      BY <1>0, <1>5, <2>1, <2>2, <2>3
    <3> QED
      BY <3>2, <3>3
  <2>4. ASSUME NEW i \in 1..Len(t), i <= k
        PROVE  t[i] = IF i < k THEN s[i] ELSE e
    <3>1. t[i] = am[i] /\ i \in 1..k
      BY <1>0, <1>5, <2>1, <2>2, <2>4
    <3> QED
      BY <1>5, <3>1
  <2> QED
    BY <1>0, <2>1, <2>2, <2>3, <2>4
<1>7. DOMAIN t = 1..Len(t)
  BY <1>6, LenProperties
<1>8. ToSet(t) = ToSet(s) \cup {e}
  <2>1. ASSUME NEW x \in ToSet(t) PROVE x \in ToSet(s) \cup {e}
    <3>1. PICK i \in 1..Len(t) : t[i] = x
      BY <1>7 DEF ToSet
    <3>2. i < k => i \in 1..Len(s)
      BY <1>0
    <3>3. i > k => i - 1 \in 1..Len(s)
      BY <1>0, <1>6
    <3>4. x = e \/ \E j \in 1..Len(s) : x = s[j]
      BY <1>0, <1>6, <3>1, <3>2, <3>3
    <3> QED
      BY <1>0, <3>4 DEF ToSet
  <2>2. e \in ToSet(t)
    BY <1>0, <1>6, <1>7 DEF ToSet
  <2>3. ASSUME NEW x \in ToSet(s) PROVE x \in ToSet(t)
    <3>1. PICK i \in 1..Len(s) : s[i] = x
      BY <1>0 DEF ToSet
    <3>2. CASE i < k
      BY <1>0, <1>6, <1>7, <3>1, <3>2 DEF ToSet
    <3>3. CASE i >= k
      <4>1. i + 1 \in 1..Len(t) /\ t[i + 1] = x
        BY <1>0, <1>6, <3>1, <3>3
      <4> QED
        BY <1>7, <4>1 DEF ToSet
    <3> QED
      BY <1>0, <3>2, <3>3
  <2> QED
    BY <2>1, <2>2, <2>3
<1>9. ASSUME IsInjective(s), e \notin ToSet(s) PROVE IsInjective(t)
  <2> SUFFICES ASSUME NEW i \in 1..Len(t), NEW j \in 1..Len(t), t[i] = t[j]
               PROVE  i = j
    BY <1>7 DEF IsInjective
  <2>1. \A n \in 1..Len(s) : s[n] # e
    BY <1>0, <1>9 DEF ToSet
  <2>2. \A n \in 1..Len(s), l \in 1..Len(s) : s[n] = s[l] => n = l
    BY <1>0, <1>9 DEF IsInjective
  <2> DEFINE Old(n) == IF n < k THEN n ELSE n - 1
  <2>3. \A n \in 1..Len(t) : n # k => Old(n) \in 1..Len(s) /\ t[n] = s[Old(n)]
    BY <1>0, <1>6
  <2>4. i = k <=> j = k
    BY <1>0, <1>6, <2>1, <2>3
  <2>5. CASE i # k
    BY <1>0, <2>2, <2>3, <2>4, <2>5
  <2> QED
    BY <2>4, <2>5
<1> QED
  BY <1>6, <1>8, <1>9 DEF t

\* list_sort and any other rearrangement: the same elements, each as often.
LEMMA RearrangeLists ==
    ASSUME NEW S, NEW s \in Seq(S),
           NEW p \in Bijection(DOMAIN s, DOMAIN s)
    PROVE  LET t == [i \in DOMAIN s |-> s[p[i]]]
           IN  /\ t \in Seq(S)
               /\ ToSet(t) = ToSet(s)
               /\ IsInjective(s) => IsInjective(t)
<1> DEFINE t == [i \in DOMAIN s |-> s[p[i]]]
<1>0. /\ Len(s) \in Nat /\ DOMAIN s = 1..Len(s)
      /\ \A i \in 1..Len(s) : s[i] \in S
  BY LenProperties
<1>1. /\ \A i \in DOMAIN s : p[i] \in DOMAIN s
      /\ \A i, j \in DOMAIN s : p[i] = p[j] => i = j
      /\ \A j \in DOMAIN s : \E i \in DOMAIN s : p[i] = j
  BY DEF Bijection, Injection, Surjection, IsInjective
<1>2. t \in Seq(S)
  <2>1. t \in [1..Len(s) -> S]
    BY <1>0, <1>1
  <2> QED
    BY <1>0, <2>1, SeqDef
<1>3. DOMAIN t = DOMAIN s /\ \A i \in DOMAIN s : t[i] = s[p[i]]
  OBVIOUS
<1> HIDE DEF t
<1>4. ToSet(t) = ToSet(s)
  <2>1. ASSUME NEW x \in ToSet(t) PROVE x \in ToSet(s)
    <3>1. PICK i \in DOMAIN s : t[i] = x
      BY <1>3 DEF ToSet
    <3>2. p[i] \in DOMAIN s /\ s[p[i]] = x
      BY <1>1, <1>3, <3>1
    <3> QED
      BY <3>2 DEF ToSet
  <2>2. ASSUME NEW j \in DOMAIN s PROVE s[j] \in ToSet(t)
    <3>1. PICK i \in DOMAIN s : p[i] = j
      BY <1>1
    <3> QED
      BY <1>3, <3>1 DEF ToSet
  <2> QED
    BY <2>1, <2>2 DEF ToSet
<1>5. ASSUME IsInjective(s) PROVE IsInjective(t)
  <2> SUFFICES ASSUME NEW i \in DOMAIN s, NEW j \in DOMAIN s, t[i] = t[j]
               PROVE  i = j
    BY <1>3 DEF IsInjective
  <2>1. p[i] = p[j]
    <3>1. s[p[i]] = s[p[j]]
      BY <1>3
    <3>2. p[i] \in DOMAIN s /\ p[j] \in DOMAIN s
      BY <1>1
    <3> QED
      BY <1>5, <3>1, <3>2, Zenon DEF IsInjective
  <2> QED
    BY <1>1, <2>1
<1> QED
  BY <1>2, <1>4, <1>5 DEF t
=============================================================================
