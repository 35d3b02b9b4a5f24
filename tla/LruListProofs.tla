--------------------------- MODULE LruListProofs ---------------------------
(***************************************************************************)
(* What erasing nodes from a list does, for lists of any length: the nodes *)
(* that stay are all there, once each, in the same order.  And, for a list *)
(* whose nodes stand for the entries of queues, that the two stay matched  *)
(* when entries leave at the front of the queues or come at their end.     *)
(***************************************************************************)
EXTENDS LruLists, FiniteSetTheorems, TLAPS

\* The positions of a list can be counted.
LEMMA Interval == \A n \in Nat : IsFiniteSet(1 .. n) /\ Cardinality(1 .. n) = n
<1> SUFFICES ASSUME NEW n \in Nat PROVE IsFiniteSet(1 .. n) /\ Cardinality(1 .. n) = n
  BY Zenon
<1>1. 1 \in Int /\ n \in Int /\ (IF 1 > n THEN 0 ELSE n - 1 + 1) = n
  OBVIOUS
<1> QED
  BY <1>1, FS_Interval, Zenon

\* A function that gives every element of T once.
OneToOne(f, S, T) ==
  /\ f \in [S -> T] /\ \A x, y \in S : f[x] = f[y] => x = y
  /\ \A y \in T : \E x \in S : f[x] = y

\* The two sets have as many elements.
LEMMA SameCardinality ==
  ASSUME NEW S, NEW T, NEW f, OneToOne(f, S, T), IsFiniteSet(S)
  PROVE  IsFiniteSet(T) /\ Cardinality(T) = Cardinality(S)
<1>1. f \in Bijection(S, T)
  BY Zenon DEF OneToOne, Bijection, Injection, Surjection, IsInjective
<1>2. ExistsBijection(S, T)
  BY <1>1, Zenon DEF ExistsBijection
<1> QED
  BY <1>2, FS_Bijection, Zenon

\* A list that is not empty has a length.
LEMMA NotEmpty == ASSUME NEW S, NEW s \in Seq(S), s # <<>> PROVE Len(s) \in Nat \ {0}
OBVIOUS

\* Every place of the new list is taken by one of the positions that stay.
LEMMA Ranks ==
  ASSUME NEW I, IsFiniteSet(I), I \subseteq Nat
  PROVE  /\ \A i \in I : Cardinality({j \in I : j <= i}) \in 1 .. Cardinality(I)
         /\ \A i, k \in I : i < k =>
              Cardinality({j \in I : j <= i}) < Cardinality({j \in I : j <= k})
         /\ \A n \in 1 .. Cardinality(I) : \E i \in I : Cardinality({j \in I : j <= i}) = n
<1> DEFINE upto(i) == {j \in I : j <= i}
           rank == [i \in I |-> Cardinality(upto(i))]
<1>1. Cardinality(I) \in Nat
  BY FS_CardinalityType, Zenon
<1>2. ASSUME NEW i \in I
      PROVE  IsFiniteSet(upto(i)) /\ Cardinality(upto(i)) \in 1 .. Cardinality(I)
  <2>1. upto(i) \in SUBSET I /\ i \in upto(i)
    <3>1. i <= i
      BY <1>2
    <3> QED
      BY <3>1, Zenon
  <2>2. IsFiniteSet(upto(i)) /\ Cardinality(upto(i)) <= Cardinality(I)
    BY <2>1, FS_Subset, Zenon
  <2>3. Cardinality(upto(i)) \in Nat /\ Cardinality(upto(i)) # 0
    BY <2>1, <2>2, FS_CardinalityType, FS_EmptySet, Zenon
  <2> HIDE DEF upto
  <2> QED
    BY <1>1, <2>2, <2>3
<1>3. ASSUME NEW i \in I, NEW k \in I, i < k
      PROVE  Cardinality(upto(i)) < Cardinality(upto(k))
  <2>1. upto(i) \in SUBSET upto(k) /\ k \in upto(k) /\ k \notin upto(i)
    <3>1. k <= k /\ ~(k <= i) /\ \A j \in Nat : j <= i => j <= k
      BY <1>3
    <3> QED
      BY <3>1, Zenon
  <2>2. /\ Cardinality(upto(i)) <= Cardinality(upto(k))
        /\ Cardinality(upto(k)) # Cardinality(upto(i))
    BY <1>2, <2>1, FS_Subset, Zenon
  <2>3. Cardinality(upto(i)) \in Nat /\ Cardinality(upto(k)) \in Nat
    BY <1>2, FS_CardinalityType, Zenon
  <2> HIDE DEF upto
  <2> QED
    BY <2>2, <2>3
<1>4. rank \in Injection(I, 1 .. Cardinality(I))
  <2>1. rank \in [I -> 1 .. Cardinality(I)]
    BY <1>2, Zenon
  <2>2. ASSUME NEW i \in I, NEW k \in I, rank[i] = rank[k] PROVE i = k
    <3>1. rank[i] = Cardinality(upto(i)) /\ rank[k] = Cardinality(upto(k))
      BY Zenon
    <3>2. ~(i < k) /\ ~(k < i)
      <4> HIDE DEF upto
      <4>1. Cardinality(upto(i)) \in Nat
        BY <1>1, <1>2
      <4> QED
        BY <1>3, <2>2, <3>1, <4>1
    <3> QED
      BY <3>2
  <2> QED
    BY <2>1, <2>2, Zenon DEF Injection, IsInjective
<1>5. rank \in Surjection(I, 1 .. Cardinality(I))
  <2>1. IsFiniteSet(1 .. Cardinality(I)) /\ Cardinality(1 .. Cardinality(I)) = Cardinality(I)
    BY <1>1, Interval, Zenon
  <2> QED
    BY <1>4, <2>1, FS_Injection, Zenon
<1>6. \A n \in 1 .. Cardinality(I) : \E i \in I : rank[i] = n
  <2> HIDE DEF rank
  <2> QED
    BY <1>5, Zenon DEF Surjection
<1> QED
  BY <1>2, <1>3, <1>6, Zenon

\* p gives the place in the old list of every node of the new one, in order.
Places(s, I, p) ==
  /\ p \in [1 .. Cardinality(I) -> I]
  /\ \A n \in 1 .. Cardinality(I) : Kept(s, I)[n] = s[p[n]]
  /\ \A n, m \in 1 .. Cardinality(I) : (n < m <=> p[n] < p[m]) /\ (p[n] = p[m] => n = m)
  /\ \A i \in I : \E n \in 1 .. Cardinality(I) : p[n] = i

\* The nodes that stay have a place in the list before the erase.
LEMMA KeptPositions ==
  ASSUME NEW S, NEW s \in Seq(S), NEW I, I \subseteq DOMAIN s
  PROVE  /\ IsFiniteSet(I) /\ Cardinality(I) \in Nat
         /\ Kept(s, I) \in Seq(S) /\ Len(Kept(s, I)) = Cardinality(I)
         /\ \E p : Places(s, I, p)
<1> DEFINE card == Cardinality(I)
           rank(i) == Cardinality({j \in I : j <= i})
           p == [n \in 1 .. card |-> CHOOSE i \in I : rank(i) = n]
<1>1. I \subseteq Nat /\ DOMAIN s = 1 .. Len(s) /\ Len(s) \in Nat
  OBVIOUS
<1>2. IsFiniteSet(I) /\ card \in Nat
  <2>1. IsFiniteSet(1 .. Len(s))
    BY <1>1, Interval, Zenon
  <2> QED
    BY <1>1, <2>1, FS_Subset, FS_CardinalityType, Zenon
<1>3. /\ \A i \in I : rank(i) \in 1 .. card
      /\ \A i, k \in I : i < k => rank(i) < rank(k)
      /\ \A n \in 1 .. card : \E i \in I : rank(i) = n
  BY <1>1, <1>2, Ranks, Zenon
<1> HIDE DEF rank
<1>4. \A n \in 1 .. card : p[n] \in I /\ rank(p[n]) = n
  BY <1>3, Zenon
<1>5. p \in [1 .. card -> I]
  BY <1>4, Zenon
<1>6. ASSUME NEW n \in 1 .. card, NEW m \in 1 .. card
      PROVE  (n < m <=> p[n] < p[m]) /\ (p[n] = p[m] => n = m)
  <2>1. p[n] \in Nat /\ p[m] \in Nat /\ p[n] \in I /\ p[m] \in I
    BY <1>1, <1>4, Zenon
  <2>2. rank(p[n]) = n /\ rank(p[m]) = m
    BY <1>4, Zenon
  <2> HIDE DEF p
  <2>3. n \in Nat /\ m \in Nat
    BY <1>2
  <2>4. /\ p[n] < p[m] => n < m
        /\ p[m] < p[n] => m < n
        /\ p[n] = p[m] => n = m
    BY <1>3, <2>1, <2>2, Zenon
  <2> QED
    BY <2>1, <2>3, <2>4
<1>7. ASSUME NEW i \in I PROVE \E n \in 1 .. card : p[n] = i
  <2>1. rank(i) \in 1 .. card
    BY <1>3, Zenon
  <2>2. p[rank(i)] \in I /\ rank(p[rank(i)]) = rank(i)
    BY <1>4, <2>1, Zenon
  <2> HIDE DEF p
  <2>3. ~(p[rank(i)] < i) /\ ~(i < p[rank(i)]) /\ p[rank(i)] \in Nat /\ i \in Nat
    BY <1>1, <1>2, <1>3, <2>1, <2>2
  <2>4. p[rank(i)] = i
    BY <2>3
  <2> QED
    BY <2>1, <2>4, Zenon
<1>8. /\ Kept(s, I) = [n \in 1 .. card |-> Kept(s, I)[n]]
      /\ \A n \in 1 .. card : Kept(s, I)[n] = s[p[n]]
  BY DEF Kept, rank
<1>9. \A n \in 1 .. card : s[p[n]] \in S
  BY <1>1, <1>4
<1>10. Kept(s, I) \in Seq(S) /\ Len(Kept(s, I)) = card
  <2> HIDE DEF p, card
  <2> QED
    BY <1>2, <1>8, <1>9
<1> HIDE DEF p, card
<1>11. Places(s, I, p)
  BY <1>5, <1>6, <1>7, <1>8, Zenon DEF card, Places
<1> QED
  BY <1>2, <1>10, <1>11, Zenon DEF card

\* The place of a node in the new list is the number of nodes up to it that stay.
LEMMA KeptRank ==
  ASSUME NEW S, NEW s \in Seq(S), NEW I, I \subseteq DOMAIN s, NEW i \in I
  PROVE  Kept(s, I)[Cardinality({j \in I : j <= i})] = s[i]
<1> DEFINE rank(k) == Cardinality({j \in I : j <= k})
           k0 == CHOOSE k \in I : rank(k) = rank(i)
<1>1. I \subseteq Nat
  OBVIOUS
<1>2. IsFiniteSet(I)
  BY KeptPositions, Zenon
<1>3. /\ \A k \in I : rank(k) \in 1 .. Cardinality(I)
      /\ \A k, m \in I : k < m => rank(k) < rank(m)
  BY <1>1, <1>2, Ranks, Zenon
<1>4. Kept(s, I)[rank(i)] = s[k0]
  BY <1>3, Zenon DEF Kept
<1> HIDE DEF rank
<1>5. k0 \in I /\ rank(k0) = rank(i)
  BY Zenon
<1> HIDE DEF k0
<1>6. Cardinality(I) \in Nat
  BY <1>2, FS_CardinalityType, Zenon
<1>7. rank(i) \in Nat /\ i \in Nat /\ k0 \in Nat
  BY <1>1, <1>3, <1>5, <1>6
<1>8. ~(i < k0) /\ ~(k0 < i)
  BY <1>3, <1>5, <1>7
<1>9. i = k0
  BY <1>7, <1>8
<1> QED
  BY <1>4, <1>9, Zenon DEF rank

\* Each element is in the list once.
Once(s) == \A i, j \in DOMAIN s : s[i] = s[j] => i = j

\* The nodes that stay are those of the positions given, each once.
LEMMA KeptList ==
  ASSUME NEW S, NEW s \in Seq(S), NEW I, I \subseteq DOMAIN s
  PROVE  /\ Kept(s, I) \in Seq(S) /\ Len(Kept(s, I)) <= Len(s)
         /\ Range(Kept(s, I)) = {s[i] : i \in I}
         /\ Once(s) => Once(Kept(s, I))
<1> DEFINE t == Kept(s, I)
           card == Cardinality(I)
<1>1. IsFiniteSet(I) /\ card \in Nat /\ t \in Seq(S) /\ Len(t) = card
  BY KeptPositions, Zenon
<1>p. PICK p : Places(s, I, p)
  BY KeptPositions, Zenon
<1>2. /\ p \in [1 .. card -> I]
      /\ \A n \in 1 .. card : t[n] = s[p[n]]
      /\ \A n, m \in 1 .. card : p[n] = p[m] => n = m
      /\ \A i \in I : \E n \in 1 .. card : p[n] = i
  BY <1>p, Zenon DEF Places
<1> HIDE DEF t, card
<1>0. Len(s) \in Nat
  OBVIOUS
<1>3. DOMAIN t = 1 .. card /\ DOMAIN s = 1 .. Len(s) /\ Len(s) \in Nat
  BY <1>1
<1>4. Len(t) <= Len(s)
  <2>1. IsFiniteSet(1 .. Len(s)) /\ Cardinality(1 .. Len(s)) = Len(s)
    BY <1>0, Interval, Zenon
  <2> QED
    BY <1>1, <1>3, <2>1, FS_Subset, Zenon DEF card
<1>5. Range(t) = {s[i] : i \in I}
  <2>1. ASSUME NEW x \in Range(t) PROVE x \in {s[i] : i \in I}
    <3>1. PICK n \in 1 .. card : x = t[n]
      BY <1>3, Zenon DEF Range
    <3>2. p[n] \in I /\ x = s[p[n]]
      BY <1>2, <3>1, Zenon
    <3> QED
      BY <3>2, Zenon
  <2>2. ASSUME NEW i \in I PROVE s[i] \in Range(t)
    <3>1. PICK n \in 1 .. card : p[n] = i
      BY <1>2, Zenon
    <3>2. s[i] = t[n]
      BY <1>2, <3>1, Zenon
    <3> QED
      BY <1>3, <3>2, Zenon DEF Range
  <2> QED
    BY <2>1, <2>2, Zenon
<1>6. ASSUME Once(s), NEW n \in 1 .. card, NEW m \in 1 .. card, t[n] = t[m] PROVE n = m
  <2>1. p[n] \in DOMAIN s /\ p[m] \in DOMAIN s /\ s[p[n]] = s[p[m]]
    BY <1>2, <1>6, Zenon
  <2>2. p[n] = p[m]
    BY <1>6, <2>1, Zenon DEF Once
  <2> QED
    BY <1>2, <2>2, Zenon
<1>7. Once(s) => Once(t)
  BY <1>3, <1>6, Zenon DEF Once
<1> QED
  BY <1>1, <1>4, <1>5, <1>7, Zenon DEF t

\* Erasing the elements of a set leaves the others, each once.
LEMMA ErasedList ==
  ASSUME NEW S, NEW s \in Seq(S), NEW K
  PROVE  /\ Erased(s, K) \in Seq(S) /\ Len(Erased(s, K)) <= Len(s)
         /\ Range(Erased(s, K)) = Range(s) \ K
         /\ Once(s) => Once(Erased(s, K))
<1> DEFINE I == {i \in DOMAIN s : s[i] \notin K}
<1>1. I \subseteq DOMAIN s
  BY Zenon
<1>2. Range(s) \ K = {s[i] : i \in I}
  BY Zenon DEF Range
<1>3. Erased(s, K) = Kept(s, I)
  BY Zenon DEF Erased
<1> HIDE DEF I
<1> QED
  BY <1>1, <1>2, <1>3, KeptList, Zenon

\* A list of distinct elements is as long as they are many.
LEMMA OnceLength ==
  ASSUME NEW S, NEW s \in Seq(S), Once(s)
  PROVE  IsFiniteSet(Range(s)) /\ Len(s) = Cardinality(Range(s))
<1>1. DOMAIN s = 1 .. Len(s) /\ Len(s) \in Nat /\ s \in [1 .. Len(s) -> S]
  OBVIOUS
<1>2. s \in [DOMAIN s -> Range(s)] /\ \A y \in Range(s) : \E i \in DOMAIN s : s[i] = y
  BY <1>1, Zenon DEF Range
<1>3. OneToOne(s, 1 .. Len(s), Range(s))
  BY <1>1, <1>2, Zenon DEF OneToOne, Once
<1>4. IsFiniteSet(1 .. Len(s)) /\ Cardinality(1 .. Len(s)) = Len(s)
  BY <1>1, Interval, Zenon
<1> QED
  BY <1>3, <1>4, SameCardinality, Zenon

\* A new element goes to the front of a list.
LEMMA FrontList ==
  ASSUME NEW S, NEW s \in Seq(S), NEW k \in S
  PROVE  /\ <<k>> \o s \in Seq(S) /\ Len(<<k>> \o s) = Len(s) + 1
         /\ Range(<<k>> \o s) = Range(s) \cup {k}
         /\ Once(s) /\ k \notin Range(s) => Once(<<k>> \o s)
<1> DEFINE t == <<k>> \o s
<1>1. /\ t \in Seq(S) /\ Len(t) = Len(s) + 1 /\ DOMAIN t = 1 .. Len(s) + 1
      /\ t[1] = k /\ \A i \in 1 .. Len(s) : t[i + 1] = s[i]
      /\ Len(s) \in Nat /\ DOMAIN s = 1 .. Len(s)
  <2>1. Len(s) \in Nat /\ DOMAIN s = 1 .. Len(s)
    OBVIOUS
  <2>2. t \in Seq(S) /\ Len(t) = Len(s) + 1 /\ DOMAIN t = 1 .. Len(s) + 1
    OBVIOUS
  <2>3. t[1] = k /\ \A i \in 1 .. Len(s) : t[i + 1] = s[i]
    OBVIOUS
  <2> QED
    BY <2>1, <2>2, <2>3, Zenon
<1> HIDE DEF t
<1>2. \A i \in DOMAIN t : i = 1 \/ \E j \in DOMAIN s : i = j + 1
  <2>1. \A i \in 1 .. Len(s) + 1 : i = 1 \/ (i - 1 \in 1 .. Len(s) /\ i = (i - 1) + 1)
    BY <1>1
  <2> QED
    BY <1>1, <2>1, Zenon
<1>3. 1 \in DOMAIN t /\ \A j \in DOMAIN s : j + 1 \in DOMAIN t
  BY <1>1
<1>4. Range(t) = Range(s) \cup {k}
  <2>1. ASSUME NEW x \in Range(t) PROVE x \in Range(s) \cup {k}
    <3>1. PICK i \in DOMAIN t : x = t[i]
      BY <2>1, Zenon DEF Range
    <3>2. i = 1 \/ \E j \in DOMAIN s : i = j + 1
      BY <1>2, Zenon
    <3> QED
      BY <1>1, <3>1, <3>2, Zenon DEF Range
  <2>2. ASSUME NEW i \in DOMAIN s PROVE s[i] \in Range(t)
    <3>1. s[i] = t[i + 1] /\ i + 1 \in DOMAIN t
      BY <1>1, <1>3, Zenon
    <3> QED
      BY <3>1, Zenon DEF Range
  <2>3. k \in Range(t)
    BY <1>1, <1>3, Zenon DEF Range
  <2> QED
    BY <2>1, <2>2, <2>3, Zenon DEF Range
<1>5. ASSUME Once(s), k \notin Range(s) PROVE Once(t)
  <2> SUFFICES ASSUME NEW i \in DOMAIN t, NEW j \in DOMAIN t, t[i] = t[j] PROVE i = j
    BY Zenon DEF Once
  <2>1. \A n \in DOMAIN s : t[n + 1] # k
    BY <1>1, <1>5, Zenon DEF Range
  <2>2. i = 1 \/ \E m \in DOMAIN s : i = m + 1
    BY <1>2, Zenon
  <2>3. j = 1 \/ \E m \in DOMAIN s : j = m + 1
    BY <1>2, Zenon
  <2>4. CASE i = 1 \/ j = 1
    BY <1>1, <2>1, <2>2, <2>3, <2>4, Zenon
  <2>5. CASE i # 1 /\ j # 1
    <3>1. PICK n \in DOMAIN s : i = n + 1
      BY <2>2, <2>5, Zenon
    <3>2. PICK m \in DOMAIN s : j = m + 1
      BY <2>3, <2>5, Zenon
    <3> QED
      BY <1>1, <1>5, <3>1, <3>2, Zenon DEF Once
  <2> QED
    BY <2>4, <2>5, Zenon
<1> QED
  BY <1>1, <1>4, <1>5, Zenon DEF t

\* The last element leaves a list.
LEMMA BackList ==
  ASSUME NEW S, NEW s \in Seq(S), Len(s) > 0
  PROVE  /\ SubSeq(s, 1, Len(s) - 1) \in Seq(S) /\ Len(SubSeq(s, 1, Len(s) - 1)) = Len(s) - 1
         /\ s[Len(s)] \in Range(s)
         /\ Once(s) => /\ Once(SubSeq(s, 1, Len(s) - 1))
                       /\ Range(SubSeq(s, 1, Len(s) - 1)) = Range(s) \ {s[Len(s)]}
<1> DEFINE t == SubSeq(s, 1, Len(s) - 1)
<1>1. /\ t \in Seq(S) /\ Len(t) = Len(s) - 1 /\ DOMAIN t = 1 .. Len(s) - 1
      /\ \A i \in 1 .. Len(s) - 1 : t[i] = s[i]
      /\ Len(s) \in Nat /\ DOMAIN s = 1 .. Len(s) /\ Len(s) \in DOMAIN s
  <2>1. /\ Len(s) \in Nat /\ Len(s) - 1 \in Nat /\ DOMAIN s = 1 .. Len(s) /\ Len(s) \in DOMAIN s
        /\ \A i \in 1 .. Len(s) - 1 : s[i] \in S
    OBVIOUS
  <2>2. /\ t \in Seq(S) /\ Len(t) = Len(s) - 1
        /\ \A i \in 1 .. Len(s) - 1 : t[i] = s[i]
    BY <2>1
  <2> HIDE DEF t
  <2>3. DOMAIN t = 1 .. Len(s) - 1
    BY <2>2
  <2> QED
    BY <2>1, <2>2, <2>3, Zenon
<1> HIDE DEF t
<1>2. \A i \in DOMAIN s : i \in DOMAIN t \/ i = Len(s)
  BY <1>1
<1>3. \A i \in DOMAIN t : i \in DOMAIN s /\ i # Len(s) /\ t[i] = s[i]
  BY <1>1
<1>4. s[Len(s)] \in Range(s)
  BY <1>1, Zenon DEF Range
<1>5. ASSUME Once(s) PROVE Once(t) /\ Range(t) = Range(s) \ {s[Len(s)]}
  <2>1. Once(t)
    BY <1>3, <1>5, Zenon DEF Once
  <2>2. ASSUME NEW i \in DOMAIN t PROVE t[i] \in Range(s) \ {s[Len(s)]}
    BY <1>1, <1>3, <1>5, Zenon DEF Once, Range
  <2>3. ASSUME NEW i \in DOMAIN s, s[i] # s[Len(s)] PROVE s[i] \in Range(t)
    BY <1>2, <1>3, <2>3, Zenon DEF Range
  <2> QED
    BY <2>1, <2>2, <2>3, Zenon DEF Range
<1> QED
  BY <1>1, <1>4, <1>5, Zenon DEF t

-----------------------------------------------------------------------------
(* A list of nodes and the queues of entries the nodes stand for. *)

\* Queue q has an entry with value h.
Has(q, h) == \E n \in DOMAIN q : q[n].value = h

MatchTypes(S, T, L, M) ==
  /\ L \in Seq(S)
  /\ M \in [DOMAIN M -> Seq(T) \ {<<>>}]

ValuesOnce(L) == \A i, j \in DOMAIN L : L[i].value = L[j].value => i = j

NodesQueued(L, M) == \A i \in DOMAIN L : L[i].key \in DOMAIN M /\ Has(M[L[i].key], L[i].value)

EntriesListed(L, M) ==
  \A k \in DOMAIN M : \A n \in DOMAIN M[k] :
    \E i \in DOMAIN L : L[i].key = k /\ L[i].value = M[k][n].value

QueuesOrdered(L, M) ==
  \A k \in DOMAIN M : \A n, m \in DOMAIN M[k] : \A i, j \in DOMAIN L :
    n < m /\ L[i].value = M[k][n].value /\ L[j].value = M[k][m].value => j < i

\* Every node of the list L stands for one entry of the queues M and every entry
\* has a node; the nodes of a queue are in the list in the other direction.
Matches(S, T, L, M) ==
  /\ MatchTypes(S, T, L, M) /\ ValuesOnce(L) /\ NodesQueued(L, M)
  /\ EntriesListed(L, M) /\ QueuesOrdered(L, M)

\* A later entry of a queue has its node nearer to the front of the list.
LEMMA InOrder ==
  ASSUME NEW L, NEW M, QueuesOrdered(L, M), NEW k \in DOMAIN M,
         NEW n \in DOMAIN M[k], NEW m \in DOMAIN M[k], n < m,
         NEW i \in DOMAIN L, NEW j \in DOMAIN L,
         L[i].value = M[k][n].value, L[j].value = M[k][m].value
  PROVE  j < i
BY Zenon DEF QueuesOrdered

\* Two positions of a queue, moved by the same distance.
LEMMA Shifted ==
  ASSUME NEW S, NEW q \in Seq(S), NEW n \in DOMAIN q, NEW m \in DOMAIN q, NEW e \in Nat,
         n < m, NEW a, a = n + e, NEW b, b = m + e
  PROVE  a < b
OBVIOUS

\* Entries leave the front of the queues M, N remain: V are the values that go,
\* d[k] is how many go from the queue of k.
Shrunk(T, M, N, V, d) ==
  /\ DOMAIN N \subseteq DOMAIN M /\ N \in [DOMAIN N -> Seq(T) \ {<<>>}]
  /\ d \in [DOMAIN N -> Nat]
  /\ \A k \in DOMAIN N : \A n \in DOMAIN N[k] :
       n + d[k] \in DOMAIN M[k] /\ N[k][n] = M[k][n + d[k]] /\ N[k][n].value \notin V
  /\ \A k \in DOMAIN M : \A n \in DOMAIN M[k] : M[k][n].value \notin V =>
       k \in DOMAIN N /\ \E m \in DOMAIN N[k] : N[k][m] = M[k][n]

\* Their nodes leave the list.
LEMMA DeletedMatches ==
  ASSUME NEW S, NEW T, NEW L, NEW M, Matches(S, T, L, M), NEW N, NEW V, NEW d, Shrunk(T, M, N, V, d)
  PROVE  Matches(S, T, Kept(L, {i \in DOMAIN L : L[i].value \notin V}), N)
<1> DEFINE I == {i \in DOMAIN L : L[i].value \notin V}
           K == Kept(L, I)
           card == Cardinality(I)
<1>1. L \in Seq(S) /\ I \subseteq DOMAIN L
  BY Zenon DEF Matches, MatchTypes
<1>2. \A i \in I : i \in DOMAIN L /\ L[i].value \notin V
  BY Zenon
<1>3. \A i \in DOMAIN L : L[i].value \notin V => i \in I
  BY Zenon
<1> HIDE DEF I
<1>4. card \in Nat /\ K \in Seq(S) /\ Len(K) = card
  BY <1>1, KeptPositions, Zenon
<1>5. PICK p : Places(L, I, p)
  BY <1>1, KeptPositions, Zenon
<1>6. DOMAIN K = 1 .. card
  <2> HIDE DEF K, card
  <2> QED
    BY <1>4
<1>7. /\ \A n \in DOMAIN K : p[n] \in I /\ K[n] = L[p[n]]
      /\ \A n, m \in DOMAIN K : (n < m <=> p[n] < p[m]) /\ (p[n] = p[m] => n = m)
      /\ \A i \in I : \E n \in DOMAIN K : p[n] = i
  BY <1>5, <1>6, Zenon DEF Places
<1> HIDE DEF K
<1>8. MatchTypes(S, T, K, N)
  BY <1>4, Zenon DEF MatchTypes, Matches, Shrunk
<1>9. ValuesOnce(K)
  <2> SUFFICES ASSUME NEW n \in DOMAIN K, NEW m \in DOMAIN K, K[n].value = K[m].value
               PROVE  n = m
    BY Zenon DEF ValuesOnce
  <2>1. p[n] \in DOMAIN L /\ p[m] \in DOMAIN L /\ L[p[n]].value = L[p[m]].value
    BY <1>2, <1>7, Zenon
  <2>2. p[n] = p[m]
    BY <2>1, Zenon DEF Matches, ValuesOnce
  <2> QED
    BY <1>7, <2>2, Zenon
<1>10. NodesQueued(K, N)
  <2> SUFFICES ASSUME NEW j \in DOMAIN K
               PROVE  K[j].key \in DOMAIN N /\ Has(N[K[j].key], K[j].value)
    BY Zenon DEF NodesQueued
  <2> DEFINE i == p[j]
             k == L[i].key
  <2>1. i \in DOMAIN L /\ L[i].value \notin V /\ K[j] = L[i]
    BY <1>2, <1>7, Zenon
  <2> HIDE DEF i
  <2>2. k \in DOMAIN M /\ Has(M[k], L[i].value)
    BY <2>1, Zenon DEF Matches, NodesQueued
  <2>3. PICK n \in DOMAIN M[k] : M[k][n].value = L[i].value
    BY <2>2, Zenon DEF Has
  <2>4. k \in DOMAIN N /\ \E m \in DOMAIN N[k] : N[k][m] = M[k][n]
    BY <2>1, <2>2, <2>3, Zenon DEF Shrunk
  <2>5. PICK m \in DOMAIN N[k] : N[k][m] = M[k][n]
    BY <2>4, Zenon
  <2>6. N[k][m].value = L[i].value
    BY <2>3, <2>5, Zenon
  <2>7. Has(N[k], L[i].value)
    BY <2>6, Zenon DEF Has
  <2> QED
    BY <2>1, <2>4, <2>7, Zenon
<1>11. EntriesListed(K, N)
  <2> SUFFICES ASSUME NEW k \in DOMAIN N, NEW n \in DOMAIN N[k]
               PROVE  \E j \in DOMAIN K : K[j].key = k /\ K[j].value = N[k][n].value
    BY Zenon DEF EntriesListed
  <2>1. k \in DOMAIN M /\ n + d[k] \in DOMAIN M[k]
        /\ N[k][n] = M[k][n + d[k]] /\ N[k][n].value \notin V
    BY Zenon DEF Shrunk
  <2>2. PICK i \in DOMAIN L : L[i].key = k /\ L[i].value = M[k][n + d[k]].value
    BY <2>1 DEF Matches, EntriesListed
  <2>3. i \in I
    BY <1>3, <2>1, <2>2, Zenon
  <2>4. PICK j \in DOMAIN K : p[j] = i
    BY <1>7, <2>3, Zenon
  <2> QED
    BY <1>7, <2>1, <2>2, <2>4
<1>12. QueuesOrdered(K, N)
  <2> SUFFICES ASSUME NEW k \in DOMAIN N, NEW n \in DOMAIN N[k], NEW m \in DOMAIN N[k],
                      NEW i \in DOMAIN K, NEW j \in DOMAIN K,
                      n < m, K[i].value = N[k][n].value, K[j].value = N[k][m].value
               PROVE  j < i
    BY Zenon DEF QueuesOrdered
  <2>1. k \in DOMAIN M
    BY Zenon DEF Shrunk
  <2>2. PICK a \in DOMAIN M[k] : a = n + d[k] /\ N[k][n] = M[k][a]
    BY Zenon DEF Shrunk
  <2>3. PICK b \in DOMAIN M[k] : b = m + d[k] /\ N[k][m] = M[k][b]
    BY Zenon DEF Shrunk
  <2>4. p[i] \in DOMAIN L /\ p[j] \in DOMAIN L /\ K[i] = L[p[i]] /\ K[j] = L[p[j]]
    BY <1>2, <1>7, Zenon
  <2>5. a < b
    <3>1. N[k] \in Seq(T) /\ d[k] \in Nat
      BY Zenon DEF Shrunk
    <3> QED
      BY <2>2, <2>3, <3>1, Shifted, Zenon
  <2>6. L[p[i]].value = M[k][a].value /\ L[p[j]].value = M[k][b].value
    BY <2>2, <2>3, <2>4, Zenon
  <2>7. QueuesOrdered(L, M)
    BY Zenon DEF Matches
  <2>8. p[j] < p[i]
    BY <2>1, <2>4, <2>5, <2>6, <2>7, InOrder
  <2> QED
    BY <1>7, <2>8, Zenon
<1> QED
  BY <1>8, <1>9, <1>10, <1>11, <1>12, Zenon DEF Matches, K, I

\* No value is queued twice, under one key or under two.
LEMMA EntryOnce ==
  ASSUME NEW S, NEW T, NEW L, NEW M, Matches(S, T, L, M), NEW k \in DOMAIN M, NEW n \in DOMAIN M[k],
         NEW j \in DOMAIN M, NEW m \in DOMAIN M[j], M[k][n].value = M[j][m].value
  PROVE  k = j /\ n = m
<1>1. PICK i \in DOMAIN L : L[i].key = k /\ L[i].value = M[k][n].value
  BY Zenon DEF Matches, EntriesListed
<1>2. PICK h \in DOMAIN L : L[h].key = j /\ L[h].value = M[j][m].value
  BY Zenon DEF Matches, EntriesListed
<1>3. i = h /\ k = j
  BY <1>1, <1>2, Zenon DEF Matches, ValuesOnce
<1>4. L \in Seq(S) /\ M[k] \in Seq(T) /\ QueuesOrdered(L, M)
  BY Zenon DEF Matches, MatchTypes
<1>5. i \in Nat /\ n \in Nat /\ m \in Nat
  BY <1>3, <1>4
<1>6. ~ (i < i) /\ (n = m \/ n < m \/ m < n)
  BY <1>5
<1>7. ~ (n < m)
  BY <1>1, <1>2, <1>3, <1>4, <1>6, InOrder
<1>8. ~ (m < n)
  BY <1>1, <1>2, <1>3, <1>4, <1>6, InOrder
<1> QED
  BY <1>3, <1>6, <1>7, <1>8, Zenon

\* r is the queue q without its first n entries.
Rest(r, q, n) ==
  /\ DOMAIN r = 1 .. Len(q) - n
  /\ \A i \in DOMAIN r : i + n \in DOMAIN q /\ i + n \notin 1 .. n /\ r[i] = q[i + n]
  /\ \A m \in DOMAIN q : m \notin 1 .. n => \E i \in DOMAIN r : r[i] = q[m]
  /\ r = <<>> <=> DOMAIN r = {}

\* What is left of a queue when its first n entries go.
LEMMA RestList ==
  ASSUME NEW S, NEW q \in Seq(S), NEW n \in 0 .. Len(q)
  PROVE  SubSeq(q, n + 1, Len(q)) \in Seq(S) /\ Rest(SubSeq(q, n + 1, Len(q)), q, n)
<1> DEFINE l == Len(q)
           r == SubSeq(q, n + 1, l)
<1>1. l \in Nat /\ n \in Nat /\ n <= l /\ DOMAIN q = 1 .. l /\ \A i \in (n + 1) .. l : q[i] \in S
  OBVIOUS
<1> HIDE DEF l
<1>2. n + 1 \in Int /\ l \in Int
  BY <1>1
<1>3. /\ r \in Seq(S) /\ Len(r) = IF n + 1 <= l THEN l - (n + 1) + 1 ELSE 0
      /\ \A i \in 1 .. l - (n + 1) + 1 : r[i] = q[n + 1 + i - 1]
  BY <1>1, <1>2 DEF l
<1> HIDE DEF r
<1>4. Len(r) = l - n
  BY <1>1, <1>3
<1>5. DOMAIN r = 1 .. l - n
  BY <1>3, <1>4
<1>6. ASSUME NEW i \in 1 .. l - n
      PROVE  i + n \in 1 .. l /\ i + n \notin 1 .. n /\ i \in 1 .. l - (n + 1) + 1 /\ n + 1 + i - 1 = i + n
  BY <1>1
<1>7. \A i \in DOMAIN r : i + n \in DOMAIN q /\ i + n \notin 1 .. n /\ r[i] = q[i + n]
  BY <1>1, <1>3, <1>5, <1>6, Zenon
<1>8. ASSUME NEW m \in DOMAIN q, m \notin 1 .. n
      PROVE  \E i \in DOMAIN r : r[i] = q[m]
  <2>1. m - n \in 1 .. l - n /\ (m - n) + n = m
    BY <1>1, <1>8
  <2> QED
    BY <1>5, <1>7, <2>1, Zenon
<1>9. r = <<>> => DOMAIN r = {}
  OBVIOUS
<1>10. r # <<>> => 1 \in DOMAIN r
  <2>1. r # <<>> => Len(r) \in Nat \ {0}
    BY <1>3, NotEmpty, Zenon
  <2> QED
    BY <1>3, <2>1
<1> QED
  BY <1>3, <1>5, <1>7, <1>8, <1>9, <1>10, Zenon DEF Rest, r, l

\* The first entries of a queue have as many values.
LEMMA FirstValues ==
  ASSUME NEW S, NEW T, NEW L, NEW M, Matches(S, T, L, M), NEW k \in DOMAIN M, NEW n \in 0 .. Len(M[k])
  PROVE  /\ 1 .. n \subseteq DOMAIN M[k]
         /\ Cardinality({M[k][m].value : m \in 1 .. n}) = n
<1> DEFINE V == {M[k][m].value : m \in 1 .. n}
           f == [m \in 1 .. n |-> M[k][m].value]
<1>1. M[k] \in Seq(T)
  BY Zenon DEF Matches, MatchTypes
<1>2. n \in Nat /\ 1 .. n \subseteq DOMAIN M[k]
  BY <1>1
<1>3. \A i, j \in 1 .. n : M[k][i].value = M[k][j].value => i = j
  BY <1>2, EntryOnce
<1>4. f \in [1 .. n -> V] /\ \A i, j \in 1 .. n : f[i] = f[j] => i = j
  BY <1>3, Zenon
<1>5. \A x \in V : \E i \in 1 .. n : f[i] = x
  BY Zenon
<1> HIDE DEF f, V
<1>6. OneToOne(f, 1 .. n, V)
  BY <1>4, <1>5, Zenon DEF OneToOne
<1>7. Cardinality(V) = n
  BY <1>2, <1>6, Interval, SameCardinality, Zenon
<1> QED
  BY <1>2, <1>7, Zenon DEF V

\* t is the list s with x in front.
Front(t, x, s) ==
  /\ 1 \in DOMAIN t /\ t[1] = x
  /\ \A j \in DOMAIN t : j = 1 \/ (1 < j /\ \E i \in DOMAIN s : j = i + 1 /\ t[j] = s[i])
  /\ \A i \in DOMAIN s : i + 1 \in DOMAIN t /\ t[i + 1] = s[i]

\* emplace_front.
LEMMA FrontPositions ==
  ASSUME NEW S, NEW s \in Seq(S), NEW x \in S
  PROVE  <<x>> \o s \in Seq(S) /\ Front(<<x>> \o s, x, s)
<1> DEFINE t == <<x>> \o s
<1>1. t \in Seq(S) /\ Len(t) = Len(s) + 1
  OBVIOUS
<1>2. Len(s) \in Nat /\ DOMAIN s = 1 .. Len(s)
  OBVIOUS
<1>3. DOMAIN t = 1 .. Len(s) + 1
  <2> HIDE DEF t
  <2> QED
    BY <1>1
<1>4. t[1] = x /\ \A i \in DOMAIN s : t[i + 1] = s[i]
  BY <1>1, <1>2
<1> HIDE DEF t
<1>5. 1 \in DOMAIN t /\ \A i \in DOMAIN s : i + 1 \in DOMAIN t
  BY <1>2, <1>3
<1>6. ASSUME NEW j \in DOMAIN t, j # 1 PROVE 1 < j /\ j - 1 \in DOMAIN s /\ j = (j - 1) + 1
  BY <1>2, <1>3, <1>6
<1> QED
  BY <1>1, <1>4, <1>5, <1>6, Zenon DEF Front, t

\* t is the queue s with x at the end.
Back(t, x, s) ==
  \E z \in DOMAIN t :
    /\ t[z] = x /\ \A n \in DOMAIN t : n \in DOMAIN s \/ n = z
    /\ \A n \in DOMAIN s : n \in DOMAIN t /\ t[n] = s[n] /\ n < z /\ ~ (z < n) /\ n # z
    /\ ~ (z < z)

\* emplace_back.
LEMMA BackPositions ==
  ASSUME NEW S, NEW s \in Seq(S), NEW x \in S
  PROVE  Append(s, x) \in Seq(S) \ {<<>>} /\ Back(Append(s, x), x, s)
<1> DEFINE t == Append(s, x)
           z == Len(s) + 1
<1>1. t \in Seq(S) /\ Len(t) = z /\ t[z] = x /\ \A n \in DOMAIN s : t[n] = s[n]
  OBVIOUS
<1>2. Len(s) \in Nat /\ DOMAIN s = 1 .. Len(s)
  OBVIOUS
<1> HIDE DEF t
<1>3. DOMAIN t = 1 .. Len(s) + 1 /\ t # <<>>
  BY <1>1, <1>2
<1>4. /\ z \in DOMAIN t /\ \A n \in DOMAIN t : n \in DOMAIN s \/ n = z
      /\ \A n \in DOMAIN s : n \in DOMAIN t /\ n < z /\ ~ (z < n) /\ n # z
      /\ ~ (z < z)
  BY <1>2, <1>3
<1> HIDE DEF z
<1> QED
  BY <1>1, <1>3, <1>4, Zenon DEF Back, t

\* The queues N are the queues M with entry e at the end of the queue of k.
Grown(T, M, N, k, e) ==
  /\ DOMAIN N = DOMAIN M \cup {k} /\ N \in [DOMAIN N -> Seq(T) \ {<<>>}]
  /\ \A j \in DOMAIN M : j # k => N[j] = M[j]
  /\ \E q : Back(N[k], e, q) /\ (k \in DOMAIN M => q = M[k]) /\ (k \notin DOMAIN M => DOMAIN q = {})

\* A new entry goes to the end of its queue, its node to the front of the list.
LEMMA EnqueuedMatches ==
  ASSUME NEW S, NEW T, NEW L, NEW M, Matches(S, T, L, M), NEW k, NEW x \in S, x.key = k,
         \A i \in DOMAIN L : L[i].value # x.value,
         NEW e, e.value = x.value, NEW K, K \in Seq(S), Front(K, x, L),
         NEW N, Grown(T, M, N, k, e)
  PROVE  Matches(S, T, K, N)
<1>1. PICK q : Back(N[k], e, q) /\ (k \in DOMAIN M => q = M[k]) /\ (k \notin DOMAIN M => DOMAIN q = {})
  BY Zenon DEF Grown
<1>2. PICK z \in DOMAIN N[k] :
        /\ N[k][z] = e /\ \A n \in DOMAIN N[k] : n \in DOMAIN q \/ n = z
        /\ \A n \in DOMAIN q : n \in DOMAIN N[k] /\ N[k][n] = q[n] /\ n < z /\ ~ (z < n) /\ n # z
        /\ ~ (z < z)
  BY <1>1, Zenon DEF Back
<1>3. DOMAIN N = DOMAIN M \cup {k} /\ \A j \in DOMAIN M : j # k => N[j] = M[j]
  BY Zenon DEF Grown
<1>4. ASSUME NEW j \in DOMAIN M, NEW n \in DOMAIN M[j]
      PROVE  n \in DOMAIN N[j] /\ N[j][n] = M[j][n] /\ (j # k \/ n # z)
  <2>1. CASE j = k
    <3>1. n \in DOMAIN q /\ q = M[j]
      BY <1>1, <2>1, Zenon
    <3> QED
      BY <1>2, <2>1, <3>1, Zenon
  <2>2. CASE j # k
    BY <1>3, <2>2, Zenon
  <2> QED
    BY <2>1, <2>2, Zenon
<1>5. ASSUME NEW j \in DOMAIN N, NEW n \in DOMAIN N[j]
      PROVE  (j = k /\ n = z) \/ (j \in DOMAIN M /\ n \in DOMAIN M[j])
  <2>1. CASE j = k
    <3>1. n = z \/ n \in DOMAIN q
      BY <1>2, <2>1, Zenon
    <3>2. n \in DOMAIN q => j \in DOMAIN M /\ q = M[j]
      BY <1>1, <2>1, Zenon
    <3> QED
      BY <2>1, <3>1, <3>2, Zenon
  <2>2. CASE j # k
    BY <1>3, <2>2, Zenon
  <2> QED
    BY <2>1, <2>2, Zenon
<1>6. /\ 1 \in DOMAIN K /\ K[1] = x
      /\ \A j \in DOMAIN K : j = 1 \/ (1 < j /\ \E i \in DOMAIN L : j = i + 1 /\ K[j] = L[i])
      /\ \A i \in DOMAIN L : i + 1 \in DOMAIN K /\ K[i + 1] = L[i]
  BY Zenon DEF Front
<1>7. ASSUME NEW j \in DOMAIN M, NEW n \in DOMAIN M[j] PROVE M[j][n].value # x.value
  <2>1. PICK i \in DOMAIN L : L[i].key = j /\ L[i].value = M[j][n].value
    BY Zenon DEF Matches, EntriesListed
  <2> QED
    BY <2>1, Zenon
<1>8. ASSUME NEW j \in DOMAIN K, K[j].value # x.value
      PROVE  1 < j /\ \E i \in DOMAIN L : j = i + 1 /\ K[j] = L[i]
  BY <1>6, <1>8, Zenon
<1>9. ASSUME NEW j \in DOMAIN K, K[j].value = x.value PROVE j = 1
  <2> SUFFICES ASSUME j # 1 PROVE FALSE
    BY Zenon
  <2>1. PICK i \in DOMAIN L : K[j] = L[i]
    BY <1>6, Zenon
  <2> QED
    BY <1>9, <2>1, Zenon
<1>10. MatchTypes(S, T, K, N)
  BY <1>3, Zenon DEF MatchTypes, Grown, Matches
<1>11. ValuesOnce(K)
  <2> SUFFICES ASSUME NEW i \in DOMAIN K, NEW j \in DOMAIN K, K[i].value = K[j].value PROVE i = j
    BY Zenon DEF ValuesOnce
  <2>1. CASE K[i].value = x.value
    BY <1>9, <2>1, Zenon
  <2>2. CASE K[i].value # x.value
    <3>1. PICK a \in DOMAIN L : i = a + 1 /\ K[i] = L[a]
      BY <1>8, <2>2, Zenon
    <3>2. PICK b \in DOMAIN L : j = b + 1 /\ K[j] = L[b]
      BY <1>8, <2>2, Zenon
    <3>3. a = b
      BY <3>1, <3>2, Zenon DEF Matches, ValuesOnce
    <3> QED
      BY <3>1, <3>2, <3>3, Zenon
  <2> QED
    BY <2>1, <2>2, Zenon
<1>12. NodesQueued(K, N)
  <2> SUFFICES ASSUME NEW i \in DOMAIN K
               PROVE  K[i].key \in DOMAIN N /\ Has(N[K[i].key], K[i].value)
    BY Zenon DEF NodesQueued
  <2>1. CASE K[i].value = x.value
    <3>1. K[i] = x
      BY <1>6, <1>9, <2>1, Zenon
    <3>2. Has(N[k], x.value)
      BY <1>2, Zenon DEF Has
    <3> QED
      BY <1>3, <3>1, <3>2, Zenon
  <2>2. CASE K[i].value # x.value
    <3>1. PICK a \in DOMAIN L : K[i] = L[a]
      BY <1>8, <2>2, Zenon
    <3>2. PICK j \in DOMAIN M : j = L[a].key /\ Has(M[j], L[a].value)
      BY Zenon DEF Matches, NodesQueued
    <3>3. PICK n \in DOMAIN M[j] : M[j][n].value = L[a].value
      BY <3>2, Zenon DEF Has
    <3>4. n \in DOMAIN N[j] /\ N[j][n].value = L[a].value
      BY <1>4, <3>3, Zenon
    <3>5. Has(N[j], L[a].value)
      BY <3>4, Zenon DEF Has
    <3> QED
      BY <1>3, <3>1, <3>2, <3>5, Zenon
  <2> QED
    BY <2>1, <2>2, Zenon
<1>13. EntriesListed(K, N)
  <2> SUFFICES ASSUME NEW j \in DOMAIN N, NEW n \in DOMAIN N[j]
               PROVE  \E i \in DOMAIN K : K[i].key = j /\ K[i].value = N[j][n].value
    BY Zenon DEF EntriesListed
  <2>1. CASE j = k /\ n = z
    BY <1>2, <1>6, <2>1, Zenon
  <2>2. CASE j \in DOMAIN M /\ n \in DOMAIN M[j]
    <3>1. PICK i \in DOMAIN L : L[i].key = j /\ L[i].value = M[j][n].value
      BY <2>2, Zenon DEF Matches, EntriesListed
    <3>2. PICK a \in DOMAIN K : K[a] = L[i]
      BY <1>6, Zenon
    <3> QED
      BY <1>4, <2>2, <3>1, <3>2, Zenon
  <2> QED
    BY <1>5, <2>1, <2>2, Zenon
<1>14. QueuesOrdered(K, N)
  <2> SUFFICES ASSUME NEW j \in DOMAIN N, NEW n \in DOMAIN N[j], NEW m \in DOMAIN N[j],
                      NEW a \in DOMAIN K, NEW b \in DOMAIN K,
                      n < m, K[a].value = N[j][n].value, K[b].value = N[j][m].value
               PROVE  b < a
    BY Zenon DEF QueuesOrdered
  <2>1. ~ (j = k /\ n = z)
    <3> SUFFICES ASSUME j = k, n = z PROVE FALSE
      BY Zenon
    <3>1. m \in DOMAIN q \/ m = z
      BY <1>2, Zenon
    <3> QED
      BY <1>2, <3>1, Zenon
  <2>2. j \in DOMAIN M /\ n \in DOMAIN M[j] /\ N[j][n] = M[j][n]
    BY <1>4, <1>5, <2>1, Zenon
  <2>3. K[a].value # x.value
    BY <1>7, <2>2, Zenon
  <2>4. 1 < a
    BY <1>8, <2>3, Zenon
  <2>5. CASE j = k /\ m = z
    <3>1. b = 1
      BY <1>2, <1>9, <2>5, Zenon
    <3> QED
      BY <2>4, <3>1, Zenon
  <2>6. CASE m \in DOMAIN M[j]
    <3>1. N[j][m] = M[j][m] /\ K[b].value # x.value
      <4>1. N[j][m] = M[j][m]
        BY <1>4, <2>2, <2>6, Zenon
      <4>2. M[j][m].value # x.value
        BY <1>7, <2>2, <2>6, Zenon
      <4> QED
        BY <4>1, <4>2, Zenon
    <3>2. PICK c \in DOMAIN L : a = c + 1 /\ K[a] = L[c]
      BY <1>8, <2>3, Zenon
    <3>3. PICK d \in DOMAIN L : b = d + 1 /\ K[b] = L[d]
      BY <1>8, <3>1, Zenon
    <3>4. L[c].value = M[j][n].value /\ L[d].value = M[j][m].value
      BY <2>2, <3>1, <3>2, <3>3, Zenon
    <3>5. L \in Seq(S) /\ QueuesOrdered(L, M)
      BY Zenon DEF Matches, MatchTypes
    <3>6. d < c
      BY <2>2, <2>6, <3>4, <3>5, Zenon DEF QueuesOrdered
    <3>7. 1 \in Nat
      OBVIOUS
    <3> QED
      BY <3>2, <3>3, <3>5, <3>6, <3>7, Shifted, Zenon
  <2> QED
    BY <1>5, <2>5, <2>6, Zenon
<1> QED
  BY <1>10, <1>11, <1>12, <1>13, <1>14, Zenon DEF Matches

\* The queues N have the entries of M, with other ages.
SameValues(T, M, N) ==
  /\ DOMAIN N = DOMAIN M /\ N \in [DOMAIN N -> Seq(T) \ {<<>>}]
  /\ \A k \in DOMAIN M : DOMAIN N[k] = DOMAIN M[k]
                         /\ \A n \in DOMAIN M[k] : N[k][n].value = M[k][n].value

\* They match the same list.
LEMMA SameMatches ==
  ASSUME NEW S, NEW T, NEW L, NEW M, Matches(S, T, L, M), NEW N, SameValues(T, M, N)
  PROVE  Matches(S, T, L, N) /\ \A k \in DOMAIN M : \A h : Has(N[k], h) <=> Has(M[k], h)
<1>1. \A k \in DOMAIN M : \A h : Has(N[k], h) <=> Has(M[k], h)
  BY Zenon DEF SameValues, Has
<1>2. MatchTypes(S, T, L, N)
  BY Zenon DEF MatchTypes, SameValues, Matches
<1>3. NodesQueued(L, N)
  BY <1>1, Zenon DEF NodesQueued, SameValues, Matches
<1>4. EntriesListed(L, N)
  <2> SUFFICES ASSUME NEW k \in DOMAIN N, NEW n \in DOMAIN N[k]
               PROVE  \E i \in DOMAIN L : L[i].key = k /\ L[i].value = N[k][n].value
    BY Zenon DEF EntriesListed
  <2>1. k \in DOMAIN M /\ n \in DOMAIN M[k] /\ N[k][n].value = M[k][n].value
    BY Zenon DEF SameValues
  <2>2. \E i \in DOMAIN L : L[i].key = k /\ L[i].value = M[k][n].value
    BY <2>1, Zenon DEF EntriesListed, Matches
  <2> QED
    BY <2>1, <2>2, Zenon
<1>5. QueuesOrdered(L, N)
  <2> SUFFICES ASSUME NEW k \in DOMAIN N, NEW n \in DOMAIN N[k], NEW m \in DOMAIN N[k],
                      NEW i \in DOMAIN L, NEW j \in DOMAIN L,
                      n < m, L[i].value = N[k][n].value, L[j].value = N[k][m].value
               PROVE  j < i
    BY Zenon DEF QueuesOrdered
  <2>1. k \in DOMAIN M /\ n \in DOMAIN M[k] /\ N[k][n].value = M[k][n].value
    BY Zenon DEF SameValues
  <2>2. m \in DOMAIN M[k] /\ N[k][m].value = M[k][m].value
    BY Zenon DEF SameValues
  <2>3. QueuesOrdered(L, M)
    BY Zenon DEF Matches
  <2> QED
    BY <2>1, <2>2, <2>3, InOrder
<1> QED
  BY <1>1, <1>2, <1>3, <1>4, <1>5, Zenon DEF Matches

\* The positions of the nodes of key k.
KeyNodes(L, k) == {i \in DOMAIN L : L[i].key = k}

\* The nodes of a key are as many as its entries, the first entry has the last of them.
LEMMA NodesOfKey ==
  ASSUME NEW S, NEW T, NEW L, NEW M, Matches(S, T, L, M), NEW k \in DOMAIN M
  PROVE  /\ Len(Kept(L, KeyNodes(L, k))) = Len(M[k])
         /\ \A n \in DOMAIN M[k] :
              Kept(L, KeyNodes(L, k))[Len(M[k]) + 1 - n].value = M[k][n].value
<1>i. PICK I : I = KeyNodes(L, k)
  BY Zenon
<1>j. \A i : i \in I <=> i \in DOMAIN L /\ L[i].key = k
  BY <1>i, Zenon DEF KeyNodes
<1> DEFINE q == M[k]
           l == Len(q)
           at(n) == CHOOSE i \in DOMAIN L : L[i].key = k /\ L[i].value = q[n].value
           f == [n \in DOMAIN q |-> at(n)]
<1>1. /\ L \in Seq(S) /\ q \in Seq(T) /\ ValuesOnce(L) /\ NodesQueued(L, M)
      /\ EntriesListed(L, M) /\ QueuesOrdered(L, M)
  BY Zenon DEF Matches, MatchTypes
<1>2. l \in Nat /\ DOMAIN q = 1 .. l
  BY <1>1
<1>3. \A n \in DOMAIN q : at(n) \in DOMAIN L /\ L[at(n)].key = k /\ L[at(n)].value = q[n].value
  <2> SUFFICES ASSUME NEW n \in DOMAIN q
               PROVE  at(n) \in DOMAIN L /\ L[at(n)].key = k /\ L[at(n)].value = q[n].value
    BY Zenon
  <2>1. \E i \in DOMAIN L : L[i].key = k /\ L[i].value = q[n].value
    BY <1>1, Zenon DEF EntriesListed
  <2> QED
    BY <2>1, Zenon
<1> HIDE DEF at
<1>4. /\ f \in [DOMAIN q -> I]
      /\ \A n \in DOMAIN q : f[n] \in DOMAIN L /\ L[f[n]].key = k /\ L[f[n]].value = q[n].value
  BY <1>j, <1>3, Zenon
<1> HIDE DEF f
<1>5. ASSUME NEW n \in DOMAIN q, NEW m \in DOMAIN q, f[n] = f[m] PROVE n = m
  <2>1. q[n].value = q[m].value
    BY <1>4, <1>5, Zenon
  <2> QED
    BY <2>1, EntryOnce
<1>6. ASSUME NEW i \in I PROVE \E n \in DOMAIN q : f[n] = i
  <2>1. i \in DOMAIN L /\ L[i].key = k /\ Has(q, L[i].value)
    BY <1>j, <1>1, Zenon DEF NodesQueued
  <2>2. PICK n \in DOMAIN q : q[n].value = L[i].value
    BY <2>1, Zenon DEF Has
  <2>3. f[n] = i
    <3>1. f[n] \in DOMAIN L /\ L[f[n]].value = L[i].value
      BY <1>4, <2>2, Zenon
    <3> QED
      BY <1>1, <2>1, <3>1, Zenon DEF ValuesOnce
  <2> QED
    BY <2>3, Zenon
<1>7. ASSUME NEW n \in DOMAIN q, NEW m \in DOMAIN q, n < m PROVE f[m] < f[n]
  BY <1>1, <1>4, <1>7, Zenon DEF QueuesOrdered
<1>8. \A n \in DOMAIN q : f[n] \in I /\ f[n] \in Nat
  <2>1. \A i \in DOMAIN L : i \in Nat
    BY <1>1
  <2> QED
    BY <1>j, <1>4, <2>1, Zenon
<1>9. I \subseteq DOMAIN L
  BY <1>j, Zenon
<1>10. Cardinality(I) = l
  <2>1. OneToOne(f, DOMAIN q, I)
    <3>1. f \in [DOMAIN q -> I]
      BY <1>4, Zenon
    <3> QED
      BY <1>5, <1>6, <3>1, Zenon DEF OneToOne
  <2>2. IsFiniteSet(DOMAIN q) /\ Cardinality(DOMAIN q) = l
    BY <1>2, Interval, Zenon
  <2> HIDE DEF q, l
  <2> QED
    BY <2>1, <2>2, SameCardinality, Zenon
<1>11. Len(Kept(L, I)) = l
  BY <1>1, <1>9, <1>10, KeptPositions, Zenon
<1>12. ASSUME NEW n \in DOMAIN q PROVE Kept(L, I)[l + 1 - n].value = q[n].value
  <2> DEFINE J == {j \in I : j <= f[n]}
             g == [m \in n .. l |-> f[m]]
  <2>1. n \in Int /\ l \in Int /\ n <= l /\ \A m \in n .. l : m \in DOMAIN q /\ (m = n \/ n < m)
    BY <1>2
  <2>2. ASSUME NEW m \in n .. l PROVE f[m] \in J
    <3>1. m \in DOMAIN q /\ (m = n \/ n < m)
      BY <2>1, Zenon
    <3>2. f[m] \in I /\ f[m] \in Nat /\ f[n] \in Nat
      BY <1>8, <3>1, Zenon
    <3>3. f[m] = f[n] \/ f[m] < f[n]
      BY <1>7, <3>1, Zenon
    <3>4. f[m] <= f[n]
      BY <3>2, <3>3
    <3> QED
      BY <3>2, <3>4, Zenon
  <2>3. ASSUME NEW j \in J PROVE \E m \in n .. l : f[m] = j
    <3>1. j \in I /\ j <= f[n]
      BY Zenon
    <3>2. PICK m \in DOMAIN q : f[m] = j
      BY <1>6, <3>1, Zenon
    <3>3. ~ (m < n)
      <4> SUFFICES ASSUME m < n PROVE FALSE
        BY Zenon
      <4>1. f[n] < f[m] /\ f[m] <= f[n]
        BY <1>7, <3>1, <3>2, Zenon
      <4>2. f[n] \in Nat /\ f[m] \in Nat
        BY <1>8, Zenon
      <4> QED
        BY <4>1, <4>2
    <3>4. m \in n .. l
      BY <1>2, <3>3
    <3> QED
      BY <3>2, <3>4, Zenon
  <2> HIDE DEF J
  <2>4. OneToOne(g, n .. l, J)
    <3>1. g \in [n .. l -> J] /\ \A m \in n .. l : g[m] = f[m]
      BY <2>2, Zenon
    <3> HIDE DEF g
    <3>2. \A a, b \in n .. l : g[a] = g[b] => a = b
      BY <1>5, <2>1, <3>1, Zenon
    <3>3. \A j \in J : \E m \in n .. l : g[m] = j
      BY <2>3, <3>1, Zenon
    <3> QED
      BY <3>1, <3>2, <3>3, Zenon DEF OneToOne
  <2> HIDE DEF g
  <2>5. IsFiniteSet(n .. l) /\ Cardinality(n .. l) = IF n > l THEN 0 ELSE l - n + 1
    BY <2>1, FS_Interval, Zenon
  <2>6. Cardinality(J) = Cardinality(n .. l)
    BY <2>4, <2>5, SameCardinality, Zenon
  <2> HIDE DEF l
  <2>7. Cardinality(J) = l + 1 - n
    BY <2>1, <2>5, <2>6
  <2>8. Kept(L, I)[Cardinality(J)] = L[f[n]]
    <3>1. PICK i \in I : i = f[n]
      BY <1>8, Zenon
    <3>2. Kept(L, I)[Cardinality({j \in I : j <= i})] = L[i]
      BY <1>1, <1>9, KeptRank, Zenon
    <3> QED
      BY <3>1, <3>2, Zenon DEF J
  <2> QED
    BY <1>4, <2>7, <2>8, Zenon
<1> QED
  BY <1>i, <1>11, <1>12, Zenon
=============================================================================
