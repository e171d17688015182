-------------------------- MODULE LogArchiveProofs --------------------------
(* Theorems about LogArchive, for every set of connections and agents, every *)
(* page size and every value of the bounds.                                  *)
EXTENDS LogArchive, FiniteSetTheorems, SequenceTheorems, WellFoundedInduction, TLAPS

-----------------------------------------------------------------------------
(* Lemmas about the elements of a sequence at the positions in a set.        *)

\* The rank of a member of S counts the members up to it: ranks grow with the
\* members and number them from 1.
LEMMA Ranks ==
    ASSUME NEW n \in Nat, NEW S, S \subseteq 1..n
    PROVE  /\ IsFiniteSet(S) /\ Cardinality(S) \in Nat
           /\ \A i \in S : Rank(S, i) \in 1..Cardinality(S)
           /\ \A i, j \in S : i < j => Rank(S, i) < Rank(S, j)
           /\ \A k \in 1..Cardinality(S) : \E i \in S : Rank(S, i) = k
<1>1. IsFiniteSet(1..n)
  BY FS_Interval
<1>2. IsFiniteSet(S) /\ Cardinality(S) \in Nat
  BY <1>1, FS_Subset, FS_CardinalityType
<1>. DEFINE To(i) == {j \in S : j <= i}
<1>3. \A i : To(i) \in SUBSET S /\ IsFiniteSet(To(i)) /\ Cardinality(To(i)) \in Nat
  <2>. TAKE i
  <2>1. To(i) \in SUBSET S
    OBVIOUS
  <2>. QED  BY <2>1, <1>2, FS_Subset, FS_CardinalityType
<1>4. \A i \in S : Rank(S, i) \in 1..Cardinality(S)
  <2>. TAKE i \in S
  <2>1. i \in To(i)
    OBVIOUS
  <2>2. Cardinality(To(i)) # 0
    <3>. HIDE DEF To
    <3>. QED  BY <2>1, <1>3, FS_EmptySet
  <2>3. Cardinality(To(i)) <= Cardinality(S)
    <3>. HIDE DEF To
    <3>. QED  BY <1>2, <1>3, FS_Subset
  <2>. QED  BY <2>2, <2>3, <1>2, <1>3 DEF Rank
<1>5. \A i, j \in S : i < j => Rank(S, i) < Rank(S, j)
  <2>. SUFFICES ASSUME NEW i \in S, NEW j \in S, i < j
                PROVE  Cardinality(To(i)) < Cardinality(To(j))
    BY DEF Rank
  <2>1. To(i) \in SUBSET To(j) /\ To(i) # To(j)
    <3>1. \A m \in S : m \in Int /\ (m <= i => m <= j)
      OBVIOUS
    <3>2. j \in To(j) /\ j \notin To(i)
      OBVIOUS
    <3>3. To(i) \subseteq To(j)
      BY <3>1
    <3>. QED  BY <3>2, <3>3
  <2>. HIDE DEF To
  <2>2. Cardinality(To(i)) <= Cardinality(To(j)) /\ Cardinality(To(i)) # Cardinality(To(j))
    BY <2>1, <1>3, FS_Subset
  <2>. QED  BY <2>2, <1>3
<1>6. \A k \in 1..Cardinality(S) : \E i \in S : Rank(S, i) = k
  <2>. DEFINE r == [i \in S |-> Rank(S, i)]
              T == 1..Cardinality(S)
  <2>1. r \in [S -> T]
    BY <1>4
  <2>2. \A a, b \in S : r[a] = r[b] => a = b
    <3>. SUFFICES ASSUME NEW a \in S, NEW b \in S, a # b
                  PROVE  Rank(S, a) # Rank(S, b)
      OBVIOUS
    <3>1. a \in Int /\ b \in Int /\ Rank(S, a) \in Int /\ Rank(S, b) \in Int
      BY <1>4
    <3>2. a < b \/ b < a
      BY <3>1
    <3>. QED  BY <3>1, <3>2, <1>5
  <2>3. r \in Injection(S, T)
    BY <2>1, <2>2 DEF Injection, IsInjective
  <2>4. IsFiniteSet(T) /\ Cardinality(T) = Cardinality(S)
    BY <1>2, FS_Interval
  <2>5. r \in Surjection(S, T)
    <3>. HIDE DEF r, T
    <3>. QED  BY <2>3, <2>4, FS_Injection
  <2>. QED  BY <2>5 DEF Surjection
<1>. QED  BY <1>2, <1>4, <1>5, <1>6

\* Kth numbers the members of S in their order.
LEMMA KthOfRank ==
    ASSUME NEW n \in Nat, NEW S, S \subseteq 1..n
    PROVE  /\ \A k \in 1..Cardinality(S) : Kth(S, k) \in S /\ Rank(S, Kth(S, k)) = k
           /\ \A i \in S : Rank(S, i) \in 1..Cardinality(S) /\ Kth(S, Rank(S, i)) = i
           /\ \A k, l \in 1..Cardinality(S) : k < l => Kth(S, k) < Kth(S, l)
<1>1. \A k \in 1..Cardinality(S) : Kth(S, k) \in S /\ Rank(S, Kth(S, k)) = k
  BY Ranks DEF Kth
<1>2. \A i, j \in S : Rank(S, i) = Rank(S, j) => i = j
  <2>. SUFFICES ASSUME NEW i \in S, NEW j \in S, i # j
                PROVE  Rank(S, i) # Rank(S, j)
    OBVIOUS
  <2>1. i < j \/ j < i
    OBVIOUS
  <2>2. /\ i < j => Rank(S, i) < Rank(S, j)
        /\ j < i => Rank(S, j) < Rank(S, i)
        /\ Rank(S, i) \in 1..Cardinality(S) /\ Rank(S, j) \in 1..Cardinality(S)
    BY Ranks
  <2>. QED  BY <2>1, <2>2
<1>3. \A i \in S : Rank(S, i) \in 1..Cardinality(S) /\ Kth(S, Rank(S, i)) = i
  BY <1>1, <1>2, Ranks
<1>4. \A k, l \in 1..Cardinality(S) : k < l => Kth(S, k) < Kth(S, l)
  <2>. SUFFICES ASSUME NEW k \in 1..Cardinality(S), NEW l \in 1..Cardinality(S), k < l
                PROVE  Kth(S, k) < Kth(S, l)
    OBVIOUS
  <2>1. Kth(S, k) \in S /\ Kth(S, l) \in S /\ Rank(S, Kth(S, k)) = k /\ Rank(S, Kth(S, l)) = l
    BY <1>1
  <2>2. \A i, j \in S : i < j => Rank(S, i) < Rank(S, j)
    BY Ranks
  <2>3. Kth(S, l) < Kth(S, k) => l < k
    BY <2>1, <2>2
  <2>4. k # l /\ ~(l < k)
    BY Ranks
  <2>5. Kth(S, k) \in Int /\ Kth(S, l) \in Int
    <3>1. \A i \in S : i \in Int
      OBVIOUS
    <3>. QED  BY <3>1, <2>1
  <2>6. Kth(S, k) # Kth(S, l)
    BY <2>1, <2>4
  <2>. QED  BY <2>3, <2>4, <2>5, <2>6
<1>. QED  BY <1>1, <1>3, <1>4

\* Pick returns a sequence of as many elements as S has positions, all of them
\* and no others.
LEMMA PickIsSequence ==
    ASSUME NEW T, NEW s \in Seq(T), NEW S, S \subseteq DOMAIN s,
           NEW U, \A i \in S : s[i] \in U
    PROVE  /\ Pick(s, S) \in Seq(U)
           /\ Len(Pick(s, S)) = Cardinality(S) /\ Cardinality(S) \in Nat
           /\ DOMAIN Pick(s, S) = 1..Cardinality(S)
           /\ \A k \in 1..Cardinality(S) : Pick(s, S)[k] = s[Kth(S, k)] /\ Kth(S, k) \in S
           /\ Range(Pick(s, S)) = {s[i] : i \in S}
<1>1. Len(s) \in Nat /\ S \subseteq 1..Len(s)
  OBVIOUS
<1>2. Cardinality(S) \in Nat
  BY <1>1, Ranks
<1>3. \A k \in 1..Cardinality(S) : Kth(S, k) \in S
  BY <1>1, KthOfRank
<1>4. Pick(s, S) \in Seq(U) /\ Len(Pick(s, S)) = Cardinality(S)
  <2>1. \A k \in 1..Cardinality(S) : s[Kth(S, k)] \in U
    BY <1>3
  <2>. QED  BY <2>1, <1>2 DEF Pick
<1>5. \A k \in 1..Cardinality(S) : Pick(s, S)[k] = s[Kth(S, k)]
  BY DEF Pick
<1>6. DOMAIN Pick(s, S) = 1..Cardinality(S)
  BY DEF Pick
<1>7. Range(Pick(s, S)) = {s[i] : i \in S}
  <2>1. \A i \in S : Rank(S, i) \in 1..Cardinality(S) /\ Kth(S, Rank(S, i)) = i
    BY <1>1, KthOfRank
  <2>. QED  BY <2>1, <1>3, <1>5, <1>6 DEF Range
<1>. QED  BY <1>2, <1>3, <1>4, <1>5, <1>6, <1>7

\* A sequence without repetitions is picked without repetitions, even if it
\* repeats elements that are not picked.
LEMMA PickIsInjective ==
    ASSUME NEW T, NEW s \in Seq(T), NEW S, S \subseteq DOMAIN s,
           \A i, j \in S : s[i] = s[j] => i = j
    PROVE  IsInjective(Pick(s, S))
<1>1. Len(s) \in Nat /\ S \subseteq 1..Len(s) /\ \A i \in S : s[i] \in T
  OBVIOUS
<1>2. \A k, l \in 1..Cardinality(S) : Kth(S, k) = Kth(S, l) => k = l
  BY <1>1, KthOfRank
<1>3. /\ DOMAIN Pick(s, S) = 1..Cardinality(S)
      /\ \A k \in 1..Cardinality(S) : Pick(s, S)[k] = s[Kth(S, k)] /\ Kth(S, k) \in S
  BY <1>1, PickIsSequence
<1>. QED  BY <1>2, <1>3 DEF IsInjective

\* What is picked depends on the positions in S only.
LEMMA PickOfSame ==
    ASSUME NEW n \in Nat, NEW S, S \subseteq 1..n, NEW s, NEW t, \A i \in S : s[i] = t[i]
    PROVE  Pick(s, S) = Pick(t, S)
<1>1. \A k \in 1..Cardinality(S) : Kth(S, k) \in S
  BY KthOfRank
<1>. QED  BY <1>1 DEF Pick

\* One more position at the end: one more element at the end.
LEMMA PickOneMore ==
    ASSUME NEW T, NEW s \in Seq(T), NEW x \in T, NEW S, S \subseteq DOMAIN s
    PROVE  Pick(Append(s, x), S \cup {Len(s) + 1}) = Append(Pick(s, S), x)
<1>. DEFINE n == Len(s)
            S1 == S \cup {n + 1}
            s1 == Append(s, x)
<1>1. /\ n \in Nat /\ S \subseteq 1..n /\ S1 \subseteq 1..(n + 1) /\ n + 1 \notin S
      /\ s1 \in Seq(T) /\ Len(s1) = n + 1 /\ s1[n + 1] = x
      /\ \A i \in 1..n : s1[i] = s[i]
  OBVIOUS
<1>2. \A i \in S : {j \in S1 : j <= i} = {j \in S : j <= i}
  <2>. TAKE i \in S
  <2>1. i \in Int /\ i <= n /\ ~(n + 1 <= i)
    BY <1>1
  <2>. QED  BY <2>1
<1>3. \A i \in S : Rank(S1, i) = Rank(S, i)
  BY <1>2 DEF Rank
<1>4. IsFiniteSet(S) /\ Cardinality(S) \in Nat /\ Cardinality(S1) = Cardinality(S) + 1
  <2>1. IsFiniteSet(S) /\ Cardinality(S) \in Nat
    BY <1>1, Ranks
  <2>. QED  BY <2>1, <1>1, FS_AddElement
<1>5. Rank(S1, n + 1) = Cardinality(S) + 1
  <2>1. {j \in S1 : j <= n + 1} = S1
    BY <1>1
  <2>. QED  BY <2>1, <1>4 DEF Rank
<1>. HIDE DEF S1, s1
<1>6. n + 1 \in S1 /\ S \subseteq S1 /\ n + 1 \in Nat
  BY <1>1 DEF S1
<1>7. \A k \in 1..Cardinality(S) : Kth(S1, k) = Kth(S, k) /\ Kth(S, k) \in S
  <2>. TAKE k \in 1..Cardinality(S)
  <2>1. Kth(S, k) \in S /\ Rank(S, Kth(S, k)) = k
    BY <1>1, KthOfRank
  <2>2. Rank(S1, Kth(S, k)) = k
    BY <2>1, <1>3
  <2>3. Kth(S1, Rank(S1, Kth(S, k))) = Kth(S, k)
    BY <2>1, <1>1, <1>6, KthOfRank
  <2>. QED  BY <2>1, <2>2, <2>3
<1>8. Kth(S1, Cardinality(S) + 1) = n + 1
  <2>1. \A i \in S1 : Kth(S1, Rank(S1, i)) = i
    BY <1>1, <1>6, KthOfRank
  <2>. QED  BY <2>1, <1>5, <1>6
<1>9. /\ Pick(s, S) \in Seq(T) /\ Len(Pick(s, S)) = Cardinality(S)
      /\ \A k \in 1..Cardinality(S) : Pick(s, S)[k] = s[Kth(S, k)]
  <2>1. S \subseteq DOMAIN s /\ \A i \in S : s[i] \in T
    BY <1>1
  <2>. QED  BY <2>1, PickIsSequence
<1>10. /\ Pick(s1, S1) \in Seq(T) /\ Len(Pick(s1, S1)) = Cardinality(S) + 1
       /\ \A k \in 1..(Cardinality(S) + 1) : Pick(s1, S1)[k] = s1[Kth(S1, k)]
  <2>1. S1 \subseteq DOMAIN s1 /\ \A i \in S1 : s1[i] \in T
    BY <1>1
  <2>. QED  BY <2>1, <1>1, <1>4, PickIsSequence
<1>11. \A k \in 1..(Cardinality(S) + 1) : s1[Kth(S1, k)] = Append(Pick(s, S), x)[k]
  <2>. TAKE k \in 1..(Cardinality(S) + 1)
  <2>. DEFINE p == Pick(s, S)
  <2>. HIDE DEF p
  <2>1. /\ p \in Seq(T) /\ Len(p) = Cardinality(S)
        /\ \A l \in 1..Cardinality(S) : p[l] = s[Kth(S, l)]
    BY <1>9 DEF p
  <2>2. CASE k \in 1..Cardinality(S)
    <3>1. Kth(S1, k) = Kth(S, k) /\ Kth(S, k) \in 1..n
      BY <2>2, <1>7, <1>1
    <3>2. Append(p, x)[k] = p[k]
      BY <2>1, <2>2, <1>4
    <3>3. s1[Kth(S1, k)] = s[Kth(S, k)]
      BY <3>1, <1>1
    <3>. QED  BY <3>2, <3>3, <2>1, <2>2 DEF p
  <2>3. CASE k = Cardinality(S) + 1
    <3>1. Append(p, x)[k] = x
      BY <2>1, <2>3, <1>4
    <3>. QED  BY <3>1, <2>3, <1>8, <1>1 DEF p
  <2>4. k \in 1..Cardinality(S) \/ k = Cardinality(S) + 1
    BY <1>4
  <2>. QED  BY <2>2, <2>3, <2>4
<1>12. Append(Pick(s, S), x) \in Seq(T) /\ Len(Append(Pick(s, S), x)) = Cardinality(S) + 1
  BY <1>9
<1>13. Pick(s1, S1) = Append(Pick(s, S), x)
  <2>. DEFINE p == Pick(s1, S1)  q == Append(Pick(s, S), x)
  <2>. HIDE DEF p, q
  <2>1. p \in Seq(T) /\ q \in Seq(T) /\ Len(p) = Len(q)
    BY <1>10, <1>12 DEF p, q
  <2>2. \A k \in 1..Len(p) : p[k] = q[k]
    BY <1>10, <1>11 DEF p, q
  <2>3. p = q
    BY <2>1, <2>2, SeqEqual
  <2>. QED  BY <2>3 DEF p, q
<1>. QED  BY <1>13 DEF S1, s1

-----------------------------------------------------------------------------
(* Lemmas about the pages of a sequence.                                     *)

\* The smaller of two numbers.
LEMMA MinOfTwo ==
    ASSUME NEW a \in Int, NEW b \in Int
    PROVE  Min({a, b}) = IF a <= b THEN a ELSE b
<1>. DEFINE m == IF a <= b THEN a ELSE b
<1>1. m \in {a, b} /\ \A y \in {a, b} : m <= y
  OBVIOUS
<1>2. \A x \in {a, b} : (\A y \in {a, b} : x <= y) => x = m
  OBVIOUS
<1>. HIDE DEF m
<1>3. Min({a, b}) = m
  BY <1>1, <1>2 DEF Min
<1>. QED  BY <1>3 DEF m

\* A nonempty set of positive naturals below a bound has a least element n: the
\* interval 1..n is minimal for inclusion among the intervals of the set.
LEMMA LeastBelow ==
    ASSUME NEW K \in Nat, NEW S, S \subseteq 1..K, S # {}
    PROVE  \E n \in S : \A m \in S : n <= m
<1>. DEFINE Intervals == {1..n : n \in S}
<1>1. Intervals \subseteq FiniteSubsetsOf(1..K) /\ Intervals # {}
  <2>1. \A n \in S : 1..n \subseteq 1..K /\ IsFiniteSet(1..n)
    BY FS_Interval
  <2>. QED  BY <2>1 DEF FiniteSubsetsOf
<1>2. PICK x \in Intervals :
         \A y \in Intervals : <<y, x>> \notin StrictSubsetOrdering(1..K)
  <2>. HIDE DEF Intervals
  <2>. QED  BY <1>1, WFMin, FS_StrictSubsetOrderingWellFounded
<1>3. PICK n \in S : x = 1..n
  OBVIOUS
<1>4. ASSUME NEW m \in S, m < n  PROVE FALSE
  <2>1. 1..m \subseteq 1..n /\ n \in 1..n /\ n \notin 1..m
    BY <1>4
  <2>2. 1..m \in SUBSET (1..K) /\ 1..n \in SUBSET (1..K)
    OBVIOUS
  <2>3. <<1..m, 1..n>> \in StrictSubsetOrdering(1..K)
    BY <2>1, <2>2 DEF StrictSubsetOrdering
  <2>. QED  BY <1>2, <1>3, <2>3
<1>. QED  BY <1>4

\* The first n elements, or all of them if there are fewer.
First(s, n) == SubSeq(s, 1, IF n <= Len(s) THEN n ELSE Len(s))

\* The pages before a page and the page itself are the pages before the next.
LEMMA PageAfterPage ==
    ASSUME NEW T, NEW s \in Seq(T), NEW page \in Nat \ {0}, NEW pageSize \in Nat \ {0}
    PROVE  /\ (page - 1) * pageSize \in Nat /\ page * pageSize \in Nat
           /\ page * pageSize = (page - 1) * pageSize + pageSize
           /\ Slice(s, page, pageSize) \in Seq(T)
           /\ First(s, (page - 1) * pageSize) \o Slice(s, page, pageSize)
                = First(s, page * pageSize)
<1>. DEFINE start == (page - 1) * pageSize
            next == page * pageSize
            end == IF next <= Len(s) THEN next ELSE Len(s)
<1>1. start \in Nat /\ next \in Nat /\ next = start + pageSize /\ Len(s) \in Nat
  <2>1. page - 1 \in Nat /\ pageSize \in Nat /\ page \in Nat
    OBVIOUS
  <2>2. start \in Nat /\ next \in Nat
    BY <2>1
  <2>. QED  BY <2>1, <2>2
<1>2. Slice(s, page, pageSize) = IF start > Len(s) THEN <<>> ELSE SubSeq(s, start + 1, end)
  <2>1. Min({start + pageSize, Len(s)}) = end
    BY <1>1, MinOfTwo
  <2>2. ~(start < 0) /\ (~(start > Len(s)) => ~(end < start))
    BY <1>1
  <2>. QED  BY <2>1, <2>2 DEF Slice
<1>. HIDE DEF start, next
<1>3. CASE start > Len(s)
  <2>1. Slice(s, page, pageSize) = <<>> /\ First(s, start) = s /\ First(s, next) = s
    BY <1>1, <1>2, <1>3 DEF First
  <2>. QED  BY <2>1, <1>1 DEF start, next
<1>4. CASE ~(start > Len(s))
  <2>1. end \in start..Len(s)
    BY <1>1, <1>4
  <2>. HIDE DEF end
  <2>2. /\ Slice(s, page, pageSize) = SubSeq(s, start + 1, end)
        /\ First(s, start) = SubSeq(s, 1, start)
        /\ First(s, next) = SubSeq(s, 1, end)
    BY <1>1, <1>2, <1>4 DEF First, end
  <2>3. SubSeq(s, start + 1, end) \in Seq(T)
    BY <1>1, <2>1
  <2>4. SubSeq(s, 1, start) \o SubSeq(s, start + 1, end) = SubSeq(s, 1, end)
    BY <1>1, <2>1
  <2>. QED  BY <2>2, <2>3, <2>4, <1>1 DEF start, next
<1>. QED  BY <1>3, <1>4

\* Putting sequences together is decided by its first value and its steps.
LEMMA FlattenSteps ==
    ASSUME NEW T, NEW n \in Nat \ {0}, NEW seqs \in Seq(Seq(T)), NEW g,
           Len(seqs) = n, g = [i \in 1..n |-> g[i]], g[1] = seqs[1],
           \A i \in 2..n : g[i] = g[i - 1] \o seqs[i]
    PROVE  FlattenSeq(seqs) = g[n]
<1>. DEFINE F(f) == [i \in 1..n |-> IF i = 1 THEN seqs[i] ELSE f[i - 1] \o seqs[i]]
            h == CHOOSE f : f = F(f)
<1>1. FlattenSeq(seqs) = h[n]
  BY DEF FlattenSeq
<1>2. g = F(g)
  <2>1. \A i \in 1..n : i = 1 \/ i \in 2..n
    OBVIOUS
  <2>2. \A i \in 1..n : g[i] = IF i = 1 THEN seqs[i] ELSE g[i - 1] \o seqs[i]
    BY ONLY <2>1, g[1] = seqs[1], \A i \in 2..n : g[i] = g[i - 1] \o seqs[i]
  <2>. QED  BY ONLY <2>2, g = [i \in 1..n |-> g[i]]
<1>3. h = F(h)
  <2>. HIDE DEF F
  <2>. QED  BY <1>2
<1>. HIDE DEF h
<1>4. /\ h[1] = seqs[1]
      /\ \A i \in 2..n : h[i] = h[i - 1] \o seqs[i]
  <2>1. \A i \in 1..n : h[i] = IF i = 1 THEN seqs[i] ELSE h[i - 1] \o seqs[i]
    BY <1>3, Zenon
  <2>2. 1 \in 1..n /\ \A i \in 2..n : i \in 1..n /\ i # 1
    OBVIOUS
  <2>. QED  BY <2>1, <2>2, Zenon
<1>. DEFINE Bad == {i \in 1..n : h[i] # g[i]}
<1>5. Bad = {}
  <2>. SUFFICES ASSUME Bad # {}  PROVE FALSE
    OBVIOUS
  <2>1. PICK k \in Bad : \A m \in Bad : k <= m
    <3>1. Bad \subseteq 1..n /\ n \in Nat
      OBVIOUS
    <3>. HIDE DEF Bad
    <3>. QED  BY <3>1, LeastBelow
  <2>2. k # 1 /\ k \in 2..n /\ k - 1 \in 1..n /\ k - 1 \notin Bad
    BY <2>1, <1>4
  <2>. QED  BY <2>1, <2>2, <1>4
<1>6. n \in 1..n
  OBVIOUS
<1>. QED  BY <1>1, <1>5, <1>6, Zenon

\* The pages of a sequence, put together, are the sequence.
LEMMA PagesOf ==
    ASSUME NEW T, NEW s \in Seq(T), NEW pageSize \in Nat \ {0}
    PROVE  FlattenSeq([p \in 1..(Len(s) + 1) |-> Slice(s, p, pageSize)]) = s
<1>. DEFINE n == Len(s) + 1
            pages == [p \in 1..n |-> Slice(s, p, pageSize)]
            g == [p \in 1..n |-> First(s, p * pageSize)]
<1>1. n \in Nat \ {0} /\ Len(s) \in Nat
  OBVIOUS
<1>2. pages \in Seq(Seq(T)) /\ Len(pages) = n
  BY <1>1, PageAfterPage
<1>3. g[1] = pages[1]
  <2>1. First(s, 0) \o Slice(s, 1, pageSize) = First(s, 1 * pageSize)
    <3>1. 1 \in Nat \ {0} /\ (1 - 1) * pageSize = 0
      OBVIOUS
    <3>. QED  BY <3>1, PageAfterPage
  <2>2. First(s, 0) = <<>>
    BY <1>1 DEF First
  <2>3. Slice(s, 1, pageSize) \in Seq(T)
    BY PageAfterPage
  <2>4. <<>> \o Slice(s, 1, pageSize) = Slice(s, 1, pageSize)
    BY <2>3, ConcatEmptySeq
  <2>5. 1 \in 1..n
    BY <1>1
  <2>6. g[1] = First(s, 1 * pageSize) /\ pages[1] = Slice(s, 1, pageSize)
    BY <2>5, Zenon
  <2>. QED  BY <2>1, <2>2, <2>4, <2>6, Zenon
<1>4. \A i \in 2..n : g[i] = g[i - 1] \o pages[i]
  <2>. TAKE i \in 2..n
  <2>1. i \in Nat \ {0} /\ i \in 1..n /\ i - 1 \in 1..n
    BY <1>1
  <2>2. First(s, (i - 1) * pageSize) \o Slice(s, i, pageSize) = First(s, i * pageSize)
    BY <2>1, PageAfterPage
  <2>. QED  BY <2>1, <2>2
<1>5. g[n] = s
  <2>1. n * pageSize \in Nat /\ n * pageSize >= n
    BY <1>1
  <2>2. First(s, n * pageSize) = s
    BY <1>1, <2>1 DEF First
  <2>. QED  BY <1>1, <2>2
<1>6. g = [i \in 1..n |-> g[i]]
  OBVIOUS
<1>. HIDE DEF g, pages, n
<1>7. FlattenSeq(pages) = g[n]
  BY <1>1, <1>2, <1>3, <1>4, <1>6, FlattenSteps, ZenonT(30)
<1>. QED  BY <1>5, <1>7 DEF pages, n

\* A sequence turned round.
LEMMA ReverseIsSequence ==
    ASSUME NEW T, NEW s \in Seq(T)
    PROVE  /\ Reverse(s) \in Seq(T) /\ Len(Reverse(s)) = Len(s)
           /\ \A i \in 1..Len(s) : Reverse(s)[i] = s[Len(s) - i + 1]
BY DEF Reverse

-----------------------------------------------------------------------------
(* Lemmas about the entries of a file.                                       *)

\* A part of an entry is not an entry, and neither is a line end.
LEMMA UnitsDiffer ==
    /\ \A e : [torn |-> e] \notin Entry
    /\ Entry \cap [torn : Entry] = {}
    /\ EOL \notin Entry /\ NULL \notin Entry
    /\ \A e \in Entry : [torn |-> e] \in [torn : Entry] /\ EOL # [torn |-> e]
<1>1. \A e, f : [torn |-> e] # [id |-> f.id, agent_id |-> f.agent_id]
  <2>. SUFFICES ASSUME NEW e, NEW f, [torn |-> e] = [id |-> f.id, agent_id |-> f.agent_id]
                PROVE  FALSE
    OBVIOUS
  <2>1. DOMAIN [torn |-> e] = {"torn"} /\ DOMAIN [id |-> f.id, agent_id |-> f.agent_id] = {"id", "agent_id"}
    OBVIOUS
  <2>. QED  BY <2>1
<1>2. \A f \in Entry : f = [id |-> f.id, agent_id |-> f.agent_id]
  BY DEF Entry
<1>3. \A e : [torn |-> e] \notin Entry
  BY <1>1, <1>2
<1>4. \A u \in [torn : Entry] : u = [torn |-> u.torn]
  OBVIOUS
<1>. QED  BY <1>3, <1>4, UnitAssumption

\* EntriesIn keeps the entries of a file, in their order.
LEMMA EntriesAreEntries ==
    ASSUME NEW units \in Seq(Unit)
    PROVE  /\ EntriesIn(units) \in Seq(Entry)
           /\ Range(EntriesIn(units)) = Range(units) \cap Entry
<1>. DEFINE S == {i \in DOMAIN units : units[i] \in Entry}
<1>1. S \subseteq DOMAIN units /\ \A i \in S : units[i] \in Entry
  OBVIOUS
<1>2. {units[i] : i \in S} = Range(units) \cap Entry
  BY DEF Range
<1>. HIDE DEF S
<1>3. Pick(units, S) \in Seq(Entry) /\ Range(Pick(units, S)) = {units[i] : i \in S}
  BY <1>1, PickIsSequence
<1>. QED  BY <1>2, <1>3 DEF EntriesIn, S

\* A unit written to the end of a file is decoded last, if it is an entry.
LEMMA EntriesOfWritten ==
    ASSUME NEW units \in Seq(Unit), NEW u \in Unit
    PROVE  /\ units \o <<u>> \in Seq(Unit) /\ Range(units \o <<u>>) = Range(units) \cup {u}
           /\ u \in Entry => EntriesIn(units \o <<u>>) = Append(EntriesIn(units), u)
           /\ u \notin Entry => EntriesIn(units \o <<u>>) = EntriesIn(units)
<1>. DEFINE S == {i \in DOMAIN units : units[i] \in Entry}
            longer == Append(units, u)
            S1 == {i \in DOMAIN longer : longer[i] \in Entry}
            n == Len(units)
<1>1. units \o <<u>> = longer
  OBVIOUS
<1>2. /\ longer \in Seq(Unit) /\ n \in Nat /\ DOMAIN longer = 1..(n + 1) /\ DOMAIN units = 1..n
      /\ longer[n + 1] = u /\ \A i \in 1..n : longer[i] = units[i]
  OBVIOUS
<1>3. Range(longer) = Range(units) \cup {u}
  <2>1. 1..(n + 1) = 1..n \cup {n + 1}
    BY <1>2
  <2>. HIDE DEF longer, n
  <2>. QED  BY <1>2, <2>1 DEF Range
<1>4. u \in Entry => S1 = S \cup {n + 1}
  <2>. HIDE DEF longer, n
  <2>. QED  BY <1>2
<1>5. u \notin Entry => S1 = S
  <2>. HIDE DEF longer, n
  <2>. QED  BY <1>2
<1>6. S \subseteq 1..n /\ S \subseteq DOMAIN units
  BY <1>2
<1>7. \A i \in S : longer[i] = units[i]
  <2>. HIDE DEF longer, n
  <2>. QED  BY <1>2
<1>8. EntriesIn(units) = Pick(units, S) /\ EntriesIn(longer) = Pick(longer, S1)
  BY DEF EntriesIn
<1>. HIDE DEF S, S1
<1>9. Pick(longer, S \cup {n + 1}) = Append(Pick(units, S), u)
  BY <1>6, PickOneMore
<1>10. Pick(longer, S) = Pick(units, S)
  <2>. HIDE DEF longer, n
  <2>. QED  BY <1>2, <1>6, <1>7, PickOfSame
<1>. QED  BY <1>1, <1>2, <1>3, <1>4, <1>5, <1>8, <1>9, <1>10

\* The logs of one agent are logs.
LEMMA OfAgentAreLogs ==
    ASSUME NEW logs \in Seq(Entry), NEW a
    PROVE  /\ OfAgent(logs, a) \in Seq(Entry)
           /\ Range(OfAgent(logs, a)) \subseteq Range(logs)
           /\ IsInjective(logs) => IsInjective(OfAgent(logs, a))
<1>. DEFINE S == {i \in DOMAIN logs : logs[i].agent_id = a}
<1>1. S \subseteq DOMAIN logs /\ \A i \in S : logs[i] \in Entry
  OBVIOUS
<1>2. {logs[i] : i \in S} \subseteq Range(logs)
  BY DEF Range
<1>3. IsInjective(logs) => \A i, j \in S : logs[i] = logs[j] => i = j
  BY DEF IsInjective
<1>. HIDE DEF S
<1>4. Pick(logs, S) \in Seq(Entry) /\ Range(Pick(logs, S)) = {logs[i] : i \in S}
  BY <1>1, PickIsSequence
<1>5. IsInjective(logs) => IsInjective(Pick(logs, S))
  BY <1>1, <1>3, PickIsInjective
<1>. QED  BY <1>2, <1>4, <1>5 DEF OfAgent, S

\* One more log is the last one of its agent, and none of another's.
LEMMA OfAgentOneMore ==
    ASSUME NEW logs \in Seq(Entry), NEW e \in Entry, NEW a
    PROVE  OfAgent(Append(logs, e), a) \in {OfAgent(logs, a), Append(OfAgent(logs, a), e)}
<1>. DEFINE S == {i \in DOMAIN logs : logs[i].agent_id = a}
            longer == Append(logs, e)
            S1 == {i \in DOMAIN longer : longer[i].agent_id = a}
            n == Len(logs)
<1>1. /\ longer \in Seq(Entry) /\ n \in Nat /\ DOMAIN longer = 1..(n + 1) /\ DOMAIN logs = 1..n
      /\ longer[n + 1] = e /\ \A i \in 1..n : longer[i] = logs[i]
  OBVIOUS
<1>2. e.agent_id = a => S1 = S \cup {n + 1}
  <2>. HIDE DEF longer, n
  <2>. QED  BY <1>1
<1>3. e.agent_id # a => S1 = S
  <2>. HIDE DEF longer, n
  <2>. QED  BY <1>1
<1>4. S \subseteq 1..n /\ S \subseteq DOMAIN logs
  BY <1>1
<1>5. \A i \in S : longer[i] = logs[i]
  <2>. HIDE DEF longer, n
  <2>. QED  BY <1>1
<1>6. OfAgent(logs, a) = Pick(logs, S) /\ OfAgent(longer, a) = Pick(longer, S1)
  BY DEF OfAgent
<1>. HIDE DEF S, S1
<1>7. Pick(longer, S \cup {n + 1}) = Append(Pick(logs, S), e)
  BY <1>4, PickOneMore
<1>8. Pick(longer, S) = Pick(logs, S)
  <2>. HIDE DEF longer, n
  <2>. QED  BY <1>1, <1>4, <1>5, PickOfSame
<1>. QED  BY <1>2, <1>3, <1>6, <1>7, <1>8

\* The answer without paging, for either filter.
LEMMA SelectedAreLogs ==
    ASSUME NEW logs \in Seq(Entry), NEW filter
    PROVE  /\ Selected(logs, filter) \in Seq(Entry)
           /\ Range(Selected(logs, filter)) \subseteq Range(logs)
           /\ IsInjective(logs) => IsInjective(Selected(logs, filter))
BY OfAgentAreLogs DEF Selected, GetAllLogs, GetLogsByAgentID

\* One more log is the last one of the answer, if the filter lets it pass.
LEMMA SelectedOneMore ==
    ASSUME NEW logs \in Seq(Entry), NEW e \in Entry, NEW filter
    PROVE  Selected(Append(logs, e), filter)
             \in {Selected(logs, filter), Append(Selected(logs, filter), e)}
BY OfAgentOneMore DEF Selected, GetAllLogs, GetLogsByAgentID

\* For any logs and any size of page the pages 1, 2, ... of GetLogsPaged and
\* GetLogsPagedByAgentID, put together, are the unpaged answer, in the order of
\* the file for one agent and in the opposite order for all.
THEOREM PagesMakeTheSelected ==
    ASSUME NEW logs \in Seq(Entry), NEW filter, NEW pageSize \in Nat \ {0}
    PROVE  FlattenSeq([p \in 1..(Len(Selected(logs, filter)) + 1)
                         |-> PageOf(logs, filter, p, pageSize)])
             = IF filter = NULL THEN Reverse(Selected(logs, filter)) ELSE Selected(logs, filter)
<1>1. CASE filter = NULL
  <2>1. Selected(logs, filter) = logs
    BY <1>1 DEF Selected, GetAllLogs
  <2>2. Reverse(logs) \in Seq(Entry) /\ Len(Reverse(logs)) = Len(logs)
    BY ReverseIsSequence
  <2>3. \A p : PageOf(logs, filter, p, pageSize) = Slice(Reverse(logs), p, pageSize)
    BY <1>1 DEF PageOf, GetLogsPaged
  <2>4. FlattenSeq([p \in 1..(Len(Reverse(logs)) + 1) |-> Slice(Reverse(logs), p, pageSize)])
          = Reverse(logs)
    BY <2>2, PagesOf
  <2>. QED  BY <1>1, <2>1, <2>2, <2>3, <2>4
<1>2. CASE filter # NULL
  <2>. DEFINE whole == OfAgent(logs, filter)
  <2>1. Selected(logs, filter) = whole
    BY <1>2 DEF Selected, GetLogsByAgentID
  <2>2. whole \in Seq(Entry)
    BY OfAgentAreLogs
  <2>3. \A p : PageOf(logs, filter, p, pageSize) = Slice(whole, p, pageSize)
    BY <1>2 DEF PageOf, GetLogsPagedByAgentID
  <2>. HIDE DEF whole
  <2>4. FlattenSeq([p \in 1..(Len(whole) + 1) |-> Slice(whole, p, pageSize)]) = whole
    BY <2>2, PagesOf
  <2>. QED  BY <1>2, <2>1, <2>2, <2>3, <2>4
<1>. QED  BY <1>1, <1>2

-----------------------------------------------------------------------------
(* Lemmas about the files: the three ways in which they change.              *)

\* What is in some file.
Units(fs) == UNION {Range(fs[f]) : f \in DOMAIN fs}

\* An entry is in one place of one file.
Once(fs) ==
    \A f, g \in DOMAIN fs : \A i \in DOMAIN fs[f], j \in DOMAIN fs[g] :
        fs[f][i] \in Entry /\ fs[f][i] = fs[g][j] => f = g /\ i = j

\* A unit is written to the end of a file.
LEMMA UnitWritten ==
    ASSUME NEW fs \in Seq(Seq(Unit)), NEW f \in DOMAIN fs, NEW u \in Unit
    PROVE  LET fs2 == [fs EXCEPT ![f] = @ \o <<u>>]
           IN  /\ fs2 \in Seq(Seq(Unit)) /\ Len(fs2) = Len(fs) /\ DOMAIN fs2 = DOMAIN fs
               /\ fs2[f] = fs[f] \o <<u>>
               /\ Units(fs2) = Units(fs) \cup {u}
               /\ Once(fs) /\ (u \in Entry => u \notin Units(fs)) => Once(fs2)
<1>. DEFINE fs2 == [fs EXCEPT ![f] = @ \o <<u>>]
<1>1. fs[f] \in Seq(Unit)
  OBVIOUS
<1>2. fs[f] \o <<u>> \in Seq(Unit) /\ Range(fs[f] \o <<u>>) = Range(fs[f]) \cup {u}
  BY <1>1, EntriesOfWritten
<1>3. /\ fs2 \in Seq(Seq(Unit)) /\ Len(fs2) = Len(fs) /\ DOMAIN fs2 = DOMAIN fs
      /\ fs2[f] = fs[f] \o <<u>>
      /\ \A g \in DOMAIN fs : g # f => fs2[g] = fs[g]
  BY <1>2
<1>. HIDE DEF fs2
<1>4. Units(fs2) = Units(fs) \cup {u}
  BY <1>2, <1>3 DEF Units
<1>5. ASSUME Once(fs), u \in Entry => u \notin Units(fs)  PROVE Once(fs2)
  <2>. DEFINE n == Len(fs[f]) + 1
  <2>1. /\ n \in Nat /\ DOMAIN fs[f] = 1..(n - 1) /\ DOMAIN fs2[f] = 1..n /\ fs2[f][n] = u
        /\ \A i \in 1..n : i = n \/ i \in DOMAIN fs[f]
        /\ \A i \in DOMAIN fs[f] : fs2[f][i] = fs[f][i]
    BY <1>1, <1>3
  <2>. HIDE DEF n
  <2>2. \A g \in DOMAIN fs : \A i \in DOMAIN fs[g] : fs[g][i] \in Units(fs)
    BY DEF Units, Range
  <2>3. \A g \in DOMAIN fs : \A i \in DOMAIN fs2[g] :
           (g = f /\ i = n /\ fs2[g][i] = u) \/ (i \in DOMAIN fs[g] /\ fs2[g][i] = fs[g][i])
    BY <2>1, <1>3
  <2>. SUFFICES ASSUME NEW g \in DOMAIN fs, NEW h \in DOMAIN fs,
                       NEW i \in DOMAIN fs2[g], NEW j \in DOMAIN fs2[h],
                       fs2[g][i] \in Entry, fs2[g][i] = fs2[h][j]
                PROVE  g = h /\ i = j
    BY <1>3 DEF Once
  <2>4. CASE g = f /\ i = n /\ fs2[g][i] = u
    <3>1. u \notin Units(fs) /\ fs2[h][j] = u
      BY <1>5, <2>4
    <3>. QED  BY <3>1, <2>2, <2>3, <2>4
  <2>5. CASE i \in DOMAIN fs[g] /\ fs2[g][i] = fs[g][i]
    <3>1. fs[g][i] \in Units(fs) /\ fs[g][i] \in Entry /\ fs[g][i] = fs2[h][j]
      BY <2>2, <2>5
    <3>2. fs2[h][j] # u
      BY <1>5, <3>1, Zenon
    <3>3. j \in DOMAIN fs[h] /\ fs2[h][j] = fs[h][j]
      BY <2>3, <3>2
    <3>4. Once(fs) /\ i \in DOMAIN fs[g] /\ fs[g][i] = fs[h][j]
      BY <1>5, <2>5, <3>1, <3>3
    <3>. QED  BY <3>1, <3>3, <3>4, Zenon DEF Once
  <2>. QED  BY <2>3, <2>4, <2>5
<1>. QED  BY <1>3, <1>4, <1>5 DEF fs2

\* An empty file is added.
LEMMA FileAdded ==
    ASSUME NEW fs \in Seq(Seq(Unit))
    PROVE  /\ Append(fs, <<>>) \in Seq(Seq(Unit)) /\ Len(Append(fs, <<>>)) = Len(fs) + 1
           /\ DOMAIN Append(fs, <<>>) = DOMAIN fs \cup {Len(fs) + 1}
           /\ Units(Append(fs, <<>>)) = Units(fs)
           /\ Once(fs) => Once(Append(fs, <<>>))
<1>. DEFINE fs2 == Append(fs, <<>>)  n == Len(fs) + 1
<1>1. <<>> \in Seq(Unit) /\ Range(<<>>) = {} /\ DOMAIN <<>> = {}
  BY DEF Range
<1>2. /\ fs2 \in Seq(Seq(Unit)) /\ Len(fs2) = n /\ n \notin DOMAIN fs
      /\ DOMAIN fs2 = DOMAIN fs \cup {n} /\ fs2[n] = <<>>
      /\ \A g \in DOMAIN fs : fs2[g] = fs[g]
  BY <1>1
<1>. HIDE DEF fs2, n
<1>3. Units(fs2) = Units(fs)
  BY <1>1, <1>2 DEF Units
<1>4. ASSUME Once(fs)  PROVE Once(fs2)
  <2>1. \A g \in DOMAIN fs2 : \A i \in DOMAIN fs2[g] : g \in DOMAIN fs /\ fs2[g] = fs[g]
    BY <1>1, <1>2
  <2>. QED  BY <2>1, <1>4 DEF Once
<1>. QED  BY <1>2, <1>3, <1>4 DEF fs2, n

\* A file is truncated.
LEMMA FileTruncated ==
    ASSUME NEW fs \in Seq(Seq(Unit)), NEW f \in DOMAIN fs
    PROVE  LET fs2 == [fs EXCEPT ![f] = <<>>]
           IN  /\ fs2 \in Seq(Seq(Unit)) /\ Len(fs2) = Len(fs) /\ DOMAIN fs2 = DOMAIN fs
               /\ Units(fs) = Units(fs2) \cup Range(fs[f])
               /\ Once(fs) => Once(fs2)
<1>. DEFINE fs2 == [fs EXCEPT ![f] = <<>>]
<1>1. <<>> \in Seq(Unit) /\ Range(<<>>) = {} /\ DOMAIN <<>> = {}
  BY DEF Range
<1>2. /\ fs2 \in Seq(Seq(Unit)) /\ Len(fs2) = Len(fs) /\ DOMAIN fs2 = DOMAIN fs
      /\ fs2[f] = <<>>
      /\ \A g \in DOMAIN fs : g # f => fs2[g] = fs[g]
  BY <1>1
<1>. HIDE DEF fs2
<1>3. Units(fs) = Units(fs2) \cup Range(fs[f])
  BY <1>1, <1>2 DEF Units
<1>4. Once(fs) => Once(fs2)
  BY <1>1, <1>2 DEF Once
<1>. QED  BY <1>2, <1>3, <1>4 DEF fs2

-----------------------------------------------------------------------------
(* The inductive invariant.                                                  *)

\* The types of everything but the reader.
Typed ==
    /\ files \in Seq(Seq(Unit)) /\ Len(files) <= 1 + MaxRotations
    /\ main \in DOMAIN files \cup {NULL}
    /\ old \in DOMAIN files \cup {NULL} /\ (old # NULL => old # main)
    /\ pc \in [Conns -> {"idle", "open", "entry", "newline", "answer"}]
    /\ entry \in [Conns -> Entry \cup {NULL}]
    /\ fd \in [Conns -> DOMAIN files \cup {NULL}]
    /\ \A c \in Conns : pc[c] \in {"entry", "newline"} => fd[c] # NULL
    /\ rotating \in {"no", "rename", "create"}
    /\ received \in 0..MaxEntries
    /\ acked \subseteq Entry /\ removed \subseteq DOMAIN files /\ truncated \subseteq Entry
    /\ faults \in 0..MaxFaults
    /\ rotations \in 0..MaxRotations /\ restarts \in 0..MaxRestarts

\* Bound on the files: each rotation takes away the name of at most one.
FilesCounted ==
    LET known == Len(files) + (IF main = NULL THEN 1 ELSE 0)
    IN  /\ known <= 1 + rotations
        /\ rotating = "rename" => known <= rotations

\* Every file is the archive, its .old file or one that RotateLog removed.
FilesNamed ==
    /\ \A f \in DOMAIN files : f = main \/ f = old \/ f \in removed
    /\ rotating = "rename" => old = NULL

\* Before the first call of RotateLog there is at most one file, the archive.
OneFile ==
    rotations = 0 =>
        /\ (files = <<>> /\ main = NULL) \/ (Len(files) = 1 /\ main = 1)
        /\ old = NULL /\ removed = {} /\ truncated = {} /\ rotating = "no"

\* Entries are numbered as they are received; no two handlers have the same one.
EntriesNumbered ==
    /\ \A u \in Units(files) : u \in Entry => u.id <= received
    /\ \A c \in Conns : entry[c] # NULL => entry[c].id <= received
    /\ \A c, d \in Conns :
         c # d /\ entry[c] # NULL /\ entry[d] # NULL => entry[c] # entry[d]

\* A handler has an entry until it has answered, in no file until it has
\* written it.
HandlersHold ==
    \A c \in Conns :
        /\ pc[c] = "idle" <=> entry[c] = NULL
        /\ pc[c] \in {"open", "entry"} => entry[c] \notin Units(files)

\* An entry is in one place of one file.
StoredOnce == Once(files)

Everything == truncated \cup Units(files)

\* Without failed writes, what was written is whole and is not lost.
WrittenIsKept ==
    faults = 0 =>
        /\ Units(files) \cap [torn : Entry] = {}
        /\ \A c \in Conns : pc[c] \in {"newline", "answer"} => entry[c] \in Everything
        /\ acked \subseteq Everything

\* What a reader has seen of the logs he selected: of all logs, newest first,
\* every one that was there when he began and is newer than the next page; of
\* one agent's, oldest first, all up to the next page, in their order.
Start(r) == (r.page - 1) * PageSize

HasSeen(sel, r) ==
    /\ r.page \in Nat \ {0}
    /\ \E n \in 0..Len(sel) :
         /\ r.goal = {sel[i] : i \in 1..n}
         /\ r.filter = NULL =>
              \A i \in 1..n :
                i > Len(sel) - Start(r) => sel[i] \in Range(r.shown)
    /\ r.filter # NULL =>
         \E m \in 0..Len(sel) :
            r.shown = SubSeq(sel, 1, m) /\ (~r.last => m = Start(r))
    /\ r.last => r.goal \subseteq Range(r.shown)

Readers == [turning : {TRUE}, filter : Filter, page : Nat,
            shown : Seq(Entry), goal : SUBSET Entry, last : BOOLEAN]

ReaderSees ==
    /\ reader = Idle \/ reader \in Readers
    /\ reader.turning =>
         /\ reader.page # 0
         /\ rotations = 0 =>
              /\ main # NULL
              /\ HasSeen(Selected(EntriesIn(files[main]), reader.filter), reader)

Inv ==
    /\ Typed
    /\ FilesCounted /\ FilesNamed /\ OneFile
    /\ EntriesNumbered /\ HandlersHold /\ StoredOnce /\ WrittenIsKept
    /\ ReaderSees

-----------------------------------------------------------------------------
(* Lemmas about the reader.                                                  *)

USE ArchiveAssumption

\* A part of a sequence.
LEMMA PartOfSequence ==
    ASSUME NEW T, NEW s \in Seq(T), NEW a \in Nat, NEW b \in a..Len(s)
    PROVE  /\ DOMAIN SubSeq(s, a + 1, b) = 1..(b - a)
           /\ \A k \in 1..(b - a) : SubSeq(s, a + 1, b)[k] = s[a + k]
OBVIOUS

\* A page holds the elements at its places.
LEMMA PageHolds ==
    ASSUME NEW T, NEW s \in Seq(T), NEW page \in Nat \ {0}, NEW pageSize \in Nat \ {0},
           NEW i \in 1..Len(s), (page - 1) * pageSize < i, i <= page * pageSize
    PROVE  s[i] \in Range(Slice(s, page, pageSize))
<1>. DEFINE start == (page - 1) * pageSize
            next == page * pageSize
            end == IF next <= Len(s) THEN next ELSE Len(s)
<1>1. start \in Nat /\ next \in Nat /\ next = start + pageSize /\ Len(s) \in Nat
  BY PageAfterPage
<1>2. Slice(s, page, pageSize) = SubSeq(s, start + 1, end)
  <2>1. Min({start + pageSize, Len(s)}) = end
    BY <1>1, MinOfTwo
  <2>2. ~(start < 0) /\ ~(start > Len(s)) /\ ~(end < start)
    BY <1>1
  <2>. QED  BY <2>1, <2>2 DEF Slice
<1>3. start \in 0..(i - 1) /\ end \in i..Len(s)
  BY <1>1
<1>. HIDE DEF start, end
<1>. DEFINE q == SubSeq(s, start + 1, end)
<1>4. DOMAIN q = 1..(end - start) /\ \A k \in 1..(end - start) : q[k] = s[start + k]
  <2>1. end \in start..Len(s)
    BY <1>1, <1>3
  <2>. QED  BY <1>1, <2>1, PartOfSequence
<1>5. i - start \in 1..(end - start) /\ start + (i - start) = i
  BY <1>1, <1>3
<1>. HIDE DEF q
<1>6. s[i] \in Range(q)
  BY <1>4, <1>5 DEF Range
<1>. QED  BY <1>2, <1>6 DEF q

\* Two sequences put together hold what each of them holds.
LEMMA RangeOfBoth ==
    ASSUME NEW T, NEW s \in Seq(T), NEW t \in Seq(T)
    PROVE  s \o t \in Seq(T) /\ Range(s \o t) = Range(s) \cup Range(t)
BY RangeConcatenation

\* A reader who asks has seen nothing yet.
LEMMA NothingSeen ==
    ASSUME NEW sel \in Seq(Entry), NEW filter \in Filter
    PROVE  LET r == [turning |-> TRUE, filter |-> filter, page |-> 1, shown |-> <<>>,
                     goal |-> Range(sel), last |-> FALSE]
           IN  r \in Readers /\ HasSeen(sel, r)
<1>. DEFINE r == [turning |-> TRUE, filter |-> filter, page |-> 1, shown |-> <<>>,
                  goal |-> Range(sel), last |-> FALSE]
<1>1. Range(sel) = {sel[i] : i \in 1..Len(sel)} /\ Len(sel) \in 0..Len(sel) /\ 0 \in 0..Len(sel)
  BY DEF Range
<1>2. Range(sel) \in SUBSET Entry /\ <<>> \in Seq(Entry)
  BY DEF Range
<1>3. r \in Readers
  BY <1>2 DEF Readers
<1>4. Start(r) = 0 /\ r.shown = SubSeq(sel, 1, 0) /\ r.page \in Nat \ {0}
  BY DEF Start
<1>5. \A i \in 1..Len(sel) : ~(i > Len(sel) - 0)
  OBVIOUS
<1>6. r.goal = Range(sel) /\ r.last = FALSE
  OBVIOUS
<1>. HIDE DEF r
<1>7. HasSeen(sel, r)
  BY <1>1, <1>4, <1>5, <1>6 DEF HasSeen
<1>. QED  BY <1>3, <1>7 DEF r

\* Logs that arrive move what is to be seen to later pages.
LEMMA SeenGrows ==
    ASSUME NEW sel \in Seq(Entry), NEW e \in Entry, NEW r \in Readers, HasSeen(sel, r)
    PROVE  HasSeen(Append(sel, e), r)
<1>. DEFINE longer == Append(sel, e)  L == Len(sel)  q == Start(r)
<1>1. /\ L \in Nat /\ Len(longer) = L + 1 /\ longer \in Seq(Entry)
      /\ \A i \in 1..L : longer[i] = sel[i]
  OBVIOUS
<1>2. q \in Nat
  BY PageAfterPage DEF HasSeen, Start
<1>3. \A m \in 0..L : SubSeq(longer, 1, m) = SubSeq(sel, 1, m)
  OBVIOUS
<1>4. PICK n \in 0..L :
         /\ r.goal = {sel[i] : i \in 1..n}
         /\ r.filter = NULL => \A i \in 1..n : i > L - q => sel[i] \in Range(r.shown)
  BY DEF HasSeen
<1>5. r.filter # NULL => \E m \in 0..L : r.shown = SubSeq(sel, 1, m) /\ (~r.last => m = q)
  BY DEF HasSeen
<1>6. (r.last => r.goal \subseteq Range(r.shown)) /\ r.page \in Nat \ {0}
  BY DEF HasSeen
<1>. HIDE DEF longer, q, L
<1>7. n \in 0..(L + 1) /\ r.goal = {longer[i] : i \in 1..n}
  BY <1>1, <1>4
<1>8. r.filter = NULL => \A i \in 1..n : i > L + 1 - q => longer[i] \in Range(r.shown)
  <2>. SUFFICES ASSUME r.filter = NULL, NEW i \in 1..n, i > L + 1 - q
                PROVE  longer[i] \in Range(r.shown)
    OBVIOUS
  <2>1. i > L - q /\ i \in 1..L
    BY <1>1, <1>2, <1>4
  <2>. QED  BY <2>1, <1>1, <1>4
<1>9. r.filter # NULL => \E m \in 0..(L + 1) : r.shown = SubSeq(longer, 1, m) /\ (~r.last => m = q)
  BY <1>1, <1>3, <1>5
<1>10. HasSeen(longer, r)
  <2>1. \E k \in 0..Len(longer) :
          /\ r.goal = {longer[i] : i \in 1..k}
          /\ r.filter = NULL =>
               \A i \in 1..k : i > Len(longer) - q => longer[i] \in Range(r.shown)
    <3>1. n \in 0..Len(longer)
      BY <1>1, <1>7
    <3>2. r.filter = NULL =>
            \A i \in 1..n : i > Len(longer) - q => longer[i] \in Range(r.shown)
      BY <1>1, <1>2, <1>8
    <3>. QED  BY <1>7, <3>1, <3>2, Zenon
  <2>. QED  BY <1>1, <1>6, <1>9, <2>1, Zenon DEF HasSeen, q
<1>. QED  BY <1>10 DEF longer

\* The reader who has turned a page.
LEMMA PageTurned ==
    ASSUME NEW logs \in Seq(Entry), NEW r \in Readers, r.page # 0
    PROVE  LET sel == Selected(logs, r.filter)
               r2 == [r EXCEPT !.shown = @ \o PageOf(logs, r.filter, r.page, PageSize),
                               !.page = @ + 1,
                               !.last = r.page * PageSize >= Len(sel)]
           IN  r2 \in Readers /\ r2.filter = r.filter /\ r2.page # 0
<1>. DEFINE page == PageOf(logs, r.filter, r.page, PageSize)
            last == r.page * PageSize >= Len(Selected(logs, r.filter))
<1>1. r.page \in Nat \ {0}
  BY DEF Readers
<1>2. page \in Seq(Entry)
  BY <1>1, ReverseIsSequence, OfAgentAreLogs, PageAfterPage
     DEF PageOf, GetLogsPaged, GetLogsPagedByAgentID
<1>3. last \in BOOLEAN
  OBVIOUS
<1>. HIDE DEF page, last
<1>4. r.shown \o page \in Seq(Entry)
  BY <1>2, RangeOfBoth DEF Readers
<1>5. r.page + 1 \in Nat /\ r.page + 1 # 0
  BY <1>1
<1>6. LET r2 == [r EXCEPT !.shown = @ \o page, !.page = @ + 1, !.last = last]
      IN  r2 \in Readers /\ r2.filter = r.filter /\ r2.page = r.page + 1
  BY <1>3, <1>4, <1>5 DEF Readers
<1>. QED  BY <1>5, <1>6 DEF page, last

\* A page that is turned shows what was next.
LEMMA PageSeen ==
    ASSUME NEW logs \in Seq(Entry), NEW r \in Readers, ~r.last,
           HasSeen(Selected(logs, r.filter), r)
    PROVE  LET sel == Selected(logs, r.filter)
               r2 == [r EXCEPT !.shown = @ \o PageOf(logs, r.filter, r.page, PageSize),
                               !.page = @ + 1,
                               !.last = r.page * PageSize >= Len(sel)]
           IN  r2 \in Readers /\ HasSeen(sel, r2)
<1>. DEFINE sel == Selected(logs, r.filter)
            page == PageOf(logs, r.filter, r.page, PageSize)
            L == Len(sel)  q == Start(r)  q2 == r.page * PageSize
            r2 == [r EXCEPT !.shown = @ \o page, !.page = @ + 1, !.last = q2 >= L]
<1>1. sel \in Seq(Entry) /\ L \in Nat
  BY SelectedAreLogs
<1>2. r.page \in Nat \ {0} /\ q \in Nat /\ q2 \in Nat /\ q2 = q + PageSize
  BY PageAfterPage DEF HasSeen, Start
<1>3. page \in Seq(Entry)
  BY <1>2, ReverseIsSequence, OfAgentAreLogs, PageAfterPage
     DEF PageOf, GetLogsPaged, GetLogsPagedByAgentID
<1>4. r.shown \in Seq(Entry)
  BY DEF Readers
<1>. HIDE DEF page
<1>5. r.shown \o page \in Seq(Entry) /\ Range(r.shown \o page) = Range(r.shown) \cup Range(page)
  BY <1>3, <1>4, RangeOfBoth
<1>. HIDE DEF q, q2, L
<1>6. /\ r2 \in Readers /\ r2.filter = r.filter /\ r2.goal = r.goal
      /\ r2.shown = r.shown \o page /\ r2.page = r.page + 1 /\ (r2.last <=> q2 >= L)
  <2>1. r.page + 1 \in Nat /\ (q2 >= L) \in BOOLEAN
    BY <1>2
  <2>. QED  BY <1>5, <2>1 DEF Readers
<1>7. Start(r2) = q2
  BY <1>2, <1>6 DEF Start, q2
<1>8. PICK n \in 0..L :
         /\ r.goal = {sel[i] : i \in 1..n}
         /\ r.filter = NULL => \A i \in 1..n : i > L - q => sel[i] \in Range(r.shown)
  BY DEF HasSeen, q, L
<1>9. r.filter # NULL => \E m \in 0..L : r.shown = SubSeq(sel, 1, m) /\ m = q
  BY DEF HasSeen, q, L
<1>. HIDE DEF r2, sel
<1>10. ASSUME r.filter = NULL  PROVE HasSeen(sel, r2)
  <2>1. sel = logs /\ page = Slice(Reverse(logs), r.page, PageSize)
    BY <1>10 DEF Selected, GetAllLogs, PageOf, GetLogsPaged, page, sel
  <2>2. \A i \in 1..n : i > L - q2 => sel[i] \in Range(r2.shown)
    <3>. SUFFICES ASSUME NEW i \in 1..n, i > L - q2, ~(i > L - q)
                  PROVE  sel[i] \in Range(page)
      BY <1>5, <1>6, <1>8, <1>10
    <3>. DEFINE rev == Reverse(logs)  k == L - i + 1
    <3>1. rev \in Seq(Entry) /\ Len(rev) = L /\ \A j \in 1..L : rev[j] = sel[L - j + 1]
      BY <1>1, <2>1, ReverseIsSequence DEF L
    <3>2. k \in 1..L /\ q < k /\ k <= q2 /\ L - k + 1 = i
      BY <1>1, <1>2
    <3>3. rev[k] = sel[i]
      BY <3>1, <3>2
    <3>. HIDE DEF rev, k
    <3>4. rev[k] \in Range(Slice(rev, r.page, PageSize))
      BY <1>2, <3>1, <3>2, PageHolds DEF q, q2, Start
    <3>. QED  BY <2>1, <3>3, <3>4 DEF rev
  <2>3. q2 >= L => r.goal \subseteq Range(r2.shown)
    <3>. SUFFICES ASSUME q2 >= L, NEW i \in 1..n
                  PROVE  sel[i] \in Range(r2.shown)
      BY <1>8
    <3>1. i > L - q2
      BY <1>1, <1>2
    <3>. QED  BY <3>1, <2>2
  <2>4. r2.page \in Nat \ {0}
    BY <1>2, <1>6
  <2>5. \E k \in 0..Len(sel) :
          /\ r2.goal = {sel[i] : i \in 1..k}
          /\ r2.filter = NULL =>
               \A i \in 1..k : i > Len(sel) - q2 => sel[i] \in Range(r2.shown)
    BY <1>6, <1>8, <2>2, Zenon DEF L
  <2>. QED  BY <1>6, <1>7, <1>10, <2>3, <2>4, <2>5, Zenon DEF HasSeen
<1>11. ASSUME r.filter # NULL  PROVE HasSeen(sel, r2)
  <2>1. page = Slice(sel, r.page, PageSize)
    BY <1>11 DEF Selected, GetLogsByAgentID, PageOf, GetLogsPagedByAgentID, page, sel
  <2>2. q \in 0..L /\ r.shown = First(sel, q)
    BY <1>1, <1>9, <1>11 DEF First, L
  <2>3. r2.shown = First(sel, q2)
    <3>1. First(sel, q) \o Slice(sel, r.page, PageSize) = First(sel, q2)
      <4>1. sel \in Seq(Entry) /\ r.page \in Nat \ {0} /\ PageSize \in Nat \ {0}
        BY <1>1, <1>2
      <4>2. First(sel, (r.page - 1) * PageSize) \o Slice(sel, r.page, PageSize)
              = First(sel, r.page * PageSize)
        BY ONLY <4>1, PageAfterPage
      <4>. QED  BY <4>2, Zenon DEF q, q2, Start
    <3>. QED  BY <1>6, <2>1, <2>2, <3>1
  <2>. DEFINE m == IF q2 <= L THEN q2 ELSE L
  <2>4. m \in 0..L /\ r2.shown = SubSeq(sel, 1, m) /\ (~(q2 >= L) => m = q2)
    BY <1>1, <1>2, <2>3 DEF First, L
  <2>5. q2 >= L => r.goal \subseteq Range(r2.shown)
    <3>. SUFFICES ASSUME q2 >= L, NEW i \in 1..n
                  PROVE  sel[i] \in Range(r2.shown)
      BY <1>8
    <3>1. r2.shown = sel
      BY <1>1, <1>2, <2>3 DEF First, L
    <3>. QED  BY <3>1, <1>1 DEF Range, L
  <2>6. r2.page \in Nat \ {0}
    BY <1>2, <1>6
  <2>. HIDE DEF m
  <2>7. \E k \in 0..Len(sel) : r2.goal = {sel[i] : i \in 1..k}
    BY <1>6, <1>8, Zenon DEF L
  <2>8. \E k \in 0..Len(sel) : r2.shown = SubSeq(sel, 1, k) /\ (~r2.last => k = q2)
    BY <1>6, <2>4, Zenon DEF L
  <2>. QED  BY <1>6, <1>7, <1>11, <2>5, <2>6, <2>7, <2>8, Zenon DEF HasSeen
<1>. QED  BY <1>6, <1>10, <1>11 DEF r2, q2, page, L, sel

-----------------------------------------------------------------------------
(* The steps of the handlers.                                                *)

USE DEF handlerVars, rotateVars, ghostVars

\* A message gets the next number, and with it an entry that is in no file.
LEMMA ReceiveKeeps ==
    ASSUME Inv, NEW c \in Conns, NEW a \in AgentIDs, Receive(c, a)
    PROVE  Inv'
<1>. DEFINE e == [id |-> received + 1, agent_id |-> a]
<1>1. /\ UNCHANGED <<files, main, fd, rotating, old, removed, truncated, rotations,
                     reader, acked, faults, restarts>>
      /\ pc[c] = "idle" /\ received < MaxEntries /\ received' = received + 1
      /\ entry' = [entry EXCEPT ![c] = e] /\ pc' = [pc EXCEPT ![c] = "open"]
  BY DEF Receive
<1>2. e \in Entry /\ e.id = received + 1 /\ e # NULL /\ received \in Nat
  BY <1>1, UnitsDiffer DEF Inv, Typed, Entry
<1>. HIDE DEF e
<1>3. /\ entry'[c] = e /\ pc'[c] = "open"
      /\ \A d \in Conns : d # c => entry'[d] = entry[d] /\ pc'[d] = pc[d]
  BY <1>1 DEF Inv, Typed
<1>4. e \notin Units(files)
  BY <1>2 DEF Inv, EntriesNumbered
<1>5. Typed'
  BY <1>1, <1>2, <1>3 DEF Inv, Typed
<1>6. FilesCounted' /\ FilesNamed' /\ OneFile' /\ StoredOnce' /\ ReaderSees'
  BY <1>1 DEF Inv, FilesCounted, FilesNamed, OneFile, StoredOnce, ReaderSees
<1>7. EntriesNumbered'
  <2>1. \A f \in Entry : f.id \in Int
    BY DEF Entry
  <2>2. \A u \in Units(files) : u \in Entry => u.id <= received + 1
    BY <1>2, <2>1 DEF Inv, EntriesNumbered
  <2>3. \A d \in Conns : entry[d] # NULL =>
          entry[d] \in Entry /\ entry[d].id <= received + 1 /\ entry[d] # e
    <3>1. \A d \in Conns : entry[d] # NULL => entry[d] \in Entry /\ entry[d].id <= received
      BY DEF Inv, Typed, EntriesNumbered
    <3>. QED  BY <1>2, <2>1, <3>1
  <2>. QED  BY <1>1, <1>2, <1>3, <2>2, <2>3 DEF Inv, EntriesNumbered
<1>8. HandlersHold'
  BY <1>1, <1>2, <1>3, <1>4 DEF Inv, HandlersHold
<1>9. WrittenIsKept'
  BY <1>1, <1>3 DEF Inv, WrittenIsKept, Everything
<1>. QED  BY <1>5, <1>6, <1>7, <1>8, <1>9 DEF Inv

\* A handler creates the archive if there is none.
LEMMA OpenArchiveKeeps ==
    ASSUME Inv, NEW c \in Conns, OpenArchive(c)
    PROVE  Inv'
<1>1. /\ UNCHANGED <<entry, rotating, old, removed, truncated, rotations,
                     reader, received, acked, faults, restarts>>
      /\ pc[c] = "open" /\ fd' = [fd EXCEPT ![c] = main'] /\ pc' = [pc EXCEPT ![c] = "entry"]
      /\ \/ main = NULL /\ files' = Append(files, <<>>) /\ main' = Len(files) + 1
         \/ main # NULL /\ UNCHANGED <<files, main>>
  BY DEF OpenArchive
<1>2. files \in Seq(Seq(Unit)) /\ Len(files) \in Nat /\ DOMAIN files = 1..Len(files)
  BY DEF Inv, Typed
<1>3. /\ files' \in Seq(Seq(Unit)) /\ Units(files') = Units(files) /\ Once(files')
      /\ main' \in DOMAIN files' /\ DOMAIN files' = DOMAIN files \cup {main'}
      /\ main' # NULL
  <2>1. Once(files) /\ NULL \notin Nat
    BY DEF Inv, StoredOnce
  <2>2. CASE main = NULL
    <3>1. files' = Append(files, <<>>) /\ main' = Len(files) + 1
      BY <1>1, <2>2
    <3>. HIDE DEF Units, Once
    <3>2. /\ files' \in Seq(Seq(Unit)) /\ Units(files') = Units(files) /\ Once(files')
          /\ DOMAIN files' = DOMAIN files \cup {Len(files) + 1}
      BY <1>2, <2>1, <3>1, FileAdded, Zenon
    <3>3. Len(files) + 1 # NULL
      BY <1>2, <2>1
    <3>. QED  BY <3>1, <3>2, <3>3
  <2>3. CASE main # NULL
    <3>1. UNCHANGED <<files, main>> /\ main \in DOMAIN files
      BY <1>1, <2>3 DEF Inv, Typed
    <3>. QED  BY <1>2, <2>1, <2>3, <3>1
  <2>. QED  BY <2>2, <2>3
<1>4. Len(files') + 0 = Len(files) + (IF main = NULL THEN 1 ELSE 0) /\ Len(files') \in Nat
  BY <1>1, <1>2
<1>5. FilesCounted'
  BY <1>1, <1>3, <1>4 DEF Inv, FilesCounted
<1>6. old # main' \/ old = NULL
  <2>1. CASE main = NULL
    BY <1>1, <1>2, <2>1 DEF Inv, Typed
  <2>2. CASE main # NULL
    BY <1>1, <2>2 DEF Inv, Typed
  <2>. QED  BY <2>1, <2>2
<1>7. pc'[c] = "entry" /\ \A d \in Conns : d # c => pc'[d] = pc[d]
  BY <1>1 DEF Inv, Typed
<1>8. Typed'
  <2>1. Len(files') <= 1 + MaxRotations
    BY <1>1, <1>3, <1>5 DEF Inv, Typed, FilesCounted
  <2>2. fd' \in [Conns -> DOMAIN files' \cup {NULL}] /\ fd'[c] = main'
        /\ \A d \in Conns : d # c => fd'[d] = fd[d]
    BY <1>1, <1>3 DEF Inv, Typed
  <2>3. \A d \in Conns : pc'[d] \in {"entry", "newline"} => fd'[d] # NULL
    BY <1>3, <1>7, <2>2 DEF Inv, Typed
  <2>4. pc' \in [Conns -> {"idle", "open", "entry", "newline", "answer"}]
    BY <1>1 DEF Inv, Typed
  <2>5. old \in DOMAIN files' \cup {NULL} /\ removed \subseteq DOMAIN files'
    BY <1>3 DEF Inv, Typed
  <2>. QED  BY <1>1, <1>3, <1>6, <2>1, <2>2, <2>3, <2>4, <2>5 DEF Inv, Typed
<1>9. FilesNamed'
  BY <1>1, <1>3 DEF Inv, FilesNamed
<1>10. OneFile'
  BY <1>1, <1>2, <1>3, <1>4 DEF Inv, OneFile
<1>11. EntriesNumbered' /\ HandlersHold' /\ StoredOnce'
  BY <1>1, <1>3, <1>7 DEF Inv, EntriesNumbered, HandlersHold, StoredOnce
<1>12. WrittenIsKept'
  BY <1>1, <1>3, <1>7 DEF Inv, WrittenIsKept, Everything
<1>13. ReaderSees'
  BY <1>1 DEF Inv, ReaderSees
<1>. QED  BY <1>5, <1>8, <1>9, <1>10, <1>11, <1>12, <1>13 DEF Inv

\* A failed open counts as a fault.
LEMMA OpenFailsKeeps ==
    ASSUME Inv, NEW c \in Conns, OpenFails(c)
    PROVE  Inv'
<1>1. /\ UNCHANGED <<files, main, entry, fd, rotating, old, removed, truncated, rotations,
                     reader, received, acked, restarts>>
      /\ pc[c] = "open" /\ faults < MaxFaults /\ faults' = faults + 1
      /\ pc' = [pc EXCEPT ![c] = "answer"]
  BY DEF OpenFails
<1>2. pc'[c] = "answer" /\ \A d \in Conns : d # c => pc'[d] = pc[d]
  BY <1>1 DEF Inv, Typed
<1>3. faults' \in 0..MaxFaults /\ faults' # 0
  BY <1>1 DEF Inv, Typed
<1>4. Typed'
  BY <1>1, <1>2, <1>3 DEF Inv, Typed
<1>5. FilesCounted' /\ FilesNamed' /\ OneFile' /\ EntriesNumbered' /\ StoredOnce' /\ ReaderSees'
  BY <1>1 DEF Inv, FilesCounted, FilesNamed, OneFile, EntriesNumbered, StoredOnce, ReaderSees
<1>6. HandlersHold'
  BY <1>1, <1>2 DEF Inv, HandlersHold
<1>7. WrittenIsKept'
  BY <1>3 DEF WrittenIsKept
<1>. QED  BY <1>4, <1>5, <1>6, <1>7 DEF Inv

\* What every write does to the files: a unit that is no entry, or an entry that
\* is in no file, goes to the end of one file.
LEMMA WriteKeeps ==
    ASSUME Inv, NEW f \in DOMAIN files, NEW u \in Unit, Write(f, <<u>>),
           u \in Entry => u \notin Units(files) /\ u.id <= received,
           UNCHANGED <<main, rotating, old, removed, truncated, rotations, reader, received>>
    PROVE  /\ files' \in Seq(Seq(Unit)) /\ DOMAIN files' = DOMAIN files
           /\ Len(files') = Len(files) /\ Units(files') = Units(files) \cup {u}
           /\ FilesCounted' /\ FilesNamed' /\ OneFile' /\ StoredOnce' /\ ReaderSees'
           /\ \A v \in Units(files') : v \in Entry => v.id <= received
<1>1. files' = [files EXCEPT ![f] = @ \o <<u>>] /\ files \in Seq(Seq(Unit))
  BY DEF Write, Inv, Typed
<1>2. /\ files' \in Seq(Seq(Unit)) /\ Len(files') = Len(files) /\ DOMAIN files' = DOMAIN files
      /\ files'[f] = files[f] \o <<u>>
      /\ Units(files') = Units(files) \cup {u}
      /\ Once(files')
  BY <1>1, UnitWritten DEF Inv, StoredOnce
<1>3. FilesCounted' /\ FilesNamed' /\ StoredOnce'
  BY <1>2 DEF Inv, FilesCounted, FilesNamed, StoredOnce
<1>4. rotations = 0 => f = 1 /\ main = 1 /\ Len(files) = 1
  BY <1>1 DEF Inv, OneFile
<1>5. OneFile'
  BY <1>2, <1>4 DEF Inv, OneFile
<1>6. ReaderSees'
  <2>. SUFFICES ASSUME rotations = 0, reader.turning
                PROVE  HasSeen(Selected(EntriesIn(files'[main]), reader.filter), reader)
    BY DEF Inv, ReaderSees
  <2>. DEFINE logs == EntriesIn(files[main])
  <2>1. files[main] \in Seq(Unit) /\ main = f
    <3>1. f = 1 /\ main = 1
      BY <1>4
    <3>2. \A g \in DOMAIN files : files[g] \in Seq(Unit)
      BY <1>1
    <3>. QED  BY <3>1, <3>2
  <2>2. logs \in Seq(Entry)
    BY <2>1, EntriesAreEntries
  <2>3. HasSeen(Selected(logs, reader.filter), reader) /\ reader \in Readers
    BY DEF Inv, ReaderSees, Idle
  <2>4. /\ u \in Entry => EntriesIn(files'[main]) = Append(logs, u)
        /\ u \notin Entry => EntriesIn(files'[main]) = logs
    <3>1. files'[main] = files[main] \o <<u>>
      BY <1>2, <2>1
    <3>. QED  BY <2>1, <3>1, EntriesOfWritten
  <2>. HIDE DEF logs
  <2>5. CASE u \in Entry
    <3>1. Selected(logs, reader.filter) \in Seq(Entry)
      BY <2>2, SelectedAreLogs
    <3>2. HasSeen(Append(Selected(logs, reader.filter), u), reader)
      BY <2>3, <2>5, <3>1, SeenGrows
    <3>3. Selected(Append(logs, u), reader.filter)
            \in {Selected(logs, reader.filter), Append(Selected(logs, reader.filter), u)}
      BY <2>2, <2>5, SelectedOneMore
    <3>. QED  BY <2>3, <2>4, <2>5, <3>2, <3>3
  <2>6. CASE u \notin Entry
    BY <2>3, <2>4, <2>6
  <2>. QED  BY <2>5, <2>6
<1>7. \A v \in Units(files') : v \in Entry => v.id <= received
  BY <1>2 DEF Inv, EntriesNumbered
<1>. QED  BY <1>2, <1>3, <1>5, <1>6, <1>7

\* The file a handler writes to is a file it has open.
LEMMA OpenFile ==
    ASSUME Typed, NEW c \in Conns, pc[c] \in {"entry", "newline"}
    PROVE  fd[c] \in DOMAIN files
BY DEF Typed

\* A handler writes its entry.
LEMMA WriteEntryKeeps ==
    ASSUME Inv, NEW c \in Conns, WriteEntry(c)
    PROVE  Inv'
<1>1. /\ UNCHANGED <<main, entry, fd, rotating, old, removed, truncated, rotations,
                     reader, received, acked, faults, restarts>>
      /\ pc[c] = "entry" /\ Write(fd[c], <<entry[c]>>) /\ pc' = [pc EXCEPT ![c] = "newline"]
  BY DEF WriteEntry
<1>2. /\ fd[c] \in DOMAIN files /\ entry[c] \in Entry /\ entry[c] \in Unit
      /\ entry[c] \notin Units(files) /\ entry[c].id <= received
  BY <1>1, OpenFile DEF Inv, Typed, HandlersHold, EntriesNumbered, Unit
<1>3. /\ files' \in Seq(Seq(Unit)) /\ DOMAIN files' = DOMAIN files
      /\ Len(files') = Len(files) /\ Units(files') = Units(files) \cup {entry[c]}
      /\ FilesCounted' /\ FilesNamed' /\ OneFile' /\ StoredOnce' /\ ReaderSees'
      /\ \A v \in Units(files') : v \in Entry => v.id <= received
  BY <1>1, <1>2, WriteKeeps
<1>4. pc'[c] = "newline" /\ \A d \in Conns : d # c => pc'[d] = pc[d]
  BY <1>1 DEF Inv, Typed
<1>5. Typed'
  BY <1>1, <1>3, <1>4 DEF Inv, Typed
<1>6. EntriesNumbered'
  BY <1>1, <1>3 DEF Inv, EntriesNumbered
<1>7. HandlersHold'
  BY <1>1, <1>2, <1>3, <1>4, UnitsDiffer DEF Inv, HandlersHold, EntriesNumbered
<1>8. WrittenIsKept'
  <2>. SUFFICES ASSUME faults = 0
                PROVE  /\ Units(files') \cap [torn : Entry] = {}
                       /\ \A d \in Conns : pc'[d] \in {"newline", "answer"} => entry[d] \in Everything'
                       /\ acked \subseteq Everything'
    BY <1>1 DEF WrittenIsKept
  <2>1. Everything' = Everything \cup {entry[c]}
    BY <1>1, <1>3 DEF Everything
  <2>2. entry[c] \notin [torn : Entry]
    BY <1>2, UnitsDiffer
  <2>. QED  BY <1>3, <1>4, <2>1, <2>2 DEF Inv, WrittenIsKept
<1>. QED  BY <1>3, <1>5, <1>6, <1>7, <1>8 DEF Inv

\* A handler writes a part of its entry.
LEMMA WriteEntryFailsKeeps ==
    ASSUME Inv, NEW c \in Conns, WriteEntryFails(c)
    PROVE  Inv'
<1>. DEFINE u == [torn |-> entry[c]]
<1>1. /\ UNCHANGED <<main, entry, fd, rotating, old, removed, truncated, rotations,
                     reader, received, acked, restarts>>
      /\ pc[c] = "entry" /\ Write(fd[c], <<u>>) /\ pc' = [pc EXCEPT ![c] = "newline"]
      /\ faults < MaxFaults /\ faults' = faults + 1
  BY DEF WriteEntryFails
<1>2. fd[c] \in DOMAIN files /\ entry[c] \in Entry /\ u \in Unit /\ u \notin Entry
  BY <1>1, OpenFile, UnitsDiffer DEF Inv, Typed, HandlersHold, Unit
<1>. HIDE DEF u
<1>3. /\ files' \in Seq(Seq(Unit)) /\ DOMAIN files' = DOMAIN files
      /\ Len(files') = Len(files) /\ Units(files') = Units(files) \cup {u}
      /\ FilesCounted' /\ FilesNamed' /\ OneFile' /\ StoredOnce' /\ ReaderSees'
      /\ \A v \in Units(files') : v \in Entry => v.id <= received
  BY <1>1, <1>2, WriteKeeps
<1>4. pc'[c] = "newline" /\ \A d \in Conns : d # c => pc'[d] = pc[d]
  BY <1>1 DEF Inv, Typed
<1>5. faults' \in 0..MaxFaults /\ faults' # 0
  BY <1>1 DEF Inv, Typed
<1>6. Typed'
  <2>1. \A d \in Conns : pc'[d] \in {"entry", "newline"} => fd[d] # NULL
    BY <1>1, <1>4 DEF Inv, Typed
  <2>. QED  BY <1>1, <1>3, <1>4, <1>5, <2>1 DEF Inv, Typed
<1>7. EntriesNumbered'
  BY <1>1, <1>3 DEF Inv, EntriesNumbered
<1>8. HandlersHold'
  <2>1. \A d \in Conns : entry[d] # NULL => entry[d] # u
    BY <1>2 DEF Inv, Typed
  <2>. QED  BY <1>1, <1>3, <1>4, <2>1 DEF Inv, HandlersHold
<1>9. WrittenIsKept'
  BY <1>5 DEF WrittenIsKept
<1>. QED  BY <1>3, <1>6, <1>7, <1>8, <1>9 DEF Inv

\* A handler writes the line end and closes the file.
LEMMA WriteNewlineKeeps ==
    ASSUME Inv, NEW c \in Conns, WriteNewline(c)
    PROVE  Inv'
<1>1. /\ UNCHANGED <<main, entry, rotating, old, removed, truncated, rotations,
                     reader, received, acked, faults, restarts>>
      /\ pc[c] = "newline" /\ Write(fd[c], <<EOL>>) /\ pc' = [pc EXCEPT ![c] = "answer"]
      /\ fd' = [fd EXCEPT ![c] = NULL]
  BY DEF WriteNewline
<1>2. fd[c] \in DOMAIN files /\ EOL \in Unit /\ EOL \notin Entry /\ EOL \notin [torn : Entry]
  BY <1>1, OpenFile, UnitsDiffer, UnitAssumption DEF Inv, Unit
<1>3. /\ files' \in Seq(Seq(Unit)) /\ DOMAIN files' = DOMAIN files
      /\ Len(files') = Len(files) /\ Units(files') = Units(files) \cup {EOL}
      /\ FilesCounted' /\ FilesNamed' /\ OneFile' /\ StoredOnce' /\ ReaderSees'
      /\ \A v \in Units(files') : v \in Entry => v.id <= received
  BY <1>1, <1>2, WriteKeeps
<1>4. /\ pc'[c] = "answer" /\ fd'[c] = NULL
      /\ \A d \in Conns : d # c => pc'[d] = pc[d] /\ fd'[d] = fd[d]
  BY <1>1 DEF Inv, Typed
<1>5. Typed'
  BY <1>1, <1>3, <1>4 DEF Inv, Typed
<1>6. EntriesNumbered'
  BY <1>1, <1>3 DEF Inv, EntriesNumbered
<1>7. HandlersHold'
  <2>1. \A d \in Conns : entry[d] # NULL => entry[d] # EOL
    BY <1>2 DEF Inv, Typed
  <2>. QED  BY <1>1, <1>3, <1>4, <2>1 DEF Inv, HandlersHold
<1>8. WrittenIsKept'
  <2>1. Everything \subseteq Everything'
    BY <1>1, <1>3 DEF Everything
  <2>. QED  BY <1>1, <1>2, <1>3, <1>4, <2>1 DEF Inv, WrittenIsKept
<1>. QED  BY <1>3, <1>5, <1>6, <1>7, <1>8 DEF Inv

\* The answer.
LEMMA AnswerKeeps ==
    ASSUME Inv, NEW c \in Conns, Answer(c)
    PROVE  Inv'
<1>1. /\ UNCHANGED <<files, main, fd, rotating, old, removed, truncated, rotations,
                     reader, received, faults, restarts>>
      /\ pc[c] = "answer" /\ acked' = acked \cup {entry[c]}
      /\ entry' = [entry EXCEPT ![c] = NULL] /\ pc' = [pc EXCEPT ![c] = "idle"]
  BY DEF Answer
<1>2. /\ pc'[c] = "idle" /\ entry'[c] = NULL
      /\ \A d \in Conns : d # c => pc'[d] = pc[d] /\ entry'[d] = entry[d]
  BY <1>1 DEF Inv, Typed
<1>3. entry[c] \in Entry
  BY <1>1 DEF Inv, Typed, HandlersHold
<1>4. Typed'
  BY <1>1, <1>2, <1>3 DEF Inv, Typed
<1>5. FilesCounted' /\ FilesNamed' /\ OneFile' /\ StoredOnce' /\ ReaderSees'
  BY <1>1 DEF Inv, FilesCounted, FilesNamed, OneFile, StoredOnce, ReaderSees
<1>6. EntriesNumbered'
  BY <1>1, <1>2 DEF Inv, EntriesNumbered
<1>7. HandlersHold'
  BY <1>1, <1>2 DEF Inv, HandlersHold
<1>8. WrittenIsKept'
  BY <1>1, <1>2 DEF Inv, WrittenIsKept, Everything
<1>. QED  BY <1>4, <1>5, <1>6, <1>7, <1>8 DEF Inv

\* A restart ends all handlers and the rotation.
LEMMA RestartServerKeeps ==
    ASSUME Inv, RestartServer
    PROVE  Inv'
<1>1. /\ UNCHANGED <<files, main, old, removed, truncated, rotations,
                     reader, received, acked, faults>>
      /\ restarts < MaxRestarts /\ restarts' = restarts + 1 /\ rotating' = "no"
      /\ pc' = [d \in Conns |-> "idle"] /\ entry' = [d \in Conns |-> NULL]
      /\ fd' = [d \in Conns |-> NULL]
  BY DEF RestartServer
<1>2. Typed'
  BY <1>1 DEF Inv, Typed
<1>3. FilesCounted' /\ FilesNamed' /\ OneFile' /\ StoredOnce' /\ ReaderSees'
  BY <1>1 DEF Inv, FilesCounted, FilesNamed, OneFile, StoredOnce, ReaderSees
<1>4. EntriesNumbered' /\ HandlersHold'
  BY <1>1 DEF Inv, EntriesNumbered, HandlersHold
<1>5. WrittenIsKept'
  BY <1>1 DEF Inv, WrittenIsKept, Everything
<1>. QED  BY <1>2, <1>3, <1>4, <1>5 DEF Inv

-----------------------------------------------------------------------------
(* The steps of RotateLog.                                                   *)

\* The .old file loses its name; the archive keeps its own.
LEMMA RotateRemoveKeeps ==
    ASSUME Inv, RotateRemove
    PROVE  Inv'
<1>1. /\ UNCHANGED <<files, main, pc, entry, fd, truncated, reader, received, acked,
                     faults, restarts>>
      /\ rotating = "no" /\ rotations < MaxRotations /\ rotations' = rotations + 1
      /\ removed' = removed \cup ({old} \ {NULL}) /\ old' = NULL /\ rotating' = "rename"
  BY DEF RotateRemove
<1>2. rotations \in Nat /\ rotations' \in 1..MaxRotations /\ rotations' # 0
  BY <1>1 DEF Inv, Typed
<1>3. Typed'
  BY <1>1, <1>2 DEF Inv, Typed
<1>4. FilesCounted'
  BY <1>1, <1>2 DEF Inv, Typed, FilesCounted
<1>5. FilesNamed'
  <2>1. NULL \notin DOMAIN files
    BY DEF Inv, Typed
  <2>. QED  BY <1>1, <2>1 DEF Inv, FilesNamed
<1>6. OneFile' /\ ReaderSees'
  BY <1>1, <1>2 DEF Inv, OneFile, ReaderSees
<1>7. EntriesNumbered' /\ HandlersHold' /\ StoredOnce' /\ WrittenIsKept'
  BY <1>1 DEF Inv, EntriesNumbered, HandlersHold, StoredOnce, WrittenIsKept, Everything
<1>. QED  BY <1>3, <1>4, <1>5, <1>6, <1>7 DEF Inv

\* The name of the archive moves to the .old file.
LEMMA RotateRenameKeeps ==
    ASSUME Inv, RotateRename
    PROVE  Inv'
<1>1. /\ UNCHANGED <<files, pc, entry, fd, removed, truncated, rotations, reader,
                     received, acked, faults, restarts>>
      /\ rotating = "rename" /\ rotating' \in {"no", "create"}
      /\ \/ main # NULL /\ old' = main /\ main' = NULL
         \/ UNCHANGED <<main, old>>
  BY DEF RotateRename
<1>2. rotations # 0
  BY <1>1 DEF Inv, OneFile
<1>3. Typed'
  BY <1>1 DEF Inv, Typed
<1>4. FilesCounted'
  BY <1>1 DEF Inv, Typed, FilesCounted
<1>5. FilesNamed'
  <2>1. NULL \notin DOMAIN files
    BY DEF Inv, Typed
  <2>. QED  BY <1>1, <2>1 DEF Inv, FilesNamed
<1>6. OneFile' /\ ReaderSees'
  BY <1>1, <1>2 DEF Inv, OneFile, ReaderSees
<1>7. EntriesNumbered' /\ HandlersHold' /\ StoredOnce' /\ WrittenIsKept'
  BY <1>1 DEF Inv, EntriesNumbered, HandlersHold, StoredOnce, WrittenIsKept, Everything
<1>. QED  BY <1>3, <1>4, <1>5, <1>6, <1>7 DEF Inv

\* The new archive is empty; what a handler has put there in the meantime is
\* truncated.
LEMMA RotateCreateKeeps ==
    ASSUME Inv, RotateCreate
    PROVE  Inv'
<1>1. /\ UNCHANGED <<pc, entry, fd, old, removed, rotations, reader, received, acked,
                     faults, restarts>>
      /\ rotating = "create" /\ rotating' = "no"
      /\ truncated' = truncated \cup StoredIn(main)
      /\ \/ main = NULL /\ files' = Append(files, <<>>) /\ main' = Len(files) + 1
         \/ main # NULL /\ files' = [files EXCEPT ![main] = <<>>] /\ main' = main
  BY DEF RotateCreate
<1>2. files \in Seq(Seq(Unit)) /\ Len(files) \in Nat /\ DOMAIN files = 1..Len(files)
  BY DEF Inv, Typed
<1>3. /\ files' \in Seq(Seq(Unit)) /\ Once(files')
      /\ main' \in DOMAIN files' /\ DOMAIN files' = DOMAIN files \cup {main'}
      /\ main' # NULL /\ Units(files') \subseteq Units(files)
      /\ Units(files) \cap Entry \subseteq Units(files') \cup StoredIn(main)
      /\ StoredIn(main) \subseteq Entry
  <2>1. Once(files) /\ NULL \notin Nat
    BY DEF Inv, StoredOnce
  <2>2. CASE main = NULL
    <3>1. files' = Append(files, <<>>) /\ main' = Len(files) + 1
      BY <1>1, <2>2
    <3>2. /\ files' \in Seq(Seq(Unit)) /\ Units(files') = Units(files) /\ Once(files')
          /\ DOMAIN files' = DOMAIN files \cup {Len(files) + 1}
      BY <1>2, <2>1, <3>1, FileAdded, Zenon
    <3>3. Len(files) + 1 # NULL /\ StoredIn(main) = {}
      BY <1>2, <2>1, <2>2 DEF StoredIn
    <3>. QED  BY <3>1, <3>2, <3>3
  <2>3. CASE main # NULL
    <3>1. main \in DOMAIN files /\ files[main] \in Seq(Unit)
      BY <1>2, <2>3 DEF Inv, Typed
    <3>2. StoredIn(main) = Range(files[main]) \cap Entry
      BY <2>3, <3>1, EntriesAreEntries DEF StoredIn
    <3>3. files' = [files EXCEPT ![main] = <<>>] /\ main' = main
      BY <1>1, <2>3
    <3>4. /\ files' \in Seq(Seq(Unit)) /\ DOMAIN files' = DOMAIN files /\ Once(files')
          /\ Units(files) = Units(files') \cup Range(files[main])
      BY <1>2, <2>1, <3>1, <3>3, FileTruncated
    <3>. QED  BY <2>3, <3>1, <3>2, <3>3, <3>4
  <2>. QED  BY <2>2, <2>3
<1>4. Len(files') = Len(files) + (IF main = NULL THEN 1 ELSE 0) /\ Len(files') \in Nat
  BY <1>1, <1>2
<1>5. rotations # 0
  BY <1>1 DEF Inv, OneFile
<1>6. FilesCounted'
  BY <1>1, <1>3, <1>4 DEF Inv, FilesCounted
<1>7. old # main' \/ old = NULL
  <2>1. CASE main = NULL
    BY <1>1, <1>2, <2>1 DEF Inv, Typed
  <2>2. CASE main # NULL
    BY <1>1, <2>2 DEF Inv, Typed
  <2>. QED  BY <2>1, <2>2
<1>8. Typed'
  <2>1. Len(files') <= 1 + MaxRotations
    BY <1>1, <1>3, <1>6 DEF Inv, Typed, FilesCounted
  <2>2. old \in DOMAIN files' \cup {NULL} /\ removed \subseteq DOMAIN files'
        /\ fd \in [Conns -> DOMAIN files' \cup {NULL}]
    BY <1>3 DEF Inv, Typed
  <2>3. truncated' \subseteq Entry
    BY <1>1, <1>3 DEF Inv, Typed
  <2>. QED  BY <1>1, <1>3, <1>7, <2>1, <2>2, <2>3 DEF Inv, Typed
<1>9. FilesNamed'
  BY <1>1, <1>3 DEF Inv, FilesNamed
<1>10. OneFile' /\ ReaderSees'
  BY <1>1, <1>5 DEF Inv, OneFile, ReaderSees
<1>11. EntriesNumbered' /\ HandlersHold' /\ StoredOnce'
  BY <1>1, <1>3 DEF Inv, EntriesNumbered, HandlersHold, StoredOnce
<1>12. WrittenIsKept'
  <2>1. Everything \cap Entry \subseteq Everything'
    BY <1>1, <1>3 DEF Everything
  <2>2. acked \subseteq Entry
        /\ \A c \in Conns : pc[c] \in {"newline", "answer"} => entry[c] \in Entry
    BY DEF Inv, Typed, HandlersHold
  <2>. QED  BY <1>1, <1>3, <2>1, <2>2 DEF Inv, WrittenIsKept
<1>. QED  BY <1>6, <1>8, <1>9, <1>10, <1>11, <1>12 DEF Inv

-----------------------------------------------------------------------------
(* The steps of the reader.                                                  *)

\* A load that does not fail returns the entries of the archive.
LEMMA Loaded ==
    ASSUME Inv, LoadArchiveLogs # ERROR
    PROVE  /\ main # NULL /\ main \in DOMAIN files /\ files[main] \in Seq(Unit)
           /\ LoadArchiveLogs = EntriesIn(files[main])
           /\ LoadArchiveLogs \in Seq(Entry)
<1>1. main # NULL /\ LoadArchiveLogs = EntriesIn(files[main])
  BY DEF LoadArchiveLogs
<1>2. main \in DOMAIN files /\ files[main] \in Seq(Unit)
  BY <1>1 DEF Inv, Typed
<1>. QED  BY <1>1, <1>2, EntriesAreEntries

\* Steps that change nothing but the reader.
LEMMA ReaderKeeps ==
    ASSUME Inv, UNCHANGED <<files, main, handlerVars, rotateVars, ghostVars, faults, restarts>>,
           ReaderSees'
    PROVE  Inv'
<1>1. Typed'
  BY DEF Inv, Typed
<1>2. /\ FilesCounted' /\ FilesNamed' /\ OneFile' /\ StoredOnce'
      /\ EntriesNumbered' /\ HandlersHold' /\ WrittenIsKept'
  BY DEF Inv, FilesCounted, FilesNamed, OneFile, StoredOnce, EntriesNumbered,
         HandlersHold, WrittenIsKept, Everything
<1>. QED  BY <1>1, <1>2 DEF Inv

\* A reader begins at the first page, with the logs there are.
LEMMA AskKeeps ==
    ASSUME Inv, NEW filter \in Filter, Ask(filter)
    PROVE  Inv'
<1>. DEFINE sel == Selected(LoadArchiveLogs, filter)
<1>1. /\ UNCHANGED <<files, main, handlerVars, rotateVars, ghostVars, faults, restarts>>
      /\ LoadArchiveLogs # ERROR
      /\ reader' = [turning |-> TRUE, filter |-> filter, page |-> 1, shown |-> <<>>,
                    goal |-> Range(sel), last |-> FALSE]
  BY DEF Ask
<1>2. sel \in Seq(Entry)
  BY <1>1, Loaded, SelectedAreLogs
<1>3. main # NULL /\ sel = Selected(EntriesIn(files[main]), filter) /\ reader'.filter = filter
  BY <1>1, Loaded
<1>. HIDE DEF sel
<1>4. reader' \in Readers /\ HasSeen(sel, reader')
  BY <1>1, <1>2, NothingSeen
<1>5. ReaderSees'
  BY <1>1, <1>3, <1>4 DEF ReaderSees
<1>. QED  BY <1>1, <1>4, <1>5, ReaderKeeps

\* A reader gets the next page, unless the load fails.
LEMMA TurnPageKeeps ==
    ASSUME Inv, TurnPage
    PROVE  Inv'
<1>. DEFINE logs == LoadArchiveLogs
            sel == Selected(logs, reader.filter)
            r2 == [reader EXCEPT
                     !.shown = @ \o PageOf(logs, reader.filter, reader.page, PageSize),
                     !.page = @ + 1,
                     !.last = reader.page * PageSize >= Len(sel)]
<1>1. /\ UNCHANGED <<files, main, handlerVars, rotateVars, ghostVars, faults, restarts>>
      /\ logs # ERROR /\ reader.turning /\ ~reader.last /\ reader' = r2
  BY DEF TurnPage
<1>2. logs \in Seq(Entry) /\ main # NULL /\ logs = EntriesIn(files[main])
  BY <1>1, Loaded
<1>3. reader \in Readers
  BY <1>1 DEF Inv, ReaderSees, Idle
<1>. HIDE DEF logs
<1>. HIDE DEF r2
<1>4. r2 \in Readers /\ r2.filter = reader.filter /\ r2.page # 0
  BY <1>2, <1>3, PageTurned DEF r2, sel, Inv, ReaderSees, Readers
<1>5. ReaderSees'
  <2>1. ASSUME rotations = 0  PROVE HasSeen(sel, r2)
    BY <1>1, <1>2, <1>3, <2>1, PageSeen DEF r2, sel, Inv, ReaderSees
  <2>. QED  BY <1>1, <1>2, <1>4, <2>1 DEF ReaderSees, sel
<1>. QED  BY <1>1, <1>4, <1>5, ReaderKeeps

\* A reader leaves.
LEMMA CloseKeeps ==
    ASSUME Inv, Close
    PROVE  Inv'
<1>1. /\ UNCHANGED <<files, main, handlerVars, rotateVars, ghostVars, faults, restarts>>
      /\ reader' = Idle
  BY DEF Close
<1>2. ReaderSees'
  BY <1>1 DEF ReaderSees, Idle
<1>. QED  BY <1>1, <1>2, ReaderKeeps

-----------------------------------------------------------------------------
(* The theorems.                                                             *)

\* No file, no handler and no reader.
LEMMA InitInv == Init => Inv
<1>. SUFFICES ASSUME Init  PROVE Inv
  OBVIOUS
<1>1. files \in Seq(Seq(Unit)) /\ Len(files) = 0 /\ DOMAIN files = {} /\ Units(files) = {}
  BY DEF Init, Units
<1>2. reader.turning = FALSE
  BY DEF Init, Idle
<1>3. Typed
  BY <1>1 DEF Init, Typed
<1>4. FilesCounted /\ FilesNamed /\ OneFile /\ StoredOnce
  BY <1>1 DEF Init, FilesCounted, FilesNamed, OneFile, StoredOnce, Once
<1>5. EntriesNumbered /\ HandlersHold /\ WrittenIsKept /\ ReaderSees
  BY <1>1, <1>2 DEF Init, EntriesNumbered, HandlersHold, WrittenIsKept, Everything, ReaderSees
<1>. QED  BY <1>3, <1>4, <1>5 DEF Inv

\* A step of no variable.
LEMMA StutterKeeps == Inv /\ UNCHANGED vars => Inv'
<1>. SUFFICES ASSUME Inv, UNCHANGED vars  PROVE Inv'
  OBVIOUS
<1>1. ReaderSees'
  BY DEF Inv, vars, ReaderSees
<1>. QED  BY <1>1, ReaderKeeps DEF vars

\* The inductive invariant.
THEOREM InvAlways == Spec => []Inv
<1>1. Inv /\ [Next]_vars => Inv'
  <2>. SUFFICES ASSUME Inv, [Next]_vars  PROVE Inv'
    OBVIOUS
  <2>1. CASE \E c \in Conns : \E a \in AgentIDs : Receive(c, a)
    BY <2>1, ReceiveKeeps
  <2>2. CASE \E c \in Conns : OpenArchive(c) \/ OpenFails(c)
    BY <2>2, OpenArchiveKeeps, OpenFailsKeeps
  <2>3. CASE \E c \in Conns : WriteEntry(c) \/ WriteEntryFails(c) \/ WriteNewline(c)
    BY <2>3, WriteEntryKeeps, WriteEntryFailsKeeps, WriteNewlineKeeps
  <2>4. CASE \E c \in Conns : Answer(c)
    BY <2>4, AnswerKeeps
  <2>5. CASE RestartServer
    BY <2>5, RestartServerKeeps
  <2>6. CASE RotateRemove \/ RotateRename \/ RotateCreate
    BY <2>6, RotateRemoveKeeps, RotateRenameKeeps, RotateCreateKeeps
  <2>7. CASE \E f \in Filter : Ask(f)
    BY <2>7, AskKeeps
  <2>8. CASE TurnPage \/ Close
    BY <2>8, TurnPageKeeps, CloseKeeps
  <2>9. CASE UNCHANGED vars
    BY <2>9, StutterKeeps
  <2>. QED  BY <2>1, <2>2, <2>3, <2>4, <2>5, <2>6, <2>7, <2>8, <2>9 DEF Next
<1>. QED  BY InitInv, <1>1, PTL DEF Spec

\* Types are kept: in particular no more files come to be than RotateLog was
\* called, and one.
THEOREM TypeCorrect == Spec => []TypeOK
<1>1. Inv => TypeOK
  BY DEF Inv, Typed, ReaderSees, Readers, TypeOK
<1>. QED  BY InvAlways, <1>1, PTL

\* However the two writes of the handlers fall between each other, and wherever
\* the server restarts, what was answered is decoded, once.
THEOREM AnsweredReadable == Spec => []AnsweredIsReadable
<1>1. Inv => AnsweredIsReadable
  <2>. SUFFICES ASSUME Inv, faults = 0, rotations = 0, main # NULL
                PROVE  /\ LoadArchiveLogs # ERROR
                       /\ acked \subseteq Range(LoadArchiveLogs)
                       /\ IsInjective(LoadArchiveLogs)
    BY DEF AnsweredIsReadable
  <2>. DEFINE units == files[main]
  <2>1. /\ main = 1 /\ DOMAIN files = {1} /\ truncated = {}
        /\ main \in DOMAIN files /\ units \in Seq(Unit)
    BY DEF Inv, Typed, OneFile
  <2>2. Units(files) = Range(units)
    BY <2>1 DEF Units
  <2>. HIDE DEF units
  <2>3. EntriesIn(units) \in Seq(Entry) /\ Range(EntriesIn(units)) = Range(units) \cap Entry
    BY <2>1, EntriesAreEntries
  <2>4. LoadArchiveLogs = EntriesIn(units)
    BY <2>2 DEF LoadArchiveLogs, units, Inv, WrittenIsKept
  <2>5. acked \subseteq Range(units) \cap Entry
    BY <2>1, <2>2 DEF Inv, WrittenIsKept, Everything, Typed
  <2>6. IsInjective(EntriesIn(units))
    <3>. DEFINE S == {i \in DOMAIN units : units[i] \in Entry}
    <3>1. S \subseteq DOMAIN units /\ \A i, j \in S : units[i] = units[j] => i = j
      BY <2>1 DEF units, Inv, StoredOnce, Once
    <3>. HIDE DEF S
    <3>2. IsInjective(Pick(units, S))
      BY <2>1, <3>1, PickIsInjective
    <3>. QED  BY <3>2 DEF EntriesIn, S
  <2>. QED  BY <2>3, <2>4, <2>5, <2>6, UnitAssumption
<1>. QED  BY InvAlways, <1>1, PTL

\* A reader who turns the pages to the end misses nothing that was there when he
\* began, and sees no entry of one agent twice, while messages arrive.
THEOREM PagingComplete == Spec => []PagingSkipsNothing
<1>1. Inv => PagingSkipsNothing
  <2>. SUFFICES ASSUME Inv, rotations = 0, reader.turning
                PROVE  /\ reader.last => reader.goal \subseteq Range(reader.shown)
                       /\ reader.filter # NULL => IsInjective(reader.shown)
    BY DEF PagingSkipsNothing
  <2>. DEFINE units == files[main]
              sel == Selected(EntriesIn(units), reader.filter)
  <2>1. main # NULL /\ HasSeen(sel, reader)
    BY DEF Inv, ReaderSees
  <2>2. main \in DOMAIN files /\ units \in Seq(Unit)
    BY <2>1 DEF Inv, Typed
  <2>3. IsInjective(EntriesIn(units))
    <3>. DEFINE S == {i \in DOMAIN units : units[i] \in Entry}
    <3>1. S \subseteq DOMAIN units /\ \A i, j \in S : units[i] = units[j] => i = j
      BY <2>2 DEF Inv, StoredOnce, Once
    <3>. HIDE DEF S, units
    <3>2. IsInjective(Pick(units, S))
      BY <2>2, <3>1, PickIsInjective
    <3>. QED  BY <3>2 DEF EntriesIn, S
  <2>. HIDE DEF units
  <2>4. sel \in Seq(Entry) /\ IsInjective(sel)
    BY <2>2, <2>3, EntriesAreEntries, SelectedAreLogs
  <2>. HIDE DEF sel
  <2>5. reader.filter # NULL => IsInjective(reader.shown)
    <3>. SUFFICES ASSUME NEW m \in 0..Len(sel), reader.shown = SubSeq(sel, 1, m)
                  PROVE  IsInjective(reader.shown)
      BY <2>1 DEF HasSeen
    <3>1. DOMAIN reader.shown = 1..m /\ \A i \in 1..m : reader.shown[i] = sel[i]
      BY <2>4
    <3>2. 1..m \subseteq DOMAIN sel
      BY <2>4
    <3>. QED  BY <2>4, <3>1, <3>2 DEF IsInjective
  <2>. QED  BY <2>1, <2>5 DEF HasSeen
<1>. QED  BY InvAlways, <1>1, PTL

\* The pages of an archive, put together, are its answer without paging: what
\* PagesMakeTheSelected shows for any sequence of logs and any size of page.
THEOREM PagesTheWhole == Spec => []PagesMakeTheWhole
<1>1. Inv => PagesMakeTheWhole
  <2>. SUFFICES ASSUME Inv, LoadArchiveLogs # ERROR,
                       NEW filter \in Filter, NEW pageSize \in 1..3
                PROVE  LET whole == Selected(LoadArchiveLogs, filter)
                           pages == [p \in 1..(Len(whole) + 1) |->
                                       PageOf(LoadArchiveLogs, filter, p, pageSize)]
                       IN  FlattenSeq(pages) = IF filter = NULL THEN Reverse(whole) ELSE whole
    BY DEF PagesMakeTheWhole
  <2>1. LoadArchiveLogs \in Seq(Entry)
    BY Loaded
  <2>2. pageSize \in Nat \ {0}
    OBVIOUS
  <2>. QED  BY <2>1, <2>2, PagesMakeTheSelected
<1>. QED  BY InvAlways, <1>1, PTL

\* Rotations keep the two files apart, and without failed writes they lose
\* nothing that is not in a file they removed or truncated.
THEOREM RotationAccounted == Spec => []RotationAccounts
<1>1. Inv => RotationAccounts
  <2>. SUFFICES ASSUME Inv  PROVE RotationAccounts
    OBVIOUS
  <2>1. \A f \in DOMAIN files : f # NULL /\ StoredIn(f) = Range(files[f]) \cap Entry
    <3>. TAKE f \in DOMAIN files
    <3>1. f # NULL /\ files[f] \in Seq(Unit)
      BY DEF Inv, Typed
    <3>. QED  BY <3>1, EntriesAreEntries DEF StoredIn
  <2>2. StoredIn(main) \cap StoredIn(old) = {}
    <3>1. CASE main = NULL \/ old = NULL
      BY <3>1 DEF StoredIn
    <3>2. CASE main # NULL /\ old # NULL
      <4>1. main \in DOMAIN files /\ old \in DOMAIN files /\ main # old
        BY <3>2 DEF Inv, Typed
      <4>2. Range(files[main]) \cap Range(files[old]) \cap Entry = {}
        BY <4>1 DEF Inv, StoredOnce, Once, Range
      <4>. QED  BY <2>1, <4>1, <4>2
    <3>. QED  BY <3>1, <3>2
  <2>3. ASSUME faults = 0, NEW e \in acked
        PROVE  e \in StoredIn(main) \cup StoredIn(old) \cup truncated
                       \cup UNION {StoredIn(f) : f \in removed}
    <3>1. e \in Entry /\ e \in truncated \cup Units(files)
      BY <2>3 DEF Inv, Typed, WrittenIsKept, Everything
    <3>2. CASE e \in Units(files)
      <4>1. PICK f \in DOMAIN files : e \in Range(files[f])
        BY <3>2 DEF Units
      <4>2. e \in StoredIn(f)
        BY <2>1, <3>1, <4>1
      <4>. QED  BY <4>2 DEF Inv, FilesNamed
    <3>. QED  BY <3>1, <3>2
  <2>. QED  BY <2>2, <2>3 DEF RotationAccounts
<1>. QED  BY InvAlways, <1>1, PTL
=============================================================================
