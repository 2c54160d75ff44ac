---------------------------- MODULE BlockListProofs ---------------------------
(***************************************************************************)
(* What the list operations of BlockLists return, for every list.  None of *)
(* the proofs is by induction: a kept element's rank is an injection into  *)
(* the positions of the result, and the pigeonhole principle of            *)
(* FiniteSetTheorems makes it onto.                                        *)
(***************************************************************************)
EXTENDS BlockLists, FiniteSetTheorems, TLAPS

\* Membership in the elements of a list.
LEMMA InRange ==
    ASSUME NEW T, NEW s \in Seq(T)
    PROVE  /\ \A i \in 1 .. Len(s) : s[i] \in Range(s)
           /\ \A x \in Range(s) : x \in T /\ \E i \in 1 .. Len(s) : s[i] = x
BY DEF Range

\* The empty list has no elements and is neutral for joining.
LEMMA EmptyList ==
    ASSUME NEW T
    PROVE  /\ Range(<<>>) = {} /\ IsInjective(<<>>) /\ <<>> \in Seq(T) /\ Len(<<>>) = 0
           /\ \A s \in Seq(T) : <<>> \o s = s /\ s \o <<>> = s
           /\ \A s \in Seq(T) : Len(s) = 0 => s = <<>>
<1>1. Range(<<>>) = {} /\ IsInjective(<<>>)
  BY DEF Range, IsInjective
<1>2. <<>> \in Seq(T) /\ Len(<<>>) = 0
  OBVIOUS
<1>3. \A s \in Seq(T) : <<>> \o s = s
  OBVIOUS
<1>4. \A s \in Seq(T) : s \o <<>> = s
  OBVIOUS
<1>5. \A s \in Seq(T) : Len(s) = 0 => s = <<>>
  OBVIOUS
<1> QED
  BY <1>1, <1>2, <1>3, <1>4, <1>5

\* The size of an interval that starts at 1.
LEMMA IntervalSize ==
    ASSUME NEW n \in Nat
    PROVE  IsFiniteSet(1 .. n) /\ Cardinality(1 .. n) = n
BY FS_Interval

\* The positions of a list that hold a member of S are finitely many.
LEMMA PositionsFinite ==
    ASSUME NEW T, NEW s \in Seq(T), NEW S
    PROVE  /\ PositionsOf(s, S) \subseteq 1 .. Len(s)
           /\ PositionsOf(s, S) \in SUBSET Nat
           /\ IsFiniteSet(PositionsOf(s, S))
           /\ Cardinality(PositionsOf(s, S)) \in Nat
<1>1. PositionsOf(s, S) \subseteq 1 .. Len(s) /\ PositionsOf(s, S) \in SUBSET Nat
  BY DEF PositionsOf
<1>2. Len(s) \in Nat
  OBVIOUS
<1>3. IsFiniteSet(PositionsOf(s, S))
  BY <1>1, <1>2, IntervalSize, FS_Subset
<1> QED
  BY <1>1, <1>3, FS_CardinalityType

\* Rank numbers the members of a finite set of positions 1, 2, ... without
\* repetition and without gaps.
LEMMA RankIsBijection ==
    ASSUME NEW at \in SUBSET Nat, IsFiniteSet(at)
    PROVE  /\ \A i \in at : Rank(at, i) \in 1 .. Cardinality(at)
           /\ \A i, j \in at : Rank(at, i) = Rank(at, j) => i = j
           /\ \A k \in 1 .. Cardinality(at) : \E i \in at : Rank(at, i) = k
<1> DEFINE below(i) == {j \in at : j <= i}
           N == Cardinality(at)
           f == [i \in at |-> Rank(at, i)]
<1>1. N \in Nat
  BY FS_CardinalityType
<1>2. ASSUME NEW i \in at
      PROVE  IsFiniteSet(below(i)) /\ Rank(at, i) \in 1 .. N
  <2>1. below(i) \subseteq at /\ i \in below(i)
    OBVIOUS
  <2>2. IsFiniteSet(below(i)) /\ Cardinality(below(i)) <= N
    BY <2>1, FS_Subset
  <2>3. Cardinality(below(i)) \in Nat /\ Cardinality(below(i)) # 0
    BY <2>1, <2>2, FS_CardinalityType, FS_EmptySet
  <2> QED
    BY <2>2, <2>3, <1>1 DEF Rank
<1>3. ASSUME NEW i \in at, NEW j \in at, i < j
      PROVE  Rank(at, i) # Rank(at, j)
  <2>1. \A k \in at : k <= i => k <= j
    BY <1>3
  <2>2. j \in below(j) /\ j \notin below(i)
    BY <1>3
  <2>3. below(i) \subseteq below(j)
    BY Zenon, <2>1
  <2>4. IsFiniteSet(below(j))
    BY <1>2
  <2> QED
    BY <2>2, <2>3, <2>4, FS_Subset DEF Rank
<1>4. \A i, j \in at : Rank(at, i) = Rank(at, j) => i = j
  BY <1>3
<1>5. IsFiniteSet(1 .. N) /\ Cardinality(1 .. N) = N
  BY <1>1, IntervalSize
<1>6. f \in Injection(at, 1 .. N)
  BY Zenon, <1>2, <1>4 DEF Injection, IsInjective
<1>7. f \in Surjection(at, 1 .. N)
  BY <1>5, <1>6, FS_Injection
<1>8. \A k \in 1 .. N : \E i \in at : Rank(at, i) = k
  BY Zenon, <1>7 DEF Surjection
<1> QED
  BY Zenon, <1>2, <1>4, <1>8

\* Keeping the members of S of a list without repetitions: the result is a
\* list without repetitions of exactly those members.
LEMMA KeepProperties ==
    ASSUME NEW T, NEW s \in Seq(T), IsInjective(s), NEW S
    PROVE  /\ Keep(s, S) \in Seq(T)
           /\ Len(Keep(s, S)) = Cardinality(PositionsOf(s, S))
           /\ IsInjective(Keep(s, S))
           /\ Range(Keep(s, S)) = Range(s) \cap S
<1> DEFINE at == PositionsOf(s, S)
           N == Cardinality(at)
           pick(k) == CHOOSE i \in at : Rank(at, i) = k
<1>1. at \in SUBSET Nat /\ at \subseteq 1 .. Len(s) /\ IsFiniteSet(at) /\ N \in Nat
  BY PositionsFinite
<1>2. \A i \in at : Rank(at, i) \in 1 .. N
  BY <1>1, RankIsBijection
<1>3. \A i, j \in at : Rank(at, i) = Rank(at, j) => i = j
  BY <1>1, RankIsBijection
<1>4. \A k \in 1 .. N : pick(k) \in at /\ Rank(at, pick(k)) = k
  BY <1>1, RankIsBijection
<1>5. \A i \in at : pick(Rank(at, i)) = i
  BY <1>2, <1>3, <1>4
<1>6. Keep(s, S) = [k \in 1 .. N |-> s[pick(k)]]
  BY DEF Keep
<1>7. \A i \in at : s[i] \in T /\ s[i] \in S
  BY <1>1 DEF PositionsOf
<1>8. \A i \in 1 .. Len(s) : s[i] \in S => i \in at
  BY DEF PositionsOf
<1>0. \A i \in at : i \in DOMAIN s
  BY DEF PositionsOf
<1> HIDE DEF at, N, pick
<1>9. \A k \in 1 .. N : s[pick(k)] \in T
  BY <1>4, <1>7
<1>10. Keep(s, S) \in Seq(T) /\ Len(Keep(s, S)) = N /\ DOMAIN Keep(s, S) = 1 .. N
  BY <1>1, <1>6, <1>9
<1>11. \A k \in 1 .. N : Keep(s, S)[k] = s[pick(k)]
  BY <1>6
<1>12. IsInjective(Keep(s, S))
  <2>1. ASSUME NEW k \in 1 .. N, NEW m \in 1 .. N, s[pick(k)] = s[pick(m)]
        PROVE  k = m
    <3>1. pick(k) \in at /\ pick(m) \in at
      BY <1>4
    <3>2. pick(k) \in DOMAIN s /\ pick(m) \in DOMAIN s
      BY <3>1, <1>0
    <3>3. pick(k) = pick(m)
      BY <2>1, <3>2 DEF IsInjective
    <3> QED
      BY <3>3, <1>4
  <2> QED
    BY <2>1, <1>10, <1>11 DEF IsInjective
<1>13. ASSUME NEW x \in Range(Keep(s, S)) PROVE x \in Range(s) \cap S
  <2>1. PICK k \in 1 .. N : s[pick(k)] = x
    BY <1>10, <1>11, InRange
  <2> QED
    BY Zenon, <2>1, <1>1, <1>4, <1>7, InRange
<1>14. ASSUME NEW x \in Range(s) \cap S PROVE x \in Range(Keep(s, S))
  <2>1. PICK i \in 1 .. Len(s) : s[i] = x
    BY InRange
  <2>2. i \in at
    BY <2>1, <1>8
  <2>3. Keep(s, S)[Rank(at, i)] = x
    BY <2>1, <2>2, <1>2, <1>5, <1>11
  <2> QED
    BY <2>2, <2>3, <1>2, <1>10, InRange
<1> QED
  BY <1>10, <1>12, <1>13, <1>14 DEF at, N

\* A loop that stops at the first position outside S never counts past S.
LEMMA LeadingRunProperties ==
    ASSUME NEW n \in Nat, NEW S \in SUBSET (1 .. n)
    PROVE  LeadingRun(S) \in 0 .. n /\ \A i \in 1 .. LeadingRun(S) : i \in S
<1> DEFINE P == {i \in S : 1 .. i \subseteq S}
           c == Cardinality(P)
<1>1. IsFiniteSet(P) /\ c \in Nat /\ c <= n
  BY IntervalSize, FS_Subset, FS_CardinalityType, P \subseteq 1 .. n
<1>2. \A i, j \in 1 .. n : i \in P /\ j <= i => j \in P
  <2>1. ASSUME NEW i \in P, NEW j \in 1 .. n, j <= i PROVE j \in P
    <3>1. 1 .. j \subseteq 1 .. i /\ j \in 1 .. i
      BY <2>1
    <3> QED
      BY <3>1
  <2> QED
    BY <2>1
<1>3. \A i \in P : i \in 1 .. n
  OBVIOUS
<1> HIDE DEF P
<1>4. ASSUME NEW i \in 1 .. n, i <= c, i \notin P PROVE FALSE
  <2> DEFINE m == i - 1
  <2>1. m \in Nat /\ m < c
    BY <1>1, <1>4
  <2>2. \A j \in P : j \in 1 .. m
    BY <1>2, <1>3, <1>4
  <2> HIDE DEF m
  <2>3. IsFiniteSet(1 .. m) /\ Cardinality(1 .. m) = m
    BY <2>1, IntervalSize
  <2>4. P \in SUBSET (1 .. m)
    BY <2>2
  <2>5. c <= m
    BY Zenon, <2>3, <2>4, FS_Subset
  <2> QED
    BY <1>1, <2>1, <2>5
<1>5. \A i \in 1 .. c : i \in P
  BY <1>1, <1>4
<1> QED
  BY <1>1, <1>5 DEF LeadingRun, P

\* A list without repetitions is as long as the set of its elements is large.
LEMMA LenIsCardinality ==
    ASSUME NEW T, NEW s \in Seq(T), IsInjective(s)
    PROVE  IsFiniteSet(Range(s)) /\ Cardinality(Range(s)) = Len(s)
<1>1. s \in Bijection(1 .. Len(s), Range(s))
  BY DEF Bijection, Injection, Surjection, Range, IsInjective
<1>2. Len(s) \in Nat
  OBVIOUS
<1>3. ExistsBijection(1 .. Len(s), Range(s))
  BY <1>1 DEF ExistsBijection
<1> QED
  BY <1>2, <1>3, IntervalSize, FS_Bijection

\* Reversing a list keeps its elements.
LEMMA ReverseProperties ==
    ASSUME NEW T, NEW s \in Seq(T)
    PROVE  /\ Reversed(s) \in Seq(T)
           /\ Range(Reversed(s)) = Range(s)
           /\ IsInjective(s) => IsInjective(Reversed(s))
<1> DEFINE n == Len(s)
<1>1. Reversed(s) \in Seq(T) /\ Len(Reversed(s)) = n /\ DOMAIN Reversed(s) = 1 .. n
  BY DEF Reversed
<1>2. \A i \in 1 .. n : Reversed(s)[i] = s[n - i + 1] /\ n - i + 1 \in 1 .. n
  BY DEF Reversed
<1>3. \A i \in 1 .. n : s[i] = Reversed(s)[n - i + 1]
  BY <1>2
<1>4. ASSUME NEW x \in Range(Reversed(s)) PROVE x \in Range(s)
  <2>1. PICK i \in 1 .. n : Reversed(s)[i] = x
    BY <1>1, InRange
  <2> QED
    BY <2>1, <1>2, InRange
<1>5. ASSUME NEW x \in Range(s) PROVE x \in Range(Reversed(s))
  <2>1. PICK i \in 1 .. n : s[i] = x
    BY InRange
  <2>2. n - i + 1 \in 1 .. n /\ Reversed(s)[n - i + 1] = x
    BY <2>1, <1>3
  <2> QED
    BY Zenon, <2>2, <1>1, InRange
<1>6. ASSUME IsInjective(s), NEW a \in 1 .. n, NEW b \in 1 .. n, Reversed(s)[a] = Reversed(s)[b]
      PROVE  a = b
  <2> DEFINE c == n - a + 1
             d == n - b + 1
  <2>0. c \in DOMAIN s /\ d \in DOMAIN s /\ s[c] = s[d]
    BY <1>2, <1>6
  <2> HIDE DEF c, d
  <2>2. c = d
    BY <1>6, <2>0 DEF IsInjective
  <2>1. n - a + 1 = n - b + 1
    BY <2>2 DEF c, d
  <2> QED
    BY <2>1
<1>7. IsInjective(s) => IsInjective(Reversed(s))
  BY <1>1, <1>6 DEF IsInjective
<1> QED
  BY Zenon, <1>1, <1>4, <1>5, <1>7

\* Joining two lists; without repetitions if they have no element in common.
LEMMA JoinProperties ==
    ASSUME NEW T, NEW s \in Seq(T), NEW t \in Seq(T)
    PROVE  /\ s \o t \in Seq(T)
           /\ Len(s \o t) = Len(s) + Len(t)
           /\ Range(s \o t) = Range(s) \cup Range(t)
           /\ IsInjective(s) /\ IsInjective(t) /\ Range(s) \cap Range(t) = {}
                 => IsInjective(s \o t)
<1>1. s \o t \in Seq(T) /\ Len(s \o t) = Len(s) + Len(t)
  OBVIOUS
<1>2. \A i \in 1 .. Len(s) + Len(t) : (s \o t)[i] \in Range(s \o t)
  BY Zenon, <1>1, InRange
<1>3. ASSUME NEW x \in Range(s) PROVE x \in Range(s \o t)
  <2>1. PICK i \in 1 .. Len(s) : s[i] = x
    BY InRange
  <2>2. (s \o t)[i] = x /\ i \in 1 .. Len(s) + Len(t)
    BY <2>1
  <2> QED
    BY <2>2, <1>2
<1>4. ASSUME NEW x \in Range(t) PROVE x \in Range(s \o t)
  <2>1. PICK i \in 1 .. Len(t) : t[i] = x
    BY InRange
  <2>2. (s \o t)[Len(s) + i] = x /\ Len(s) + i \in 1 .. Len(s) + Len(t)
    BY <2>1
  <2> QED
    BY <2>2, <1>2
<1>5. \A i \in 1 .. Len(s) + Len(t) :
         /\ (s \o t)[i] = IF i <= Len(s) THEN s[i] ELSE t[i - Len(s)]
         /\ i > Len(s) => i - Len(s) \in 1 .. Len(t)
  OBVIOUS
<1>6. ASSUME NEW x \in Range(s \o t) PROVE x \in Range(s) \cup Range(t)
  <2>1. PICK i \in 1 .. Len(s) + Len(t) : (s \o t)[i] = x
    <3> DEFINE u == s \o t
    <3>1. u \in Seq(T) /\ Len(u) = Len(s) + Len(t) /\ x \in Range(u)
      BY <1>1
    <3> HIDE DEF u
    <3>2. \E i \in 1 .. Len(u) : u[i] = x
      BY SMTT(40), <3>1, InRange
    <3> QED
      BY <3>1, <3>2 DEF u
  <2> QED
    BY <2>1, <1>5, InRange
<1>7. ASSUME IsInjective(s), IsInjective(t), Range(s) \cap Range(t) = {},
             NEW a \in 1 .. Len(s) + Len(t), NEW b \in 1 .. Len(s) + Len(t),
             (s \o t)[a] = (s \o t)[b]
      PROVE  a = b
  <2>1. \A i \in 1 .. Len(s), j \in 1 .. Len(t) : s[i] # t[j]
    BY <1>7, InRange
  <2>2. \A i, j \in 1 .. Len(s) : s[i] = s[j] => i = j
    BY <1>7 DEF IsInjective
  <2>3. \A i, j \in 1 .. Len(t) : t[i] = t[j] => i = j
    BY <1>7 DEF IsInjective
  <2> QED
    BY <1>5, <1>7, <2>1, <2>2, <2>3
<1>8. IsInjective(s) /\ IsInjective(t) /\ Range(s) \cap Range(t) = {} => IsInjective(s \o t)
  BY <1>1, <1>7 DEF IsInjective
<1> QED
  BY <1>1, <1>3, <1>4, <1>6, <1>8

\* front is the first n elements of the list s, back the others.
IsSplit(T, s, n, front, back) ==
    /\ front \in Seq(T) /\ back \in Seq(T) /\ n \in 0 .. Len(s)
    /\ Len(front) = n /\ Len(back) = Len(s) - n
    /\ \A i \in 1 .. n : front[i] = s[i]
    /\ \A i \in 1 .. Len(s) - n : back[i] = s[n + i]

\* popleft_n takes the first n elements of the free queue.
LEMMA PopleftSplits ==
    ASSUME NEW T, NEW s \in Seq(T), NEW n \in 0 .. Len(s),
           NEW front, front = SubSeq(s, 1, n),
           NEW back, back = SubSeq(s, n + 1, Len(s))
    PROVE  IsSplit(T, s, n, front, back)
<1>1. front \in Seq(T) /\ Len(front) = n /\ \A i \in 1 .. n : front[i] = s[i]
  OBVIOUS
<1>2. /\ back \in Seq(T) /\ Len(back) = Len(s) - n
      /\ \A i \in 1 .. Len(s) - n : back[i] = s[n + i]
  OBVIOUS
<1> QED
  BY <1>1, <1>2 DEF IsSplit

\* Splitting a list without repetitions in two.
LEMMA SplitProperties ==
    ASSUME NEW T, NEW s \in Seq(T), IsInjective(s), NEW n,
           NEW front, NEW back, IsSplit(T, s, n, front, back)
    PROVE  /\ IsInjective(front) /\ IsInjective(back)
           /\ Range(back) = Range(s) \ Range(front)
           /\ Range(front) \subseteq Range(s)
<1>0. n \in 0 .. Len(s)
  BY DEF IsSplit
<1>1. front \in Seq(T) /\ Len(front) = n /\ \A i \in 1 .. n : front[i] = s[i]
  BY DEF IsSplit
<1>2. /\ back \in Seq(T) /\ Len(back) = Len(s) - n
      /\ \A i \in 1 .. Len(s) - n : back[i] = s[n + i]
  BY DEF IsSplit
<1>3. \A i, j \in 1 .. Len(s) : s[i] = s[j] => i = j
  BY DEF IsInjective
<1>4. /\ \A i \in 1 .. n : front[i] \in Range(front)
      /\ \A x \in Range(front) : \E i \in 1 .. n : front[i] = x
  BY <1>1, InRange
<1>5. /\ \A i \in 1 .. Len(s) - n : back[i] \in Range(back)
      /\ \A x \in Range(back) : \E i \in 1 .. Len(s) - n : back[i] = x
  BY <1>2, InRange
<1>6. IsInjective(front)
  BY <1>0, <1>1, <1>3 DEF IsInjective
<1>7. IsInjective(back)
  <2>1. ASSUME NEW a \in 1 .. Len(s) - n, NEW b \in 1 .. Len(s) - n, back[a] = back[b]
        PROVE  a = b
    <3>1. n + a \in 1 .. Len(s) /\ n + b \in 1 .. Len(s)
      BY <1>0
    <3>2. n + a = n + b
      BY <1>2, <1>3, <2>1, <3>1
    <3> QED
      BY <1>0, <3>2
  <2>2. DOMAIN back = 1 .. Len(s) - n
    BY <1>2
  <2> QED
    BY <2>1, <2>2 DEF IsInjective
<1>8. ASSUME NEW x \in Range(front) PROVE x \in Range(s) /\ x \notin Range(back)
  <2>1. PICK i \in 1 .. n : front[i] = x
    BY <1>4
  <2>2. i \in 1 .. Len(s) /\ s[i] = x
    BY <1>0, <1>1, <2>1
  <2>3. \A j \in 1 .. Len(s) - n : back[j] # x
    BY <1>0, <1>2, <1>3, <2>1, <2>2
  <2> QED
    BY <1>5, <2>2, <2>3, InRange
<1>9. ASSUME NEW x \in Range(back) PROVE x \in Range(s)
  <2>1. PICK i \in 1 .. Len(s) - n : back[i] = x
    BY <1>5
  <2>2. n + i \in 1 .. Len(s) /\ s[n + i] = x
    BY <1>0, <1>2, <2>1
  <2> QED
    BY <2>2, InRange
<1>10. ASSUME NEW x \in Range(s), x \notin Range(front) PROVE x \in Range(back)
  <2>1. PICK i \in 1 .. Len(s) : s[i] = x
    BY InRange
  <2>2. i \notin 1 .. n
    BY <1>1, <1>4, <1>10, <2>1
  <2>3. i - n \in 1 .. Len(s) - n /\ back[i - n] = x
    BY <1>0, <1>2, <2>1, <2>2
  <2> QED
    BY <1>5, <2>3
<1> QED
  BY <1>1, <1>2, <1>6, <1>7, <1>8, <1>9, <1>10
===============================================================================
