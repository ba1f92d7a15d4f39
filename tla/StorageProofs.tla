---------------------------- MODULE StorageProofs ----------------------------
(***************************************************************************)
(* PartManifest: the interval list is the set of bytes recorded, whatever  *)
(* the length of the resource and the grids it is filled along.  Then      *)
(* PartManifest beside DiskGuard, as MCStorage runs them.                  *)
(***************************************************************************)
EXTENDS MCStorage, DiskGuardProofs, SequenceTheorems, TLAPS

-----------------------------------------------------------------------------
(* What induction is needed here goes by the least counterexample.         *)
LEMMA LeastNumber ==
  ASSUME NEW S \in SUBSET Nat, S # {}
  PROVE  \E n \in S : \A k \in S : n <= k
<1> DEFINE less == OpToRel(<, Nat)
<1>1. \A i, j \in Nat : ~(<<i, j>> \in less) => j <= i
  BY DEF OpToRel
<1>2. IsWellFoundedOn(less, Nat)
  BY NatLessThanWellFounded, Zenon
<1> HIDE DEF less
<1>3. PICK n \in S : \A k \in S : ~(<<k, n>> \in less)
  BY <1>2, WFMin
<1>4. QED
  BY <1>1, <1>3

-----------------------------------------------------------------------------
(* FoldLeft calls a recursive function on the sets of places of a list.    *)
(* There is one, for each prefix, made from that of the prefix before it.  *)
Merging(g, s, q) == [u \in SUBSET s |->
  IF u = {} THEN <<>> ELSE Merge(g[u \ {Max(u)}], q[Max(u)])]

LEMMA LastPlace == ASSUME NEW k \in Nat, NEW u \in SUBSET (1..k), k \in u PROVE Max(u) = k
<1>1. \A y \in u : k >= y
  OBVIOUS
<1>2. \A x \in u : (\A y \in u : x >= y) => x = k
  OBVIOUS
<1>3. QED
  BY <1>1, <1>2 DEF Max

LEMMA MergingExists ==
  ASSUME NEW q, NEW n \in Nat
  PROVE  \E g : g = Merging(g, 1..n, q)
<1> DEFINE bad == {k \in Nat : ~ \E g : g = Merging(g, 1..k, q)}
<1> SUFFICES ASSUME bad # {} PROVE FALSE
  OBVIOUS
<1>1. PICK k \in bad : \A i \in bad : k <= i
  BY LeastNumber
<1>2. CASE k = 0
  <2> DEFINE g == [u \in SUBSET (1..0) |-> <<>>]
  <2>1. \A u \in SUBSET (1..0) : u = {}
    OBVIOUS
  <2>2. g = Merging(g, 1..0, q)
    BY <2>1 DEF Merging
  <2>3. QED
    BY <1>1, <1>2, <2>2
<1>3. CASE k # 0
  <2>1. k - 1 \in Nat /\ k - 1 \notin bad
    BY <1>1, <1>3
  <2>2. PICK h : h = Merging(h, 1..(k - 1), q)
    BY <2>1
  <2> DEFINE g == [u \in SUBSET (1..k) |->
                     IF k \in u THEN Merge(h[u \ {k}], q[k]) ELSE h[u]]
  <2>3. \A u \in SUBSET (1..k) : k \notin u => u \in SUBSET (1..(k - 1))
    BY <2>1
  <2>4. \A u \in SUBSET (1..(k - 1)) : g[u] = h[u]
    BY <2>1
  <2>5. ASSUME NEW u \in SUBSET (1..k)
        PROVE  g[u] = IF u = {} THEN <<>> ELSE Merge(g[u \ {Max(u)}], q[Max(u)])
    <3>1. CASE k \in u
      <4>1. Max(u) = k /\ u \ {k} \in SUBSET (1..(k - 1))
        BY <3>1, <2>3, LastPlace
      <4>2. g[u \ {k}] = h[u \ {k}]
        BY <2>4, <4>1
      <4>3. QED
        BY <3>1, <4>1, <4>2
    <3>2. CASE k \notin u
      <4>1. u \in SUBSET (1..(k - 1)) /\ u \ {Max(u)} \in SUBSET (1..(k - 1))
        BY <3>2, <2>3
      <4>2. g[u] = h[u] /\ g[u \ {Max(u)}] = h[u \ {Max(u)}]
        BY <2>4, <4>1
      <4>3. h[u] = IF u = {} THEN <<>> ELSE Merge(h[u \ {Max(u)}], q[Max(u)])
        BY <2>2, <4>1, Zenon DEF Merging
      <4> HIDE DEF g
      <4>4. QED
        BY <4>2, <4>3
    <3>3. QED
      BY <3>1, <3>2
  <2>6. g = Merging(g, 1..k, q)
    BY <2>5, Zenon DEF Merging
  <2>7. QED
    BY <1>1, <2>6
<1>4. QED
  BY <1>2, <1>3

LEMMA FoldMerge ==
  ASSUME NEW n \in Nat, NEW q, DOMAIN q = 1..n
  PROVE  \E F : /\ F[0] = <<>>
                /\ \A k \in 1..n : F[k] = Merge(F[k - 1], q[k])
                /\ FoldLeft(Merge, <<>>, q) = F[n]
<1> DEFINE g == CHOOSE h : h = Merging(h, DOMAIN q, q)
           F == [k \in 0..n |-> g[1..k]]
<1>1. FoldLeft(Merge, <<>>, q) = g[DOMAIN q]
  BY DEF FoldLeft, MapThenFoldSet, Merging
<1>2. g = Merging(g, 1..n, q)
  BY MergingExists
<1> HIDE DEF g
<1>3. F[0] = <<>>
  <2>1. 1..0 = {}
    OBVIOUS
  <2>2. g[{}] = <<>>
    BY <1>2 DEF Merging
  <2>3. QED
    BY <2>1, <2>2
<1>4. ASSUME NEW k \in 1..n PROVE F[k] = Merge(F[k - 1], q[k])
  <2>1. 1..k \in SUBSET (1..n) /\ 1..k # {} /\ Max(1..k) = k /\ (1..k) \ {k} = 1..(k - 1)
    BY LastPlace
  <2>2. g[1..k] = Merge(g[(1..k) \ {Max(1..k)}], q[Max(1..k)])
    BY <1>2, <2>1 DEF Merging
  <2>3. F[k] = g[1..k] /\ F[k - 1] = g[1..(k - 1)]
    OBVIOUS
  <2>4. QED
    BY <2>1, <2>2, <2>3, Zenon
<1>5. FoldLeft(Merge, <<>>, q) = F[n]
  BY <1>1
<1> HIDE DEF F
<1>6. QED
  BY <1>3, <1>4, <1>5

-----------------------------------------------------------------------------
(* The normal form: proper intervals, in order, a byte or more between any *)
(* two.                                                                    *)
Proper(c) == c \in Bytes \X Bytes /\ c[1] <= c[2]
Normal(list) ==
  /\ list \in Seq(Bytes \X Bytes)
  /\ \A k \in 1..Len(list) : list[k][1] <= list[k][2]
  /\ \A i, j \in 1..Len(list) : i < j => list[i][2] + 1 < list[j][1]

LEMMA NormalStarts ==
  ASSUME NEW list, Normal(list), NEW i \in 1..Len(list), NEW j \in 1..Len(list), i <= j
  PROVE  /\ Len(list) \in Nat /\ DOMAIN list = 1..Len(list)
         /\ list[i] \in Bytes \X Bytes /\ list[j] \in Bytes \X Bytes
         /\ list[i][1] \in Int /\ list[i][2] \in Int /\ list[j][1] \in Int /\ list[j][2] \in Int
         /\ list[i][1] <= list[j][1] /\ list[i][2] <= list[j][2]
BY LenProperties, ElementOfSeq DEF Normal, Bytes

(* One step of the merge.                                                  *)
LEMMA MergeKeeps ==
  ASSUME NEW list, Normal(list), NEW c, Proper(c),
         list # <<>> => Last(list)[1] <= c[1]
  PROVE  /\ Normal(Merge(list, c)) /\ Merge(list, c) # <<>>
         /\ Denotes(Merge(list, c)) = Denotes(list) \cup Interval(c)
         /\ Last(Merge(list, c))[1] <= c[1]
<1> DEFINE n == Len(list)
<1>0. n \in Nat
  BY LenProperties DEF Normal
<1>1. n \in Nat /\ DOMAIN list = 1..n /\ \A k \in 1..n : list[k] \in Bytes \X Bytes
  BY LenProperties, ElementOfSeq DEF Normal
<1>2. c \in Bytes \X Bytes /\ c[1] \in Int /\ c[2] \in Int
  BY DEF Proper, Bytes
<1>3. \A k \in 1..n : list[k][1] \in Int /\ list[k][2] \in Int
  BY <1>1 DEF Bytes
<1>4. list # <<>> => n \in 1..n
  BY <1>1, EmptySeq DEF Normal
<1>5. CASE ~(list # <<>> /\ Touches(Last(list), c))
  <2> DEFINE m == Append(list, c)
  <2>1. Merge(list, c) = m
    BY <1>5 DEF Merge
  <2>2. /\ m \in Seq(Bytes \X Bytes) /\ Len(m) = n + 1 /\ m[n + 1] = c
        /\ \A k \in 1..n : m[k] = list[k]
    BY <1>2, AppendProperties DEF Normal
  <2>3. DOMAIN m = 1..(n + 1)
    BY <2>2, LenProperties
  <2> HIDE DEF m
  <2>4. \A k \in 1..n : list[k][2] + 1 < c[1]
    <3>1. SUFFICES ASSUME NEW k \in 1..n PROVE list[k][2] + 1 < c[1]
      OBVIOUS
    <3>2. list # <<>>
      BY <1>1, EmptySeq
    <3>3. list[n][2] + 1 < c[1]
      BY <1>2, <1>3, <1>4, <1>5, <3>2 DEF Touches, Last
    <3>4. list[k][2] <= list[n][2]
      BY <1>1, <1>4, <3>2, NormalStarts
    <3>5. QED
      BY <1>2, <1>3, <1>4, <3>2, <3>3, <3>4
  <2>5. Normal(m)
    <3>1. \A k \in 1..(n + 1) : k = n + 1 \/ k \in 1..n
      BY <1>0
    <3>2. \A k \in 1..(n + 1) : m[k][1] <= m[k][2]
      BY <2>2, <3>1 DEF Normal, Proper
    <3>3. ASSUME NEW i \in 1..(n + 1), NEW j \in 1..(n + 1), i < j
          PROVE  m[i][2] + 1 < m[j][1]
      <4>1. i \in 1..n
        BY <1>0, <3>3
      <4>2. CASE j \in 1..n
        BY <2>2, <3>3, <4>1, <4>2 DEF Normal
      <4>3. CASE j = n + 1
        BY <2>2, <2>4, <4>1, <4>3
      <4>4. QED
        BY <3>1, <4>2, <4>3
    <3>4. QED
      BY <2>2, <3>2, <3>3 DEF Normal
  <2>6. Denotes(m) = Denotes(list) \cup Interval(c)
    BY <1>1, <2>2, <2>3 DEF Denotes
  <2>7. m # <<>>
    BY <1>1, <2>2, EmptySeq
  <2>8. Last(m)[1] <= c[1]
    BY <1>2, <2>2 DEF Last
  <2>9. QED
    BY <2>1, <2>5, <2>6, <2>7, <2>8
<1>6. CASE list # <<>> /\ Touches(Last(list), c)
  <2> DEFINE d == <<Last(list)[1], IF c[2] > Last(list)[2] THEN c[2] ELSE Last(list)[2]>>
             m == Append(Front(list), d)
  <2>1. Merge(list, c) = m
    BY <1>6 DEF Merge, Join
  <2>2. n \in 1..n /\ list[n][1] <= c[1] /\ c[1] <= list[n][2] + 1 /\ list[n][1] <= list[n][2]
    BY <1>4, <1>6 DEF Touches, Last, Normal
  <2>3. /\ d \in Bytes \X Bytes /\ d[1] = list[n][1] /\ list[n][2] <= d[2]
        /\ Interval(d) = Interval(list[n]) \cup Interval(c)
    BY <1>1, <1>2, <1>3, <2>2 DEF Last, Interval, Bytes, Proper
  <2>4. /\ Front(list) \in Seq(Bytes \X Bytes) /\ Len(Front(list)) = n - 1
        /\ \A k \in 1..(n - 1) : Front(list)[k] = list[k]
    BY <1>1, <2>2, SubSeqProperties DEF Front, Normal
  <2> HIDE DEF d
  <2>5. /\ m \in Seq(Bytes \X Bytes) /\ Len(m) = n /\ m[n] = d
        /\ \A k \in 1..(n - 1) : m[k] = list[k]
    <3>1. Len(m) = (n - 1) + 1 /\ m[(n - 1) + 1] = d /\ m \in Seq(Bytes \X Bytes)
          /\ \A k \in 1..(n - 1) : m[k] = Front(list)[k]
      BY <2>3, <2>4, AppendProperties
    <3>2. (n - 1) + 1 = n
      BY <1>1
    <3>3. QED
      BY <2>4, <3>1, <3>2
  <2>6. DOMAIN m = 1..n
    BY <2>5, LenProperties
  <2> HIDE DEF m
  <2>0. \A k \in 1..n : k = n \/ k \in 1..(n - 1)
    BY <1>0
  <2>7. Normal(m)
    <3>1. \A k \in 1..n : m[k][1] = list[k][1] /\ m[k][1] <= m[k][2]
      <4>1. d[1] <= d[2]
        BY <1>1, <2>2, <2>3 DEF Bytes
      <4>2. QED
        BY <2>0, <2>3, <2>5, <4>1 DEF Normal
    <3>2. ASSUME NEW i \in 1..n, NEW j \in 1..n, i < j
          PROVE  m[i][2] + 1 < m[j][1]
      <4>1. i \in 1..(n - 1)
        BY <1>0, <3>2
      <4>2. m[i] = list[i] /\ list[i][2] + 1 < list[j][1]
        BY <2>5, <3>2, <4>1 DEF Normal
      <4>3. QED
        BY <3>1, <4>2
    <3>3. QED
      BY <2>5, <3>1, <3>2 DEF Normal
  <2>8. Denotes(m) = Denotes(list) \cup Interval(c)
    <3>1. \A k \in 1..n : k = n \/ k \in 1..(n - 1)
      BY <2>0
    <3>2. Denotes(m) = UNION {Interval(m[k]) : k \in 1..n}
          /\ Denotes(list) = UNION {Interval(list[k]) : k \in 1..n}
      BY <1>1, <2>6 DEF Denotes
    <3>3. \A b : b \in Denotes(m) <=> b \in Denotes(list) \cup Interval(c)
      BY <2>2, <2>3, <2>5, <3>1, <3>2
    <3>4. QED
      BY <3>3
  <2>9. m # <<>>
    BY <2>2, <2>5, EmptySeq
  <2>10. Last(m)[1] <= c[1]
    BY <2>2, <2>3, <2>5 DEF Last
  <2>11. QED
    BY <2>1, <2>7, <2>8, <2>9, <2>10
<1>7. QED
  BY <1>5, <1>6

(* The sort: a list has an order by start, so there is one to choose.      *)
Before(a, b) == a[1] < b[1] \/ (a[1] = b[1] /\ a[2] < b[2])

LEMMA SortExists ==
  ASSUME NEW S \in SUBSET (Bytes \X Bytes), IsFiniteSet(S)
  PROVE  LET q == SortedByStart(S)
             n == Cardinality(S)
         IN  /\ q \in [1..n -> S] /\ n \in Nat
             /\ \A a \in S : \E i \in 1..n : q[i] = a
             /\ \A i, j \in 1..n : i < j => q[i][1] <= q[j][1]
<1> DEFINE n == Cardinality(S)
           lower(a) == {b \in S : Before(b, a)}
           rank == [a \in S |-> Cardinality(lower(a)) + 1]
<1>1. n \in Nat
  BY FS_CardinalityType
<1>2. \A a, b \in S : a = b \/ Before(a, b) \/ Before(b, a)
  BY DEF Before, Bytes
<1>3. \A a, b, c \in S : (Before(a, b) /\ Before(b, c) => Before(a, c)) /\ ~Before(a, a)
  BY DEF Before, Bytes
<1>4. \A a \in S : IsFiniteSet(lower(a)) /\ Cardinality(lower(a)) \in Nat
  BY FS_Subset, FS_CardinalityType
<1>5. ASSUME NEW a \in S, NEW b \in S, Before(a, b) PROVE rank[a] < rank[b]
  <2>1. lower(a) \subseteq lower(b) /\ a \in lower(b) /\ a \notin lower(a)
    BY <1>3, <1>5
  <2>2. Cardinality(lower(a)) <= Cardinality(lower(b)) /\ Cardinality(lower(a)) # Cardinality(lower(b))
    BY <1>4, <2>1, FS_Subset
  <2>3. QED
    BY <1>4, <2>2
<1>6. \A a \in S : rank[a] \in 1..n
  <2> SUFFICES ASSUME NEW a \in S PROVE rank[a] \in 1..n
    OBVIOUS
  <2>1. lower(a) \subseteq S /\ a \in S /\ a \notin lower(a)
    BY <1>3
  <2>2. Cardinality(lower(a)) <= n /\ Cardinality(lower(a)) # n
    BY <2>1, FS_Subset
  <2>3. QED
    BY <1>1, <1>4, <2>2
<1>7. rank \in Surjection(S, 1..n)
  <2>1. rank \in Injection(S, 1..n)
    <3>1. rank \in [S -> 1..n]
      BY <1>6
    <3>2. ASSUME NEW a \in S, NEW b \in S, rank[a] = rank[b], a # b PROVE FALSE
      <4> HIDE DEF rank
      <4>1. rank[a] \in Nat /\ rank[b] \in Nat
        BY <1>6
      <4>2. CASE Before(a, b)
        BY <1>5, <3>2, <4>1, <4>2
      <4>3. CASE Before(b, a)
        BY <1>5, <3>2, <4>1, <4>3
      <4>4. QED
        BY <1>2, <3>2, <4>2, <4>3
    <3> HIDE DEF rank
    <3>3. QED
      BY <3>1, <3>2 DEF Injection, IsInjective
  <2>2. IsFiniteSet(1..n) /\ Cardinality(1..n) = n
    BY <1>1, FS_Interval
  <2> HIDE DEF rank
  <2>3. QED
    BY <2>1, <2>2, FS_Injection
<1> DEFINE q == [i \in 1..n |-> CHOOSE a \in S : rank[a] = i]
<1>8. \A i \in 1..n : q[i] \in S /\ rank[q[i]] = i
  <2> HIDE DEF rank
  <2>1. QED
    BY <1>7 DEF Surjection
<1>9. q \in SetToSeqs(S)
  <2> HIDE DEF rank
  <2>1. q \in [1..n -> S]
    BY <1>8
  <2>2. \A i, j \in 1..n : i # j => q[i] # q[j]
    BY <1>8
  <2> HIDE DEF q
  <2>3. QED
    BY <2>1, <2>2 DEF SetToSeqs
<1>10. \A i, j \in DOMAIN q : i < j => q[i][1] <= q[j][1]
  <2> SUFFICES ASSUME NEW i \in 1..n, NEW j \in 1..n, i < j PROVE q[i][1] <= q[j][1]
    OBVIOUS
  <2> HIDE DEF q, rank
  <2>1. q[i] \in S /\ q[j] \in S /\ ~Before(q[j], q[i])
    BY <1>5, <1>8
  <2>2. QED
    BY <2>1 DEF Before, Bytes
<1> DEFINE r == SortedByStart(S)
<1>11. r \in SetToSeqs(S) /\ \A i, j \in DOMAIN r : i < j => r[i][1] <= r[j][1]
  <2> HIDE DEF q
  <2>1. QED
    BY <1>9, <1>10 DEF SortedByStart
<1> HIDE DEF r
<1>12. r \in [1..n -> S] /\ \A i, j \in 1..n : i # j => r[i] # r[j]
  BY <1>11 DEF SetToSeqs
<1>13. r \in Surjection(1..n, S)
  <2>1. r \in Injection(1..n, S)
    BY <1>12 DEF Injection, IsInjective
  <2>2. IsFiniteSet(1..n) /\ Cardinality(1..n) = n
    BY <1>1, FS_Interval
  <2>3. QED
    BY <2>1, <2>2, FS_Injection
<1>14. \A a \in S : \E i \in 1..n : r[i] = a
  BY <1>13 DEF Surjection
<1>15. QED
  BY <1>1, <1>11, <1>12, <1>14 DEF r

(* record_chunk: the list stays normal and denotes the chunk besides.      *)
LEMMA RecordKeeps ==
  ASSUME NEW list, Normal(list), NEW c, Proper(c)
  PROVE  /\ Normal(RecordedIn(list, c))
         /\ Denotes(RecordedIn(list, c)) = Denotes(list) \cup Interval(c)
<1> DEFINE S == ToSet(list) \cup {c}
           q == SortedByStart(S)
           n == Cardinality(S)
<1>1. Len(list) \in Nat /\ DOMAIN list = 1..Len(list)
      /\ \A k \in 1..Len(list) : list[k] \in Bytes \X Bytes /\ list[k][1] <= list[k][2]
  BY LenProperties, ElementOfSeq DEF Normal
<1>2. IsFiniteSet(S)
  <2>1. list \in Surjection(1..Len(list), ToSet(list))
    <3>1. list \in [1..Len(list) -> ToSet(list)]
      BY <1>1, LenProperties DEF ToSet, Normal
    <3>2. QED
      BY <1>1, <3>1 DEF Surjection, ToSet
  <2>2. IsFiniteSet(ToSet(list))
    BY <1>1, <2>1, FS_Interval, FS_Surjection
  <2>3. QED
    BY <2>2, FS_AddElement
<1>3. \A a \in S : Proper(a)
  BY <1>1 DEF ToSet, Proper
<1>4. S \in SUBSET (Bytes \X Bytes)
  BY <1>3 DEF Proper
<1>5. UNION {Interval(a) : a \in S} = Denotes(list) \cup Interval(c)
  BY DEF ToSet, Denotes
<1> HIDE DEF S
<1>6. /\ q \in [1..n -> S] /\ n \in Nat
      /\ \A a \in S : \E i \in 1..n : q[i] = a
      /\ \A i, j \in 1..n : i < j => q[i][1] <= q[j][1]
  BY <1>2, <1>4, SortExists
<1> HIDE DEF q, n
<1>7. DOMAIN q = 1..n /\ \A i \in 1..n : q[i] \in S /\ Proper(q[i]) /\ q[i][1] \in Int
  BY <1>3, <1>6 DEF Proper, Bytes
<1>8. PICK F : /\ F[0] = <<>>
               /\ \A k \in 1..n : F[k] = Merge(F[k - 1], q[k])
               /\ FoldLeft(Merge, <<>>, q) = F[n]
  BY <1>6, <1>7, FoldMerge
<1> DEFINE kept(k) == /\ Normal(F[k])
                      /\ \A b : b \in Denotes(F[k]) <=> \E i \in 1..k : b \in Interval(q[i])
                      /\ F[k] # <<>> => k >= 1 /\ Last(F[k])[1] <= q[k][1]
           bad == {k \in 0..n : ~kept(k)}
<1>9. kept(0)
  <2>1. Normal(<<>>)
    BY EmptySeq DEF Normal
  <2>2. Denotes(<<>>) = {}
    BY DEF Denotes
  <2>3. QED
    BY <1>8, <2>1, <2>2
<1>10. bad = {}
  <2> SUFFICES ASSUME bad # {} PROVE FALSE
    OBVIOUS
  <2>1. PICK k \in bad : \A i \in bad : k <= i
    <3>1. bad \in SUBSET Nat
      BY <1>6
    <3> HIDE DEF bad
    <3>2. QED
      BY <3>1, LeastNumber
  <2>2. k \in 1..n /\ k - 1 \in 0..n /\ k - 1 \notin bad
    <3>1. k \in 0..n /\ k # 0
      BY <1>9, <2>1
    <3> HIDE DEF bad
    <3>2. QED
      BY <1>6, <2>1, <3>1
  <2>3. kept(k - 1)
    BY <2>2
  <2>4. Proper(q[k]) /\ F[k] = Merge(F[k - 1], q[k])
    BY <1>7, <1>8, <2>2
  <2>5. F[k - 1] # <<>> => Last(F[k - 1])[1] <= q[k][1]
    <3> SUFFICES ASSUME F[k - 1] # <<>> PROVE Last(F[k - 1])[1] <= q[k][1]
      OBVIOUS
    <3>1. k - 1 \in 1..n /\ Last(F[k - 1])[1] <= q[k - 1][1]
      BY <2>2, <2>3
    <3>2. q[k - 1][1] <= q[k][1]
      BY <1>6, <2>2, <3>1
    <3>3. Last(F[k - 1])[1] \in Int
      <4>1. Len(F[k - 1]) \in 1..Len(F[k - 1])
        BY <2>3, LenProperties, EmptySeq DEF Normal
      <4>2. QED
        BY <2>3, <4>1, NormalStarts DEF Last
    <3>4. QED
      BY <1>7, <2>2, <3>1, <3>2, <3>3
  <2>6. /\ Normal(F[k]) /\ F[k] # <<>> /\ Last(F[k])[1] <= q[k][1]
        /\ Denotes(F[k]) = Denotes(F[k - 1]) \cup Interval(q[k])
    BY <2>3, <2>4, <2>5, MergeKeeps
  <2>7. \A i : i \in 1..k <=> (i \in 1..(k - 1) \/ i = k)
    BY <2>2
  <2>8. \A b : b \in Denotes(F[k]) <=> \E i \in 1..k : b \in Interval(q[i])
    BY <2>3, <2>6, <2>7
  <2>9. kept(k)
    BY <2>2, <2>6, <2>8
  <2>10. QED
    BY <2>1, <2>9
<1>11. kept(n)
  BY <1>6, <1>10
<1>12. Denotes(F[n]) = UNION {Interval(a) : a \in S}
  <2>1. \A b : (\E i \in 1..n : b \in Interval(q[i])) <=> \E a \in S : b \in Interval(a)
    BY <1>6, <1>7
  <2>2. QED
    BY <1>11, <2>1
<1>13. RecordedIn(list, c) = F[n]
  BY <1>8 DEF RecordedIn, q, S
<1>14. QED
  BY <1>5, <1>11, <1>12, <1>13

-----------------------------------------------------------------------------
(* completed_bytes: the sizes add up to the bytes denoted.                 *)
Adding(g, s, list) == [u \in SUBSET s |->
  IF u = {} THEN 0 ELSE AddSize(g[u \ {Max(u)}], list[Max(u)])]
Covered(u, list) == UNION {Interval(list[i]) : i \in u}

LEMMA GreatestPlace ==
  ASSUME NEW n \in Nat, NEW u \in SUBSET (1..n), u # {}
  PROVE  Max(u) \in u
<1> DEFINE low == {n - i : i \in u}
<1>1. low \in SUBSET Nat /\ low # {}
  <2>1. \A i \in u : n - i \in Nat
    OBVIOUS
  <2>2. QED
    BY <2>1
<1> HIDE DEF low
<1>2. PICK m \in low : \A k \in low : m <= k
  BY <1>1, LeastNumber
<1>3. PICK j \in u : m = n - j
  BY <1>2 DEF low
<1>4. \A i \in u : n - i \in low
  BY DEF low
<1>5. \A i \in u : j >= i
  BY <1>2, <1>3, <1>4
<1>6. QED
  BY <1>3, <1>5 DEF Max

LEMMA BytesFinite == IsFiniteSet(Bytes) /\ Cardinality(Bytes) = ContentLength
<1>1. 0..(ContentLength - 1) = Bytes /\ 0 \in Int /\ ContentLength - 1 \in Int
  BY GridAssumption DEF Bytes
<1>2. QED
  BY <1>1, FS_Interval, GridAssumption

LEMMA IntervalInBytes == \A c : Proper(c) => Interval(c) \subseteq Bytes
BY GridAssumption DEF Proper, Interval, Bytes

LEMMA IntervalSize ==
  ASSUME NEW c, Proper(c)
  PROVE  IsFiniteSet(Interval(c)) /\ Cardinality(Interval(c)) = c[2] - c[1] + 1
BY FS_Interval DEF Proper, Interval, Bytes

LEMMA CoveredAdd ==
  ASSUME NEW list, Normal(list), NEW u \in SUBSET (1..Len(list)), NEW k \in 1..Len(list), k \notin u
  PROVE  /\ IsFiniteSet(Covered(u, list)) /\ Cardinality(Covered(u, list)) \in Nat
         /\ Cardinality(Covered(u \cup {k}, list)) = AddSize(Cardinality(Covered(u, list)), list[k])
<1> DEFINE a == Covered(u, list)
           b == Interval(list[k])
<1>1. \A i \in 1..Len(list) : Proper(list[i])
  BY ElementOfSeq DEF Normal, Proper
<1>2. Covered(u \cup {k}, list) = a \cup b
  BY DEF Covered
<1>3. a \cap b = {}
  <2>1. ASSUME NEW i \in 1..Len(list), NEW j \in 1..Len(list), i < j
        PROVE  Interval(list[i]) \cap Interval(list[j]) = {}
    <3>1. list[i][2] + 1 < list[j][1]
      BY <2>1 DEF Normal
    <3>2. list[i][1] \in Int /\ list[i][2] \in Int /\ list[j][1] \in Int /\ list[j][2] \in Int
      BY <1>1 DEF Proper, Bytes
    <3>3. QED
      BY <3>1, <3>2 DEF Interval
  <2>2. Len(list) \in Nat
    BY LenProperties DEF Normal
  <2>3. ASSUME NEW i \in u PROVE Interval(list[i]) \cap b = {}
    <3>1. i \in 1..Len(list) /\ (i < k \/ k < i)
      BY <2>2
    <3>2. QED
      BY <2>1, <3>1
  <2>4. QED
    BY <2>3 DEF Covered
<1>4. IsFiniteSet(a)
  <2>1. a \subseteq Bytes
    BY <1>1, IntervalInBytes DEF Covered
  <2>2. QED
    BY <2>1, BytesFinite, FS_Subset
<1>5. IsFiniteSet(b) /\ Cardinality(b) = list[k][2] - list[k][1] + 1
  BY <1>1, IntervalSize
<1>6. Cardinality(a) \in Nat /\ list[k][1] \in Int /\ list[k][2] \in Int
  BY <1>1, <1>4, FS_CardinalityType DEF Proper, Bytes
<1> HIDE DEF a, b
<1>7. Cardinality(a \cup b) = Cardinality(a) + Cardinality(b) - Cardinality(a \cap b)
  BY <1>4, <1>5, FS_Union
<1>8. Cardinality(a \cap b) = 0
  BY <1>3, FS_EmptySet
<1>9. Cardinality(a \cup b) = Cardinality(a) + list[k][2] - list[k][1] + 1
  BY <1>5, <1>6, <1>7, <1>8
<1>10. QED
  BY <1>2, <1>4, <1>6, <1>9 DEF AddSize, a

LEMMA SizesAddUp ==
  ASSUME NEW list, Normal(list)
  PROVE  /\ CompletedBytes(list) = Cardinality(Denotes(list)) /\ CompletedBytes(list) \in Nat
         /\ Denotes(list) \subseteq Bytes /\ IsFiniteSet(Denotes(list))
<1> DEFINE n == Len(list)
           g == CHOOSE h : h = Adding(h, DOMAIN list, list)
           t == [u \in SUBSET (1..n) |-> Cardinality(Covered(u, list))]
<1>1. n \in Nat /\ DOMAIN list = 1..n
  BY LenProperties DEF Normal
<1>2. FoldLeft(AddSize, 0, list) = g[DOMAIN list]
  BY DEF FoldLeft, MapThenFoldSet, Adding
<1>3. Cardinality(Covered({}, list)) = 0
  <2>1. Covered({}, list) = {}
    BY DEF Covered
  <2>2. QED
    BY <2>1, FS_EmptySet
<1>4. ASSUME NEW u \in SUBSET (1..n), u # {}, NEW k \in u
      PROVE  Cardinality(Covered(u, list)) = AddSize(Cardinality(Covered(u \ {k}, list)), list[k])
  <2> DEFINE r == u \ {k}
  <2>1. r \in SUBSET (1..n) /\ k \notin r /\ u = r \cup {k} /\ k \in 1..n
    BY <1>4
  <2> HIDE DEF r
  <2>2. Cardinality(Covered(r \cup {k}, list)) = AddSize(Cardinality(Covered(r, list)), list[k])
    BY <2>1, CoveredAdd
  <2>3. QED
    BY <2>1, <2>2 DEF r
<1>5. t = Adding(t, 1..n, list)
  <2>1. ASSUME NEW u \in SUBSET (1..n)
        PROVE  t[u] = IF u = {} THEN 0 ELSE AddSize(t[u \ {Max(u)}], list[Max(u)])
    <3>1. CASE u = {}
      BY <1>3, <3>1
    <3>2. CASE u # {}
      <4>1. Max(u) \in u /\ u \ {Max(u)} \in SUBSET (1..n)
        BY <1>1, <3>2, GreatestPlace
      <4>2. QED
        BY <1>4, <3>2, <4>1
    <3>3. QED
      BY <3>1, <3>2
  <2> HIDE DEF t
  <2>2. t = [u \in SUBSET (1..n) |-> t[u]]
    BY DEF t
  <2>3. QED
    BY <2>1, <2>2, Zenon DEF Adding
<1>6. g = Adding(g, 1..n, list)
  <2> HIDE DEF t
  <2>1. QED
    BY <1>1, <1>5
<1> HIDE DEF g
<1> DEFINE upto(k) == g[1..k] = Cardinality(Covered(1..k, list))
           bad == {k \in 0..n : ~upto(k)}
<1>7. bad = {}
  <2> SUFFICES ASSUME bad # {} PROVE FALSE
    OBVIOUS
  <2>1. PICK k \in bad : \A i \in bad : k <= i
    <3>1. bad \in SUBSET Nat
      BY <1>1
    <3> HIDE DEF bad
    <3>2. QED
      BY <3>1, LeastNumber
  <2>2. CASE k = 0
    <3>1. 1..k = {} /\ {} \in SUBSET (1..n)
      BY <2>2
    <3>2. g[{}] = 0
      BY <1>6, <3>1 DEF Adding
    <3>3. QED
      BY <1>3, <2>1, <3>1, <3>2
  <2>3. CASE k # 0
    <3>0. k \in 0..n
      OBVIOUS
    <3>1. k - 1 \in 0..n /\ k - 1 \notin bad
      <4> HIDE DEF bad
      <4>1. QED
        BY <1>1, <2>1, <2>3, <3>0
    <3>2. /\ 1..k \in SUBSET (1..n) /\ 1..k # {} /\ k \in 1..k
          /\ Max(1..k) = k /\ (1..k) \ {k} = 1..(k - 1)
      <4> HIDE DEF bad, n
      <4>1. k \in Nat /\ k >= 1 /\ 1..k \in SUBSET (1..n) /\ k \in 1..k
        BY <1>1, <2>3, <3>0
      <4>2. Max(1..k) = k
        BY <4>1, LastPlace
      <4>3. QED
        BY <4>1, <4>2
    <3>3. g[1..k] = AddSize(g[(1..k) \ {Max(1..k)}], list[Max(1..k)])
      BY <1>6, <3>2 DEF Adding
    <3>4. g[1..k] = AddSize(g[1..(k - 1)], list[k])
      BY <3>2, <3>3, Zenon
    <3>5. Cardinality(Covered(1..k, list)) =
            AddSize(Cardinality(Covered((1..k) \ {k}, list)), list[k])
      BY <1>4, <3>2
    <3>6. Cardinality(Covered(1..k, list)) =
            AddSize(Cardinality(Covered(1..(k - 1), list)), list[k])
      BY <3>2, <3>5, Zenon
    <3>7. upto(k - 1)
      BY <3>1
    <3>8. upto(k)
      BY <3>4, <3>6, <3>7, Zenon
    <3>9. QED
      BY <2>1, <3>8
  <2>4. QED
    BY <2>2, <2>3
<1>8. FoldLeft(AddSize, 0, list) = Cardinality(Covered(1..n, list))
  BY <1>1, <1>2, <1>7
<1>9. Covered(1..n, list) = Denotes(list)
  BY <1>1 DEF Covered, Denotes
<1>10. Denotes(list) \subseteq Bytes
  <2>1. \A i \in 1..n : Proper(list[i])
    BY <1>1, ElementOfSeq DEF Normal, Proper
  <2>2. QED
    BY <1>1, <2>1, IntervalInBytes DEF Denotes
<1>11. /\ IsFiniteSet(Denotes(list)) /\ Cardinality(Denotes(list)) \in Nat
       /\ Cardinality(Denotes(list)) <= ContentLength
  BY <1>10, BytesFinite, FS_Subset, FS_CardinalityType
<1>12. QED
  BY <1>8, <1>9, <1>10, <1>11, GridAssumption DEF CompletedBytes, AtMostAll

-----------------------------------------------------------------------------
(* The queries answer what the set of bytes says.                          *)
LEMMA InList ==
  ASSUME NEW list, Normal(list)
  PROVE  /\ Len(list) \in Nat /\ DOMAIN list = 1..Len(list)
         /\ \A k \in 1..Len(list) :
              /\ Proper(list[k]) /\ list[k][1] \in Bytes /\ list[k][2] \in Bytes
              /\ list[k][1] \in Int /\ list[k][2] \in Int
         /\ \A b : b \in Denotes(list) <=> \E k \in 1..Len(list) : list[k][1] <= b /\ b <= list[k][2] /\ b \in Int
<1>1. Len(list) \in Nat /\ DOMAIN list = 1..Len(list)
  BY LenProperties DEF Normal
<1>2. \A k \in 1..Len(list) : list[k] \in Bytes \X Bytes /\ list[k][1] <= list[k][2]
  BY <1>1, ElementOfSeq DEF Normal
<1>3. \A k \in 1..Len(list) :
        /\ Proper(list[k]) /\ list[k][1] \in Bytes /\ list[k][2] \in Bytes
        /\ list[k][1] \in Int /\ list[k][2] \in Int
  BY <1>2 DEF Proper, Bytes
<1>4. QED
  BY <1>1, <1>3 DEF Denotes, Interval

(* is_range_complete: one interval covers what the list does.              *)
LEMMA RangeQuery ==
  ASSUME NEW list, Normal(list), NEW s \in Bytes, NEW e \in Bytes, s <= e
  PROVE  IsRangeComplete(list, <<s, e>>) <=> s..e \subseteq Denotes(list)
<1>1. ASSUME IsRangeComplete(list, <<s, e>>) PROVE s..e \subseteq Denotes(list)
  <2>1. PICK k \in 1..Len(list) : list[k][1] <= s /\ e <= list[k][2]
    BY <1>1, InList DEF IsRangeComplete
  <2>2. list[k][1] \in Int /\ list[k][2] \in Int /\ s \in Int /\ e \in Int
    BY InList DEF Bytes
  <2>3. \A b \in s..e : list[k][1] <= b /\ b <= list[k][2] /\ b \in Int
    BY <2>1, <2>2
  <2>4. QED
    BY <2>3, InList
<1>2. ASSUME s..e \subseteq Denotes(list) PROVE IsRangeComplete(list, <<s, e>>)
  <2>1. s \in Int /\ e \in Int /\ s \in s..e
    BY DEF Bytes
  <2>2. PICK k \in 1..Len(list) : list[k][1] <= s /\ s <= list[k][2]
    BY <1>2, <2>1, InList
  <2>3. list[k][1] \in Int /\ list[k][2] \in Int
    BY InList
  <2>4. CASE e <= list[k][2]
    BY <2>2, <2>4, InList DEF IsRangeComplete
  <2>5. CASE ~(e <= list[k][2])
    <3> DEFINE b == list[k][2] + 1
    <3>1. b \in s..e
      BY <2>1, <2>2, <2>3, <2>5
    <3>2. PICK j \in 1..Len(list) : list[j][1] <= b /\ b <= list[j][2]
      BY <1>2, <3>1, InList
    <3>3. list[j][1] \in Int /\ list[j][2] \in Int /\ Len(list) \in Nat
      BY InList
    <3>4. CASE j = k
      BY <2>3, <3>2, <3>4
    <3>5. CASE j < k
      <4>1. list[j][2] + 1 < list[k][1] /\ list[k][1] <= list[k][2]
        BY <3>5 DEF Normal
      <4>2. QED
        BY <2>3, <3>2, <3>3, <4>1
    <3>6. CASE k < j
      <4>1. list[k][2] + 1 < list[j][1]
        BY <3>6 DEF Normal
      <4>2. QED
        BY <2>3, <3>2, <3>3, <4>1
    <3>7. QED
      BY <3>3, <3>4, <3>5, <3>6
  <2>6. QED
    BY <2>4, <2>5
<1>3. QED
  BY <1>1, <1>2

(* contiguous_prefix: all bytes before it are there, it is not.            *)
LEMMA PrefixQuery ==
  ASSUME NEW list, Normal(list)
  PROVE  LET p == ContiguousPrefix(list) IN
         /\ p \in 0..ContentLength
         /\ \A b \in 0..(p - 1) : b \in Denotes(list)
         /\ \A k \in 1..Len(list) : list[k][1] <= p => list[k][2] < p
<1>1. /\ Len(list) \in Nat
      /\ \A k \in 1..Len(list) : /\ list[k][1] \in 0..(ContentLength - 1)
                                 /\ list[k][2] \in 0..(ContentLength - 1)
                                 /\ list[k][1] <= list[k][2]
  BY InList DEF Bytes, Normal
<1>2. ASSUME NEW k \in 1..Len(list)
      PROVE  1 \in 1..Len(list) /\ (k = 1 \/ list[1][2] + 1 < list[k][1])
  <2>1. 1 \in 1..Len(list) /\ (k = 1 \/ 1 < k)
    BY <1>1
  <2>2. QED
    BY <2>1 DEF Normal
<1>3. CASE ~(list # <<>> /\ Head(list)[1] = 0)
  <2>1. ContiguousPrefix(list) = 0
    BY <1>3 DEF ContiguousPrefix
  <2>2. ASSUME NEW k \in 1..Len(list) PROVE list[k][1] > 0
    <3>1. list # <<>> /\ Head(list) = list[1]
      BY <1>1, EmptySeq, HeadTailProperties DEF Normal
    <3>2. list[1][1] # 0
      BY <1>3, <3>1
    <3>3. QED
      BY <1>1, <1>2, <3>2
  <2>3. \A k \in 1..Len(list) : ~(list[k][1] <= 0)
    BY <1>1, <2>2
  <2>4. QED
    BY <2>1, <2>3, GridAssumption
<1>4. CASE list # <<>> /\ Head(list)[1] = 0
  <2>1. 1 \in 1..Len(list) /\ Head(list) = list[1]
    <3>1. Len(list) # 0
      BY <1>4, EmptySeq, Zenon DEF Normal
    <3>2. QED
      BY <1>1, <1>4, <3>1, HeadTailProperties DEF Normal
  <2> DEFINE e == list[1][2]
  <2>2. list[1][1] = 0 /\ e \in 0..(ContentLength - 1)
    BY <1>1, <1>4, <2>1
  <2>3. ContiguousPrefix(list) = e + 1
    <3>1. ContiguousPrefix(list) = AtMostAll(e + 1)
      BY <1>4, <2>1 DEF ContiguousPrefix
    <3> HIDE DEF e
    <3>2. QED
      BY <2>2, <3>1, GridAssumption DEF AtMostAll
  <2>4. \A b \in 0..e : b \in Denotes(list)
    BY <2>1, <2>2, InList
  <2>5. \A k \in 1..Len(list) : list[k][1] <= e + 1 => list[k][2] < e + 1
    BY <1>1, <1>2, <2>2
  <2> HIDE DEF e
  <2>6. e + 1 \in 0..ContentLength /\ (e + 1) - 1 = e
    BY <2>2, GridAssumption
  <2>7. QED
    BY <2>3, <2>4, <2>5, <2>6
<1>5. QED
  BY <1>3, <1>4

LEMMA CompleteQuery ==
  ASSUME NEW list, Normal(list)
  PROVE  /\ IsComplete(list) <=> Denotes(list) = Bytes
         /\ Denotes(list) # Bytes => /\ ContiguousPrefix(list) \in Bytes
                                     /\ ContiguousPrefix(list) \notin Denotes(list)
<1> DEFINE p == ContiguousPrefix(list)
<1>1. /\ p \in 0..ContentLength
      /\ \A b \in 0..(p - 1) : b \in Denotes(list)
      /\ \A k \in 1..Len(list) : list[k][1] <= p => list[k][2] < p
  BY PrefixQuery
<1> HIDE DEF p
<1>2. ASSUME p \in Denotes(list) PROVE FALSE
  <2>1. PICK k \in 1..Len(list) : list[k][1] <= p /\ p <= list[k][2]
    BY <1>2, InList
  <2>2. list[k][2] < p /\ list[k][2] \in Int
    BY <1>1, <2>1, InList
  <2>3. QED
    BY <1>1, <2>1, <2>2
<1>3. Denotes(list) \subseteq Bytes
  BY SizesAddUp
<1>4. p >= ContentLength => Denotes(list) = Bytes
  <2> SUFFICES ASSUME p >= ContentLength PROVE Denotes(list) = Bytes
    OBVIOUS
  <2>1. p = ContentLength
    BY <1>1, GridAssumption
  <2>2. \A b \in Bytes : b \in Denotes(list)
    BY <1>1, <2>1 DEF Bytes
  <2>3. QED
    BY <1>3, <2>2
<1>5. ~(p >= ContentLength) => p \in Bytes
  BY <1>1, GridAssumption DEF Bytes
<1>6. QED
  BY <1>2, <1>4, <1>5 DEF IsComplete, p

(* next_missing_range: the first gap, whole.                               *)
LEMMA MissingQuery ==
  ASSUME NEW list, Normal(list), Denotes(list) # Bytes
  PROVE  LET gap == NextMissing(list) IN
         /\ 0..(gap[1] - 1) \subseteq Denotes(list)
         /\ Interval(gap) # {} /\ Interval(gap) \cap Denotes(list) = {}
         /\ gap[2] + 1 \in Denotes(list) \cup {ContentLength}
<1> DEFINE p == ContiguousPrefix(list)
           After == {k \in 1..Len(list) : list[k][1] > p}
           later == IF After # {} THEN Min(After) ELSE 0
           end == IF later = 0 THEN ContentLength ELSE list[later][1]
<1>1. NextMissing(list) = <<p, end - 1>>
  BY DEF NextMissing, SelectInSeq
<1>2. /\ p \in 0..ContentLength
      /\ \A b \in 0..(p - 1) : b \in Denotes(list)
      /\ \A k \in 1..Len(list) : list[k][1] <= p => list[k][2] < p
  BY PrefixQuery
<1>3. p < ContentLength
  <2>1. p \in Bytes
    BY CompleteQuery
  <2> HIDE DEF p
  <2>2. QED
    BY <2>1, GridAssumption DEF Bytes
<1>4. /\ Len(list) \in Nat
      /\ \A k \in 1..Len(list) : list[k][1] \in Int /\ list[k][2] \in Int
  BY InList
<1> HIDE DEF p
<1>5. After # {} => later \in After /\ \A k \in After : later <= k
  <2> SUFFICES ASSUME After # {} PROVE later \in After /\ \A k \in After : later <= k
    OBVIOUS
  <2>1. After \in SUBSET Nat
    BY <1>4
  <2> HIDE DEF After
  <2>2. \E m \in After : \A k \in After : m <= k
    BY <2>1, LeastNumber
  <2>3. Min(After) \in After /\ \A k \in After : Min(After) <= k
    BY <2>2 DEF Min
  <2>4. QED
    BY <2>3
<1>6. CASE After = {}
  <2>1. end = ContentLength
    BY <1>6
  <2>2. \A b \in p..(ContentLength - 1) : b \notin Denotes(list)
    BY <1>2, <1>4, <1>6, InList
  <2> HIDE DEF end
  <2>3. Interval(<<p, end - 1>>) = p..(ContentLength - 1) /\ (end - 1) + 1 = ContentLength
    BY <2>1, GridAssumption DEF Interval
  <2>4. p \in p..(ContentLength - 1)
    BY <1>2, <1>3, GridAssumption
  <2>5. /\ NextMissing(list)[1] = p /\ NextMissing(list)[2] + 1 = ContentLength
        /\ Interval(NextMissing(list)) = p..(ContentLength - 1)
    BY <1>1, <2>3
  <2>6. QED
    BY <1>2, <2>2, <2>4, <2>5
<1>7. CASE After # {}
  <2>1. later \in 1..Len(list) /\ list[later][1] > p /\ \A k \in After : later <= k
    BY <1>5, <1>7
  <2>2. end = list[later][1] /\ list[later][1] \in Int
    <3> HIDE DEF later, After
    <3>1. later # 0 /\ list[later][1] \in Int
      BY <1>4, <2>1
    <3>2. QED
      BY <3>1
  <2>3. ASSUME NEW b \in p..(list[later][1] - 1), b \in Denotes(list) PROVE FALSE
    <3>1. PICK k \in 1..Len(list) : list[k][1] <= b /\ b <= list[k][2]
      BY <2>3, InList
    <3>2. k \in After
      <4> DEFINE start == list[later][1]
      <4> HIDE DEF later, start
      <4>1. b \in p..(start - 1)
        BY <2>3 DEF start
      <4>2. list[k][1] > p
        BY <1>2, <1>4, <2>2, <3>1, <4>1 DEF start
      <4>3. QED
        BY <4>2
    <3>3. later <= k
      BY <2>1, <3>2
    <3> HIDE DEF later, After
    <3>4. list[later][1] <= list[k][1]
      BY <2>1, <3>3, NormalStarts
    <3>5. QED
      BY <1>2, <1>4, <2>1, <2>2, <3>1, <3>4
  <2>4. list[later][1] \in Denotes(list)
    <3>1. list[later][1] <= list[later][2]
      BY <2>1 DEF Normal
    <3> HIDE DEF later, After
    <3>2. QED
      BY <2>1, <2>2, <3>1, InList
  <2> HIDE DEF end, later, After
  <2>5. Interval(<<p, end - 1>>) = p..(list[later][1] - 1) /\ (end - 1) + 1 = list[later][1]
    BY <2>2 DEF Interval
  <2>6. p \in p..(list[later][1] - 1)
    BY <1>2, <2>1, <2>2
  <2>7. /\ NextMissing(list)[1] = p /\ NextMissing(list)[2] + 1 = list[later][1]
        /\ Interval(NextMissing(list)) = p..(list[later][1] - 1)
    BY <1>1, <2>5
  <2>8. QED
    BY <1>2, <2>3, <2>4, <2>6, <2>7
<1>8. QED
  BY <1>6, <1>7

-----------------------------------------------------------------------------
(* chunk_grid: proper intervals of the resource, no two overlap.           *)
LEMMA ChunkBounds ==
  ASSUME NEW n \in ThreadCounts, NEW i \in 0..(n - 1)
  PROVE  LET c == Chunk(i, n)
             width == ContentLength \div n
         IN  /\ Proper(c) /\ c = <<c[1], c[2]>> /\ c[1] \in Int /\ c[2] \in Int
             /\ width \in Nat /\ i * width = c[1]
             /\ i # n - 1 => c[2] = i * width + width - 1
<1> DEFINE width == ContentLength \div n
           c == Chunk(i, n)
<1>1. n \in Nat /\ n >= 1 /\ n <= ContentLength /\ ContentLength \in Nat
  BY GridAssumption
<1>2. width \in Nat /\ width >= 1 /\ width * n <= ContentLength
  BY <1>1
<1>3. c = <<i * width, IF i = n - 1 THEN ContentLength - 1 ELSE (i + 1) * width - 1>>
  BY DEF Chunk
<1> HIDE DEF width
<1>4. i \in Nat /\ i + 1 <= n
  BY <1>1
<1>5. (i + 1) * width <= n * width
  BY <1>1, <1>2, <1>4
<1>6. (i + 1) * width = i * width + width /\ i * width \in Nat /\ n * width = width * n
  BY <1>1, <1>2, <1>4
<1>7. i * width + width <= ContentLength
  BY <1>1, <1>2, <1>5, <1>6
<1>8. i * width \in Bytes /\ i * width + width - 1 \in Bytes /\ ContentLength - 1 \in Bytes
      /\ i * width <= i * width + width - 1 /\ i * width <= ContentLength - 1
  BY <1>1, <1>2, <1>6, <1>7 DEF Bytes
<1>9. /\ c[1] = i * width
      /\ c[2] = IF i = n - 1 THEN ContentLength - 1 ELSE i * width + width - 1
  <2>1. c[1] = i * width /\ c[2] = IF i = n - 1 THEN ContentLength - 1 ELSE (i + 1) * width - 1
    BY <1>3
  <2> HIDE DEF c
  <2>2. (i + 1) * width - 1 = i * width + width - 1
    BY <1>2, <1>4, <1>6
  <2>3. QED
    BY <2>1, <2>2
<1>10. c = <<c[1], c[2]>>
  BY <1>3
<1> HIDE DEF c
<1>11. c[1] \in Bytes /\ c[2] \in Bytes /\ c[1] <= c[2] /\ c[1] \in Int /\ c[2] \in Int
  BY <1>8, <1>9 DEF Bytes
<1>12. Proper(c)
  BY <1>10, <1>11 DEF Proper
<1>13. QED
  BY <1>2, <1>9, <1>10, <1>11, <1>12 DEF c, width

LEMMA ChunksApart ==
  ASSUME NEW n \in ThreadCounts
  PROVE  /\ \A c \in Grid(n) : Proper(c) /\ c # <<>>
         /\ \A c, d \in Grid(n) : c # d => Interval(c) \cap Interval(d) = {}
<1> DEFINE width == ContentLength \div n
<1>1. n \in Nat
  BY GridAssumption
<1>2. ASSUME NEW c \in Grid(n) PROVE Proper(c) /\ c # <<>>
  <2>1. PICK i \in 0..(n - 1) : c = Chunk(i, n)
    BY DEF Grid
  <2>2. Proper(c) /\ c = <<c[1], c[2]>>
    BY <2>1, ChunkBounds
  <2>3. QED
    BY <2>2
<1>3. ASSUME NEW i \in 0..(n - 1), NEW j \in 0..(n - 1), i < j
      PROVE  Interval(Chunk(i, n)) \cap Interval(Chunk(j, n)) = {}
  <2> DEFINE c == Chunk(i, n)
             d == Chunk(j, n)
  <2>1. /\ i * width = c[1] /\ width \in Nat /\ c[1] \in Int /\ c[2] \in Int
        /\ i # n - 1 => c[2] = i * width + width - 1
    BY ChunkBounds
  <2>2. j * width = d[1] /\ d[1] \in Int /\ d[2] \in Int
    BY ChunkBounds
  <2> HIDE DEF width, c, d
  <2>3. i # n - 1 /\ i + 1 <= j /\ i \in Nat /\ j \in Nat
    BY <1>1, <1>3
  <2>4. (i + 1) * width <= j * width /\ (i + 1) * width = i * width + width /\ i * width \in Nat
    BY <2>1, <2>3
  <2>5. c[2] < d[1]
    BY <2>1, <2>2, <2>3, <2>4
  <2>6. Interval(c) \cap Interval(d) = {}
    BY <2>1, <2>2, <2>5 DEF Interval
  <2>7. QED
    BY <2>6 DEF c, d
<1>4. ASSUME NEW c \in Grid(n), NEW d \in Grid(n), c # d
      PROVE  Interval(c) \cap Interval(d) = {}
  <2>1. PICK i \in 0..(n - 1) : c = Chunk(i, n)
    BY DEF Grid
  <2>2. PICK j \in 0..(n - 1) : d = Chunk(j, n)
    BY DEF Grid
  <2>3. i < j \/ j < i
    BY <1>1, <1>4, <2>1, <2>2
  <2>4. CASE i < j
    BY <1>3, <2>1, <2>2, <2>4
  <2>5. CASE j < i
    <3>1. Interval(d) \cap Interval(c) = {}
      BY <1>3, <2>1, <2>2, <2>5
    <3>2. QED
      BY <3>1
  <2>6. QED
    BY <2>3, <2>4, <2>5
<1>5. QED
  BY <1>2, <1>4

-----------------------------------------------------------------------------
(* The invariant: both lists are normal and denote what was recorded and   *)
(* saved; along one grid a chunk is there whole or not at all, so one that *)
(* the list does not cover is progress with its full size, and a chunk     *)
(* held by the lock, one to be counted and one not saved are different.    *)
Aligned(bytes, n) == \A c \in Grid(n) : Interval(c) \subseteq bytes \/ Interval(c) \cap bytes = {}

ManifestShape ==
  /\ running \in BOOLEAN /\ threads \in ThreadCounts /\ gridKept \in BOOLEAN
  /\ spawned \in BOOLEAN
  /\ pending \in Grid(threads) \cup {<<>>} /\ downloaded \in Nat
  /\ sidecar \in Lists \cup Unusable /\ saved \subseteq Bytes
  /\ uncounted \subseteq Bytes /\ unsaved \subseteq Bytes

ListsInv ==
  /\ Normal(completed) /\ Denotes(completed) = recorded
  /\ sidecar \notin Unusable => Normal(sidecar) /\ Denotes(sidecar) = saved

Apart ==
  /\ Held \subseteq recorded /\ uncounted \subseteq recorded
  /\ Held \cap uncounted = {} /\ Held \cap unsaved = {} /\ uncounted \cap unsaved = {}
  /\ unsaved \subseteq recorded /\ Counted \cup uncounted \subseteq saved

ProgressInv ==
  /\ ~running => pending = <<>>
  /\ gridKept => /\ Aligned(recorded, threads)
                 /\ sidecar \notin Unusable => Aligned(saved, threads)
  /\ running /\ gridKept => Apart /\ downloaded = Cardinality(Counted)

ManifestInv == ManifestShape /\ ListsInv /\ ProgressInv

LEMMA EmptyList == Normal(<<>>) /\ Denotes(<<>>) = {} /\ \A n : Aligned({}, n)
<1>1. Normal(<<>>)
  BY EmptySeq DEF Normal
<1>2. QED
  BY <1>1 DEF Denotes, Aligned

LEMMA ManifestInitInv == ManifestInit => ManifestInv
<1> SUFFICES ASSUME ManifestInit PROVE ManifestInv
  OBVIOUS
<1>1. ManifestShape
  BY DEF ManifestInit, ManifestShape, Unusable
<1>2. ListsInv /\ ProgressInv
  BY EmptyList DEF ManifestInit, ListsInv, ProgressInv, Unusable
<1>3. QED
  BY <1>1, <1>2 DEF ManifestInv

LEMMA ResumeKeeps == ManifestInv /\ Resume => ManifestInv'
<1> SUFFICES ASSUME ManifestInv, Resume PROVE ManifestInv'
  OBVIOUS
<1> USE DEF ManifestInv
<1>1. /\ running' = TRUE /\ threads' \in ThreadCounts /\ pending = <<>>
      /\ UNCHANGED <<pending, sidecar, saved>> /\ downloaded' = CompletedBytes(completed')
      /\ spawned' = FALSE /\ uncounted' = {} /\ unsaved' = {}
  BY DEF Resume, ProgressInv
<1>2. CASE sidecar \notin Unusable
  <2>1. completed' = sidecar /\ recorded' = saved /\ gridKept' = (gridKept /\ threads' = threads)
    BY <1>2 DEF Resume
  <2>2. ListsInv'
    BY <1>1, <1>2, <2>1 DEF ListsInv
  <2>3. downloaded' = Cardinality(recorded') /\ downloaded' \in Nat
    BY <1>1, <2>2, SizesAddUp DEF ListsInv
  <2>4. ManifestShape'
    BY <1>1, <2>1, <2>3 DEF ManifestShape
  <2>5. gridKept' => Aligned(recorded', threads') /\ Aligned(saved', threads')
    BY <1>1, <1>2, <2>1 DEF ProgressInv
  <2>6. Counted' = recorded' /\ Held' = {} /\ recorded' = saved'
    BY <1>1, <2>1 DEF Counted, Held
  <2>7. Apart'
    BY <1>1, <2>6 DEF Apart
  <2>8. ProgressInv'
    BY <1>1, <2>3, <2>5, <2>6, <2>7 DEF ProgressInv
  <2>9. QED
    BY <2>2, <2>4, <2>8
<1>3. CASE sidecar \in Unusable
  <2>1. completed' = <<>> /\ recorded' = {} /\ gridKept' = TRUE
    BY <1>3 DEF Resume
  <2>2. ListsInv'
    BY <1>1, <1>3, <2>1, EmptyList DEF ListsInv
  <2>3. downloaded' = Cardinality(recorded') /\ downloaded' \in Nat
    BY <1>1, <2>2, SizesAddUp DEF ListsInv
  <2>4. ManifestShape'
    BY <1>1, <2>1, <2>3 DEF ManifestShape
  <2>5. Counted' = recorded' /\ Held' = {} /\ recorded' = {}
    BY <1>1, <2>1 DEF Counted, Held
  <2>6. Apart'
    BY <1>1, <2>5 DEF Apart
  <2>7. ProgressInv'
    BY <1>1, <1>3, <2>1, <2>3, <2>5, <2>6, EmptyList DEF ProgressInv
  <2>8. QED
    BY <2>2, <2>4, <2>7
<1>4. QED
  BY <1>2, <1>3

LEMMA RecordChunkKeeps == ManifestInv /\ RecordChunk => ManifestInv'
<1> SUFFICES ASSUME ManifestInv, RecordChunk PROVE ManifestInv'
  OBVIOUS
<1> USE DEF ManifestInv
<1>1. /\ running /\ pending = <<>>
      /\ UNCHANGED <<running, threads, spawned, uncounted, downloaded, sidecar, unsaved, saved,
                     gridKept>>
  BY DEF RecordChunk
<1>2. PICK c \in Grid(threads) : /\ ~IsRangeComplete(completed, c)
                                 /\ completed' = RecordedIn(completed, c)
                                 /\ recorded' = recorded \cup Interval(c)
                                 /\ pending' = c
  BY DEF RecordChunk, Missing
<1>3. /\ threads \in ThreadCounts /\ Proper(c) /\ c # <<>>
      /\ \A d \in Grid(threads) : c # d => Interval(c) \cap Interval(d) = {}
  BY ChunksApart DEF ManifestShape
<1>4. ListsInv'
  BY <1>1, <1>2, <1>3, RecordKeeps DEF ListsInv
<1>5. ManifestShape'
  BY <1>1, <1>2 DEF ManifestShape
<1>6. ASSUME gridKept PROVE Aligned(recorded', threads)
  <2>1. SUFFICES ASSUME NEW d \in Grid(threads)
                 PROVE  Interval(d) \subseteq recorded' \/ Interval(d) \cap recorded' = {}
    BY DEF Aligned
  <2>2. Interval(d) \subseteq recorded \/ Interval(d) \cap recorded = {}
    BY <1>6 DEF ProgressInv, Aligned
  <2>3. QED
    BY <1>2, <1>3, <2>2
<1>7. ASSUME gridKept PROVE Interval(c) \cap recorded = {}
  <2>1. ~(Interval(c) \subseteq recorded)
    <3>1. c = <<c[1], c[2]>> /\ c[1] \in Bytes /\ c[2] \in Bytes /\ c[1] <= c[2]
      BY <1>3 DEF Proper
    <3>2. IsRangeComplete(completed, <<c[1], c[2]>>) <=> c[1]..c[2] \subseteq Denotes(completed)
      BY <3>1, RangeQuery DEF ListsInv
    <3>3. QED
      BY <1>2, <3>1, <3>2 DEF Interval, ListsInv
  <2>2. QED
    BY <1>7, <2>1 DEF ProgressInv, Aligned
<1>8. Held' = Interval(c) /\ Held = {}
  BY <1>1, <1>2, <1>3 DEF Held
<1>9. ProgressInv'
  <2>1. ASSUME gridKept PROVE Apart' /\ Counted' = Counted
    <3>1. Apart
      BY <1>1, <2>1 DEF ProgressInv
    <3>2. Counted' = Counted
      BY <1>1, <1>2, <1>7, <1>8, <2>1 DEF Counted
    <3>3. QED
      BY <1>1, <1>2, <1>7, <1>8, <2>1, <3>1, <3>2 DEF Apart
  <2>2. QED
    BY <1>1, <1>6, <2>1 DEF ProgressInv
<1>10. QED
  BY <1>4, <1>5, <1>9

LEMMA SaveKeeps == ManifestInv /\ Save => ManifestInv'
<1> SUFFICES ASSUME ManifestInv, Save PROVE ManifestInv'
  OBVIOUS
<1> USE DEF ManifestInv
<1>1. /\ pending # <<>> /\ pending' = <<>> /\ running
      /\ sidecar' = completed /\ saved' = recorded /\ uncounted' = uncounted \cup Interval(pending)
      /\ UNCHANGED <<running, threads, completed, spawned, downloaded, recorded, unsaved, gridKept>>
  BY DEF Save, ProgressInv, ManifestShape
<1>2. Proper(pending)
  BY <1>1, ChunksApart DEF ManifestShape
<1>3. ListsInv'
  BY <1>1 DEF ListsInv
<1>4. ManifestShape'
  <2>1. recorded \subseteq Bytes /\ completed \in Lists
    BY SizesAddUp DEF ListsInv, Normal, Lists
  <2>2. Interval(pending) \subseteq Bytes
    BY <1>2, IntervalInBytes
  <2>3. QED
    BY <1>1, <2>1, <2>2 DEF ManifestShape
<1>5. Held = Interval(pending) /\ Held' = {}
  BY <1>1 DEF Held
<1>6. Counted' = Counted
  BY <1>1, <1>5 DEF Counted
<1>7. gridKept => Apart'
  BY <1>1, <1>5, <1>6 DEF ProgressInv, Apart, Counted
<1>8. ProgressInv'
  BY <1>1, <1>6, <1>7 DEF ProgressInv
<1>9. QED
  BY <1>3, <1>4, <1>8

LEMMA SaveFailsKeeps == ManifestInv /\ SaveFails => ManifestInv'
<1> SUFFICES ASSUME ManifestInv, SaveFails PROVE ManifestInv'
  OBVIOUS
<1> USE DEF ManifestInv
<1>1. /\ pending # <<>> /\ pending' = <<>> /\ running /\ running' = spawned
      /\ unsaved' = unsaved \cup Interval(pending)
      /\ UNCHANGED <<threads, completed, spawned, uncounted, downloaded, sidecar, recorded, saved,
                     gridKept>>
  BY DEF SaveFails, ProgressInv, ManifestShape
<1>2. Interval(pending) \subseteq Bytes
  BY <1>1, ChunksApart, IntervalInBytes DEF ManifestShape
<1>3. ManifestShape' /\ ListsInv'
  BY <1>1, <1>2 DEF ManifestShape, ListsInv
<1>4. Held = Interval(pending) /\ Held' = {}
  BY <1>1 DEF Held
<1>5. Counted' = Counted
  BY <1>1, <1>4 DEF Counted
<1>6. gridKept => Apart'
  BY <1>1, <1>4, <1>5 DEF ProgressInv, Apart
<1>7. ProgressInv'
  BY <1>1, <1>5, <1>6 DEF ProgressInv
<1>8. QED
  BY <1>3, <1>7

LEMMA CountKeeps == ManifestInv /\ Count => ManifestInv'
<1> SUFFICES ASSUME ManifestInv, Count PROVE ManifestInv'
  OBVIOUS
<1> USE DEF ManifestInv
<1>1. /\ running /\ spawned' = TRUE
      /\ UNCHANGED <<running, threads, completed, pending, sidecar, recorded, unsaved, saved, gridKept>>
  BY DEF Count
<1>2. PICK c \in Grid(threads) : /\ Interval(c) \subseteq uncounted
                                 /\ downloaded' = downloaded + c[2] - c[1] + 1
                                 /\ uncounted' = uncounted \ Interval(c)
  BY DEF Count
<1>3. /\ Proper(c) /\ c[1] \in Int /\ c[2] \in Int /\ c[1] <= c[2]
      /\ IsFiniteSet(Interval(c)) /\ Cardinality(Interval(c)) = c[2] - c[1] + 1
  BY <1>2, ChunksApart, IntervalSize DEF ManifestShape, Proper, Bytes
<1>4. ManifestShape' /\ ListsInv'
  BY <1>1, <1>2, <1>3 DEF ManifestShape, ListsInv
<1>5. Held' = Held
  BY <1>1 DEF Held
<1>6. ASSUME gridKept PROVE Apart' /\ downloaded' = Cardinality(Counted')
  <2>1. Apart /\ downloaded = Cardinality(Counted)
    BY <1>1, <1>6 DEF ProgressInv
  <2>2. Counted' = Counted \cup Interval(c) /\ Counted \cap Interval(c) = {}
    BY <1>1, <1>2, <1>5, <2>1 DEF Apart, Counted
  <2>3. Apart'
    BY <1>1, <1>2, <1>5, <2>1, <2>2 DEF Apart
  <2>4. IsFiniteSet(Counted) /\ Cardinality(Counted) \in Nat
    <3>1. IsFiniteSet(recorded) /\ Counted \subseteq recorded
      BY SizesAddUp DEF ListsInv, Counted
    <3>2. QED
      BY <3>1, FS_Subset, FS_CardinalityType
  <2>5. Cardinality(Counted') =
          Cardinality(Counted) + Cardinality(Interval(c)) - Cardinality(Counted \cap Interval(c))
    BY <1>3, <2>2, <2>4, FS_Union
  <2>6. Cardinality(Counted \cap Interval(c)) = 0
    BY <2>2, FS_EmptySet
  <2>7. downloaded' = Cardinality(Counted')
    BY <1>2, <1>3, <2>1, <2>4, <2>5, <2>6
  <2>8. QED
    BY <2>3, <2>7
<1>7. ProgressInv'
  BY <1>1, <1>6 DEF ProgressInv
<1>8. QED
  BY <1>4, <1>7

LEMMA ManifestNextInv == ManifestInv /\ [ManifestNext]_manifestVars => ManifestInv'
<1> SUFFICES ASSUME ManifestInv, [ManifestNext]_manifestVars PROVE ManifestInv'
  OBVIOUS
<1> USE DEF ManifestInv
<1>1. CASE Resume
  BY <1>1, ResumeKeeps
<1>2. CASE RecordChunk
  BY <1>2, RecordChunkKeeps
<1>3. CASE Save \/ SaveFails \/ Count
  BY <1>3, SaveKeeps, SaveFailsKeeps, CountKeeps
<1>4. CASE Stop
  <2>1. /\ running' = FALSE /\ pending' = <<>> /\ uncounted' = {}
        /\ UNCHANGED <<threads, completed, spawned, downloaded, sidecar, recorded, unsaved, saved,
                       gridKept>>
    BY <1>4 DEF Stop
  <2>2. QED
    BY <2>1 DEF ManifestShape, ListsInv, ProgressInv
<1>5. CASE Spoil
  <2>1. /\ ~running /\ sidecar' \in Unusable
        /\ UNCHANGED <<running, threads, completed, spawned, pending, uncounted, downloaded,
                       recorded, unsaved, saved, gridKept>>
    BY <1>5 DEF Spoil
  <2>2. QED
    BY <2>1 DEF ManifestShape, ListsInv, ProgressInv
<1>6. CASE UNCHANGED manifestVars
  BY <1>6 DEF manifestVars, ManifestShape, ListsInv, ProgressInv, Apart, Counted, Held
<1>7. QED
  BY <1>1, <1>2, <1>3, <1>4, <1>5, <1>6 DEF ManifestNext

LEMMA ManifestInvariant == ManifestSpec => []ManifestInv
<1>1. QED
  BY ManifestInitInv, ManifestNextInv, PTL DEF ManifestSpec

(* The sidecar's list denotes what was recorded and each query answers as  *)
(* the set does, for any length, grids and history of resumes              *)
(* (manifest.rs:93-179).                                                   *)
THEOREM ListsDenote == ManifestSpec => []IntervalsDenote
<1>1. ASSUME ManifestInv PROVE IntervalsDenote
  <2>1. Normal(completed) /\ Denotes(completed) = recorded
    BY <1>1 DEF ManifestInv, ListsInv
  <2>2. \A k \in 1..(Len(completed) - 1) : completed[k][2] + 1 < completed[k + 1][1]
    <3>1. Len(completed) \in Nat
      BY <2>1, LenProperties DEF Normal
    <3>2. QED
      BY <2>1, <3>1 DEF Normal
  <2>3. CompletedBytes(completed) = Cardinality(recorded)
    BY <2>1, SizesAddUp
  <2>4. \A s, e \in Bytes : s <= e =>
          (IsRangeComplete(completed, <<s, e>>) <=> s..e \subseteq recorded)
    BY <2>1, RangeQuery
  <2>5. IsComplete(completed) <=> recorded = Bytes
    BY <2>1, CompleteQuery
  <2>6. recorded # Bytes =>
          LET gap == NextMissing(completed) IN
          /\ 0..(gap[1] - 1) \subseteq recorded
          /\ Interval(gap) # {} /\ Interval(gap) \cap recorded = {}
          /\ gap[2] + 1 \in recorded \cup {ContentLength}
    BY <2>1, MissingQuery
  <2>7. QED
    BY <2>1, <2>2, <2>3, <2>4, <2>5, <2>6 DEF IntervalsDenote
<1>2. QED
  BY ManifestInvariant, <1>1, PTL

(* Along the grid the sidecar was written with, the progress reported is   *)
(* that of the chunks recorded, saved and counted, each once, and the      *)
(* sidecar holds them (ranged.rs:303-327,390-398,461-470).                 *)
THEOREM ProgressIsExact == ManifestSpec => []ProgressExact
<1>1. ManifestInv => ProgressExact
  BY DEF ManifestInv, ProgressInv, Apart, ProgressExact
<1>2. QED
  BY ManifestInvariant, <1>1, PTL

THEOREM ManifestTypeCorrect == ManifestSpec => []ManifestTypeOK
<1>1. ASSUME ManifestInv PROVE ManifestTypeOK
  <2>1. recorded \subseteq Bytes /\ completed \in Lists
    BY <1>1, SizesAddUp DEF ManifestInv, ListsInv, Normal, Lists
  <2>2. QED
    BY <1>1, <2>1 DEF ManifestInv, ManifestShape, ManifestTypeOK
<1>2. QED
  BY ManifestInvariant, <1>1, PTL

-----------------------------------------------------------------------------
(* Side by side: a step of one component leaves the other as it is.        *)
LEMMA StorageSideBySide == MCSpec => GuardSpec /\ ManifestSpec
<1>1. MCInit => GuardInit /\ ManifestInit
  BY DEF MCInit
<1>2. [MCNext]_storageVars => [GuardNext]_guardAll /\ [ManifestNext]_manifestVars
  BY Zenon DEF MCNext, storageVars
<1>3. QED
  BY <1>1, <1>2, PTL DEF MCSpec, GuardSpec, ManifestSpec

(* The types of both components hold in every behaviour of the run.        *)
THEOREM StorageTypeCorrect == MCSpec => []StorageTypeOK
<1>1. GuardTypeOK /\ ManifestTypeOK => StorageTypeOK
  BY DEF StorageTypeOK
<1>2. QED
  BY StorageSideBySide, GuardTypeCorrect, ManifestTypeCorrect, <1>1, PTL
=============================================================================
