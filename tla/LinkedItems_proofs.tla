-------------------------- MODULE LinkedItems_proofs --------------------------
(***************************************************************************)
(* Proofs about LinkedItems: however many items there are and whatever     *)
(* their keys, the chain on the heap is the list that was asked for, the   *)
(* bubble sort never loses an item, and what it leaves is the stable sort. *)
(***************************************************************************)
EXTENDS LinkedItems, SeqLemmas_proofs

Distinct(c) == \A j, k \in 1..Len(c) : j # k => c[j] # c[k]

(* On the heap h, the items of c are linked one behind the other, both     *)
(* ways, and s points to the first.                                        *)
Links(h, s, c) ==
  /\ c \in Seq(Items) /\ Distinct(c)
  /\ s = IF Len(c) = 0 THEN NULL ELSE c[1]
  /\ \A k \in 1..Len(c) :
       /\ h.next[c[k]] = IF k = Len(c) THEN NULL ELSE c[k + 1]
       /\ h.prev[c[k]] = IF k = 1 THEN NULL ELSE c[k - 1]

LEMMA NullIsNoItem == NULL \notin Items /\ IsFiniteSet(Items)
  BY LinkedItemsAssumption

-----------------------------------------------------------------------------
(* A list that has no item twice is not longer than there are items.       *)
LEMMA DistinctIsShort ==
  ASSUME NEW c \in Seq(Items), Distinct(c)
  PROVE  Len(c) <= Cardinality(Items) /\ Cardinality(Items) \in Nat
<1> DEFINE N == Len(c)
           R == {c[k] : k \in 1..N}
           f == [k \in 1..N |-> c[k]]
<1>1. N \in Nat
  OBVIOUS
<1>2. IsFiniteSet(1..N) /\ Cardinality(1..N) = N
  <2> HIDE DEF N
  <2> QED
    BY <1>1, FS_Interval
<1>3. R \subseteq Items
  OBVIOUS
<1>4. IsFiniteSet(R) /\ Cardinality(R) <= Cardinality(Items)
  <2> HIDE DEF R
  <2> QED
    BY <1>3, NullIsNoItem, FS_Subset
<1>5. f \in Bijection(1..N, R)
  <2>1. f \in [1..N -> R]
    OBVIOUS
  <2>2. \A j, k \in 1..N : f[j] = f[k] => j = k
    BY DEF Distinct
  <2>3. \A x \in R : \E k \in 1..N : f[k] = x
    OBVIOUS
  <2> HIDE DEF f, R, N
  <2> QED
    BY <2>1, <2>2, <2>3 DEF Bijection, Injection, Surjection, IsInjective
<1>6. Cardinality(R) = N
  <2> HIDE DEF f, R, N
  <2>1. ExistsBijection(1..N, R)
    BY <1>5 DEF ExistsBijection
  <2> QED
    BY <1>2, <2>1, FS_Bijection
<1>7. Cardinality(Items) \in Nat
  BY NullIsNoItem, FS_CardinalityType
<1> QED
  BY <1>1, <1>4, <1>6, <1>7

(* The walk from s meets the items of c.                                   *)
LEMMA ChainIs ==
  ASSUME NEW h, NEW s, NEW c, Links(h, s, c)
  PROVE  Chain(h, s) = c
<1> DEFINE n == Cardinality(Items)
           g == [k \in 0..n |-> IF k < Len(c) THEN c[k + 1] ELSE NULL]
           Body(f) == [k \in 0..n |-> IF k = 0 THEN s
                                      ELSE IF f[k - 1] = NULL THEN NULL
                                      ELSE h.next[f[k - 1]]]
           at == CHOOSE f : f = Body(f)
<1>1. n \in Nat /\ Len(c) \in Nat /\ Len(c) <= n
      /\ \A k \in 1..Len(c) : c[k] \in Items /\ c[k] # NULL
  BY DistinctIsShort, NullIsNoItem DEF Links
<1>2. g[0] = s
  BY <1>1 DEF Links
<1>3. ASSUME NEW k \in 1..n
      PROVE  g[k] = IF g[k - 1] = NULL THEN NULL ELSE h.next[g[k - 1]]
  <2>1. k \in 0..n /\ k - 1 \in 0..n
    BY <1>1
  <2>2. CASE k <= Len(c)
    <3>1. k \in 1..Len(c) /\ g[k - 1] = c[k] /\ c[k] # NULL
      BY <1>1, <2>1, <2>2
    <3>2. h.next[c[k]] = IF k = Len(c) THEN NULL ELSE c[k + 1]
      BY <3>1 DEF Links
    <3>3. g[k] = IF k < Len(c) THEN c[k + 1] ELSE NULL
      BY <2>1
    <3> HIDE DEF g, n
    <3> QED
      BY <1>1, <3>1, <3>2, <3>3
  <2>3. CASE k > Len(c)
    BY <1>1, <2>1, <2>3
  <2> QED
    BY <1>1, <2>2, <2>3
<1>4. g = Body(g)
  <2> DEFINE b == Body(g)
  <2>1. b = [k \in 0..n |-> b[k]] /\ g = [k \in 0..n |-> g[k]]
    OBVIOUS
  <2>2. ASSUME NEW k \in 0..n PROVE b[k] = g[k]
    <3>1. k = 0 \/ k \in 1..n
      BY <1>1
    <3>2. b[k] = IF k = 0 THEN s ELSE IF g[k - 1] = NULL THEN NULL ELSE h.next[g[k - 1]]
      OBVIOUS
    <3> HIDE DEF b, g, n
    <3> QED
      BY <1>2, <1>3, <3>1, <3>2
  <2> HIDE DEF b, g, n
  <2>3. b = g
    BY <2>1, <2>2
  <2> QED
    BY <2>3 DEF b
<1>5. at = Body(at)
  <2> HIDE DEF g, Body
  <2> QED
    BY <1>4
<1>6. SameSteps(at, g, n)
  <2>1. at[0] = s /\ \A k \in 1..n : at[k] = IF at[k - 1] = NULL THEN NULL ELSE h.next[at[k - 1]]
    <3>1. \A k \in 0..n : at[k] = IF k = 0 THEN s ELSE IF at[k - 1] = NULL THEN NULL
                                                  ELSE h.next[at[k - 1]]
      <4> HIDE DEF at
      <4> QED
        BY <1>5
    <3>2. 0 \in 0..n /\ \A k \in 1..n : k \in 0..n /\ k # 0
      BY <1>1
    <3> HIDE DEF at, n
    <3> QED
      BY <3>1, <3>2
  <2> HIDE DEF at, g, n
  <2> QED
    BY <1>2, <1>3, <2>1 DEF SameSteps
<1>7. \A k \in 0..n : at[k] = g[k]
  <2> HIDE DEF at, g, n
  <2> QED
    BY <1>1, <1>6, RecursionUnique
<1>8. \A k \in 1..n + 1 : at[k - 1] = IF k <= Len(c) THEN c[k] ELSE NULL
  <2> TAKE k \in 1..n + 1
  <2>1. k - 1 \in 0..n
    BY <1>1
  <2>2. g[k - 1] = IF k - 1 < Len(c) THEN c[(k - 1) + 1] ELSE NULL
    BY <2>1
  <2> HIDE DEF at, g, n
  <2> QED
    BY <1>1, <1>7, <2>1, <2>2
<1>9. Chain(h, s) = [k \in {k \in 1..n + 1 : at[k - 1] # NULL} |-> at[k - 1]]
  BY DEF Chain
<1> HIDE DEF at, n
<1>10. {k \in 1..n + 1 : at[k - 1] # NULL} = 1..Len(c)
  BY <1>1, <1>8
<1>11. \A k \in 1..Len(c) : at[k - 1] = c[k]
  BY <1>1, <1>8
<1>12. c = [k \in 1..Len(c) |-> c[k]]
  BY DEF Links
<1> QED
  BY <1>9, <1>10, <1>11, <1>12

-----------------------------------------------------------------------------
(* d is the part of c from place m to place n.                             *)
Slice(d, T, c, m, n) ==
  /\ d \in Seq(T) /\ d = SubSeq(c, m, n) /\ Len(d) = n - m + 1
  /\ \A j \in 1..n - m + 1 : d[j] = c[m + j - 1]

LEMMA SliceExists ==
  ASSUME NEW T, NEW c \in Seq(T), NEW m \in 1..Len(c) + 1, NEW n \in m - 1..Len(c)
  PROVE  \E d : Slice(d, T, c, m, n)
<1>1. m \in Int /\ n \in Int /\ \A j \in m..n : c[j] \in T
  OBVIOUS
<1>2. /\ SubSeq(c, m, n) \in Seq(T)
      /\ Len(SubSeq(c, m, n)) = IF m <= n THEN n - m + 1 ELSE 0
      /\ \A j \in 1..n - m + 1 : SubSeq(c, m, n)[j] = c[m + j - 1]
  BY <1>1, SubSeqProperties
<1>3. PICK d : d = SubSeq(c, m, n)
  OBVIOUS
<1>4. Len(d) = n - m + 1
  BY <1>1, <1>2, <1>3
<1>5. Slice(d, T, c, m, n)
  BY <1>2, <1>3, <1>4 DEF Slice
<1> QED
  BY <1>5

(* r is u followed by v.                                                   *)
Joined(r, T, u, v) ==
  /\ r \in Seq(T) /\ r = u \o v /\ Len(r) = Len(u) + Len(v)
  /\ \A j \in 1..Len(u) + Len(v) : r[j] = IF j <= Len(u) THEN u[j] ELSE v[j - Len(u)]

LEMMA JoinExists ==
  ASSUME NEW T, NEW u \in Seq(T), NEW v \in Seq(T)
  PROVE  \E r : Joined(r, T, u, v)
<1>1. Joined(u \o v, T, u, v)
  BY ConcatProperties DEF Joined
<1> QED
  BY <1>1

(* An element put in at place m moves those from m on back by one.         *)
Inserted(d, T, c, m, x) ==
  /\ d \in Seq(T) /\ Len(d) = Len(c) + 1
  /\ \A j \in 1..Len(c) + 1 : d[j] = IF j < m THEN c[j] ELSE IF j = m THEN x ELSE c[j - 1]

LEMMA InsertByPlace ==
  ASSUME NEW T, NEW c \in Seq(T), NEW x \in T, NEW m \in 1..Len(c) + 1
  PROVE  Inserted(InsertAt(c, m, x), T, c, m, x)
<1>1. PICK N \in Nat : N = Len(c)
  OBVIOUS
<1>2. m \in 1..N + 1 /\ m - 1 \in 0..N /\ N \in m - 1..N
  BY <1>1
<1>3. PICK a : Slice(a, T, c, 1, m - 1)
  <2>1. 1 \in 1..Len(c) + 1 /\ m - 1 \in 1 - 1..Len(c)
    BY <1>1, <1>2
  <2> QED
    BY <2>1, SliceExists
<1>4. PICK b : Slice(b, T, c, m, N)
  BY <1>1, <1>2, SliceExists
<1>5. a \in Seq(T) /\ b \in Seq(T) /\ Len(a) = m - 1 /\ Len(b) = N - m + 1
  BY <1>2, <1>3, <1>4 DEF Slice
<1>6. PICK d \in Seq(T) : /\ d = a \o <<x>> /\ Len(d) = m
                          /\ \A j \in 1..m : d[j] = IF j < m THEN a[j] ELSE x
  <2>1. PICK w \in Seq(T) : w = <<x>> /\ Len(w) = 1 /\ w[1] = x
    <3>1. <<x>> \in Seq(T) /\ Len(<<x>>) = 1 /\ <<x>>[1] = x
      OBVIOUS
    <3> QED
      BY <3>1
  <2>2. PICK d : Joined(d, T, a, w)
    BY <1>5, JoinExists
  <2>3. Len(a) + Len(w) = m
    BY <1>2, <1>5, <2>1
  <2>4. ASSUME NEW j \in 1..m PROVE d[j] = IF j < m THEN a[j] ELSE x
    <3>1. j \in 1..Len(a) + Len(w)
      BY <2>3
    <3>2. d[j] = IF j <= Len(a) THEN a[j] ELSE w[j - Len(a)]
      BY <2>2, <3>1 DEF Joined
    <3>3. (j <= Len(a) <=> j < m) /\ (~(j < m) => j - Len(a) = 1)
      BY <1>2, <1>5
    <3> QED
      BY <2>1, <3>2, <3>3
  <2> QED
    BY <2>1, <2>2, <2>3, <2>4 DEF Joined
<1>7. PICK r \in Seq(T) : /\ r = d \o b /\ Len(r) = N + 1
                          /\ \A j \in 1..N + 1 : r[j] = IF j <= m THEN d[j] ELSE b[j - m]
  <2>1. PICK r : Joined(r, T, d, b)
    BY <1>5, JoinExists
  <2>2. Len(d) = m /\ Len(d) + Len(b) = N + 1
    <3>1. Len(d) = m /\ Len(b) = N - m + 1
      BY <1>5, <1>6
    <3>2. m + (N - m + 1) = N + 1
      BY <1>2
    <3> QED
      BY <3>1, <3>2
  <2> QED
    BY <2>1, <2>2 DEF Joined
<1>8. InsertAt(c, m, x) = r
  BY <1>1, <1>3, <1>4, <1>6, <1>7 DEF InsertAt, Slice
<1>9. ASSUME NEW j \in 1..N + 1
      PROVE  r[j] = IF j < m THEN c[j] ELSE IF j = m THEN x ELSE c[j - 1]
  <2>1. CASE j < m
    <3>1. j \in 1..m - 1 - 1 + 1 /\ j \in 1..m /\ 1 + j - 1 = j
      BY <1>2, <2>1
    <3> QED
      BY <1>3, <1>6, <1>7, <2>1, <3>1 DEF Slice
  <2>2. CASE j = m
    BY <1>2, <1>6, <1>7, <2>2
  <2>3. CASE j > m
    <3>1. j - m \in 1..N - m + 1 /\ m + (j - m) - 1 = j - 1
      BY <1>2, <2>3
    <3>2. b[j - m] = c[j - 1]
      BY <1>4, <3>1 DEF Slice
    <3>3. ~(j <= m) /\ ~(j < m) /\ j # m
      BY <1>2, <2>3
    <3> QED
      BY <1>7, <3>2, <3>3
  <2> QED
    BY <1>2, <2>1, <2>2, <2>3
<1> QED
  BY <1>1, <1>7, <1>8, <1>9 DEF Inserted

(* The element at place m taken out moves those behind it forward by one.  *)
Removed(d, T, c, m) ==
  /\ d \in Seq(T) /\ Len(d) = Len(c) - 1
  /\ \A j \in 1..Len(c) - 1 : d[j] = IF j < m THEN c[j] ELSE c[j + 1]

LEMMA RemoveByPlace ==
  ASSUME NEW T, NEW c \in Seq(T), NEW m \in 1..Len(c)
  PROVE  Removed(RemoveAt(c, m), T, c, m)
<1>1. PICK N \in Nat : N = Len(c)
  OBVIOUS
<1>2. /\ m \in 1..N /\ m - 1 \in 0..N /\ m + 1 \in 1..N + 1 /\ N \in m..N
      /\ m = (m + 1) - 1 /\ 1 \in 1..N + 1
  BY <1>1
<1>3. PICK a : Slice(a, T, c, 1, m - 1)
  <2>1. 1 \in 1..Len(c) + 1 /\ m - 1 \in 1 - 1..Len(c)
    BY <1>1, <1>2
  <2> QED
    BY <2>1, SliceExists
<1>4. PICK b : Slice(b, T, c, m + 1, N)
  BY <1>1, <1>2, SliceExists
<1>5. a \in Seq(T) /\ b \in Seq(T) /\ Len(a) = m - 1 /\ Len(b) = N - m
  BY <1>2, <1>3, <1>4 DEF Slice
<1>6. PICK r \in Seq(T) : /\ r = a \o b /\ Len(r) = N - 1
                          /\ \A j \in 1..N - 1 :
                               r[j] = IF j <= m - 1 THEN a[j] ELSE b[j - (m - 1)]
  <2>1. PICK r : Joined(r, T, a, b)
    BY <1>5, JoinExists
  <2>2. Len(a) = m - 1 /\ Len(a) + Len(b) = N - 1
    BY <1>2, <1>5
  <2> QED
    BY <2>1, <2>2 DEF Joined
<1>7. RemoveAt(c, m) = r
  BY <1>1, <1>3, <1>4, <1>6 DEF RemoveAt, Slice
<1>8. ASSUME NEW j \in 1..N - 1
      PROVE  r[j] = IF j < m THEN c[j] ELSE c[j + 1]
  <2>1. CASE j < m
    <3>1. j \in 1..m - 1 - 1 + 1 /\ j <= m - 1 /\ 1 + j - 1 = j
      BY <1>2, <2>1
    <3> QED
      BY <1>3, <1>6, <2>1, <3>1 DEF Slice
  <2>2. CASE j >= m
    <3>1. /\ j - (m - 1) \in 1..N - (m + 1) + 1 /\ (m + 1) + (j - (m - 1)) - 1 = j + 1
          /\ ~(j <= m - 1) /\ ~(j < m)
      BY <1>2, <2>2
    <3>2. b[j - (m - 1)] = c[j + 1]
      BY <1>4, <3>1 DEF Slice
    <3> QED
      BY <1>6, <3>1, <3>2
  <2> QED
    BY <1>2, <2>1, <2>2
<1> QED
  BY <1>1, <1>6, <1>7, <1>8 DEF Removed

-----------------------------------------------------------------------------
(* What a chain says of its places, for the lemmas below.                  *)
LEMMA LinksByPlace ==
  ASSUME NEW h, NEW s, NEW c, Links(h, s, c)
  PROVE  /\ Len(c) \in Nat /\ c \in Seq(Items)
         /\ \A k \in 1..Len(c) : c[k] \in Items /\ c[k] # NULL
         /\ \A j, k \in 1..Len(c) : c[j] = c[k] <=> j = k
         /\ Len(c) > 0 => s = c[1]
         /\ Len(c) = 0 => s = NULL
         /\ \A k \in 1..Len(c) : /\ k < Len(c) => h.next[c[k]] = c[k + 1]
                                 /\ k = Len(c) => h.next[c[k]] = NULL
                                 /\ k > 1 => h.prev[c[k]] = c[k - 1]
                                 /\ k = 1 => h.prev[c[k]] = NULL
<1>1. c \in Seq(Items) /\ Len(c) \in Nat /\ \A k \in 1..Len(c) : c[k] \in Items
  BY DEF Links
<1>2. \A k \in 1..Len(c) : c[k] # NULL
  BY <1>1, NullIsNoItem
<1>3. \A j, k \in 1..Len(c) : c[j] = c[k] <=> j = k
  BY DEF Links, Distinct
<1>4. (Len(c) > 0 => s = c[1]) /\ (Len(c) = 0 => s = NULL)
  BY <1>1 DEF Links
<1>5. ASSUME NEW k \in 1..Len(c)
      PROVE  /\ k < Len(c) => h.next[c[k]] = c[k + 1]
             /\ k = Len(c) => h.next[c[k]] = NULL
             /\ k > 1 => h.prev[c[k]] = c[k - 1]
             /\ k = 1 => h.prev[c[k]] = NULL
  BY <1>1 DEF Links
<1> QED
  BY <1>1, <1>2, <1>3, <1>4, <1>5

(* An item linked behind the one at place m.                               *)
LEMMA LinkBehind ==
  ASSUME NEW h, NEW s, NEW c, Links(h, s, c), NEW m \in 1..Len(c),
         NEW x \in Items, \A k \in 1..Len(c) : c[k] # x,
         NEW d, Inserted(d, Items, c, m + 1, x)
  PROVE  Links(Linked(h, c[m], x), s, d)
<1> DEFINE g == Linked(h, c[m], x)
<1>1. PICK N \in Nat : N = Len(c)
  BY LinksByPlace
<1>2. /\ \A k \in 1..N : c[k] \in Items /\ c[k] # NULL /\ c[k] # x
      /\ \A j, k \in 1..N : c[j] = c[k] <=> j = k
      /\ s = c[1] /\ m \in 1..N /\ N > 0
      /\ \A k \in 1..N : /\ k < N => h.next[c[k]] = c[k + 1]
                         /\ k = N => h.next[c[k]] = NULL
                         /\ k > 1 => h.prev[c[k]] = c[k - 1]
                         /\ k = 1 => h.prev[c[k]] = NULL
  <2>1. m \in 1..N /\ N > 0 /\ Len(c) > 0
    BY <1>1
  <2>2. s = c[1]
    BY <2>1, LinksByPlace
  <2>3. \A k \in 1..N : c[k] \in Items /\ c[k] # NULL
    BY <1>1, LinksByPlace
  <2>4. \A j, k \in 1..N : c[j] = c[k] <=> j = k
    BY <1>1, LinksByPlace
  <2>5. \A k \in 1..N : /\ k < N => h.next[c[k]] = c[k + 1]
                        /\ k = N => h.next[c[k]] = NULL
                        /\ k > 1 => h.prev[c[k]] = c[k - 1]
                        /\ k = 1 => h.prev[c[k]] = NULL
    BY <1>1, LinksByPlace
  <2> QED
    BY <1>1, <2>1, <2>2, <2>3, <2>4, <2>5
<1>3. /\ d \in Seq(Items) /\ Len(d) = N + 1
      /\ \A j \in 1..N + 1 : /\ j <= m => d[j] = c[j]
                             /\ j = m + 1 => d[j] = x
                             /\ j > m + 1 => d[j] = c[j - 1]
  BY <1>1, <1>2 DEF Inserted
<1>4. PICK behind : /\ behind = h.next[c[m]]
                    /\ m < N => behind = c[m + 1]
                    /\ m = N => behind = NULL
  BY <1>2
<1>5. \A i \in Items :
        /\ g.next[i] = IF i = x THEN behind ELSE IF i = c[m] THEN x ELSE h.next[i]
        /\ g.prev[i] = IF i = x THEN c[m] ELSE IF i = behind THEN x ELSE h.prev[i]
  BY <1>2, <1>4 DEF Linked
<1>6. x # NULL
  BY NullIsNoItem
<1>10. m \in 1..N /\ N \in Nat
  BY <1>2
<1> HIDE DEF g
<1>7. ASSUME NEW j \in 1..N + 1
      PROVE  /\ g.next[d[j]] = IF j = N + 1 THEN NULL ELSE d[j + 1]
             /\ g.prev[d[j]] = IF j = 1 THEN NULL ELSE d[j - 1]
  <2>1. CASE j < m
    <3>1. j \in 1..N /\ j < N /\ j + 1 \in 1..N + 1 /\ j + 1 <= m
      BY <1>2, <2>1
    <3>2. d[j] = c[j] /\ d[j + 1] = c[j + 1] /\ (j > 1 => d[j - 1] = c[j - 1])
      BY <1>2, <1>3, <2>1, <3>1
    <3>3. c[j] # c[m] /\ c[j] # x /\ c[j] # behind
      <4>1. j # m /\ (m < N => m + 1 \in 1..N /\ j # m + 1) /\ (m < N \/ m = N)
        BY <1>10, <2>1
      <4>2. c[j] # c[m] /\ c[j] # x /\ c[j] # NULL
        BY <1>2, <3>1, <4>1
      <4>3. m < N => c[j] # c[m + 1]
        BY <1>2, <3>1, <4>1
      <4> QED
        BY <1>4, <4>1, <4>2, <4>3
    <3>4. /\ c[j] \in Items /\ h.next[c[j]] = c[j + 1]
          /\ j > 1 => h.prev[c[j]] = c[j - 1]
          /\ j = 1 => h.prev[c[j]] = NULL
      BY <1>2, <3>1
    <3>5. g.next[c[j]] = h.next[c[j]] /\ g.prev[c[j]] = h.prev[c[j]]
      BY <1>5, <3>3, <3>4
    <3>6. j # N + 1 /\ (j = 1 \/ (j > 1 /\ j # 1))
      BY <1>10, <3>1
    <3> QED
      BY <3>2, <3>4, <3>5, <3>6
  <2>2. CASE j = m
    <3>1. j \in 1..N /\ j + 1 \in 1..N + 1 /\ j + 1 = m + 1
      BY <1>2, <2>2
    <3>2. d[j] = c[m] /\ d[j + 1] = x /\ (j > 1 => d[j - 1] = c[j - 1])
      BY <1>2, <1>3, <2>2, <3>1
    <3>3. c[m] # x /\ c[m] # behind
      BY <1>2, <1>4
    <3> QED
      BY <1>2, <1>5, <2>2, <3>1, <3>2, <3>3
  <2>3. CASE j = m + 1
    <3>1. d[j] = x /\ j - 1 \in 1..N + 1 /\ d[j - 1] = c[m] /\ j # 1
      BY <1>2, <1>3, <2>3
    <3>2. j < N + 1 => d[j + 1] = c[m + 1]
      BY <1>2, <1>3, <2>3
    <3> QED
      BY <1>2, <1>4, <1>5, <2>3, <3>1, <3>2
  <2>4. CASE j > m + 1
    <3>1. j - 1 \in 1..N /\ j - 1 > m /\ j - 1 > 1
      BY <1>2, <2>4
    <3>2. /\ d[j] = c[j - 1] /\ (j < N + 1 => d[j + 1] = c[j])
          /\ (j = m + 2 => d[j - 1] = x) /\ (j # m + 2 => d[j - 1] = c[j - 2])
      <4>1. /\ j - 1 \in 1..N + 1 /\ j \in 1..N + 1
            /\ j < N + 1 => j + 1 \in 1..N + 1 /\ j + 1 > m + 1 /\ (j + 1) - 1 = j
            /\ j = m + 2 => j - 1 = m + 1
            /\ j # m + 2 => j - 1 > m + 1 /\ (j - 1) - 1 = j - 2
        BY <1>10, <2>4
      <4> QED
        BY <1>3, <2>4, <4>1
    <3>3. c[j - 1] # c[m] /\ c[j - 1] # x /\ (c[j - 1] = behind <=> j = m + 2)
      <4>1. j - 1 \in 1..N /\ j - 1 # m /\ m < N /\ m + 1 \in 1..N
            /\ (j - 1 = m + 1 <=> j = m + 2)
        BY <1>10, <2>4
      <4>2. behind = c[m + 1]
        BY <1>4, <4>1
      <4> QED
        BY <1>2, <4>1, <4>2
    <3>4. /\ j < N + 1 => h.next[c[j - 1]] = c[j]
          /\ j = N + 1 => h.next[c[j - 1]] = NULL
          /\ h.prev[c[j - 1]] = c[j - 2]
      BY <1>2, <3>1
    <3>5. c[j - 1] \in Items /\ d[j] = c[j - 1]
      BY <1>2, <3>1, <3>2
    <3>6. g.next[d[j]] = h.next[c[j - 1]]
      BY <1>5, <3>3, <3>5
    <3>7. g.prev[d[j]] = IF c[j - 1] = behind THEN x ELSE h.prev[c[j - 1]]
      BY <1>5, <3>3, <3>5
    <3>8. g.next[d[j]] = IF j = N + 1 THEN NULL ELSE d[j + 1]
      BY <3>2, <3>4, <3>6
    <3>9. j # 1 /\ g.prev[d[j]] = d[j - 1]
      BY <3>1, <3>2, <3>3, <3>4, <3>7
    <3> QED
      BY <3>8, <3>9
  <2> QED
    BY <1>2, <2>1, <2>2, <2>3, <2>4
<1>8. Distinct(d)
  <2> SUFFICES ASSUME NEW j \in 1..N + 1, NEW k \in 1..N + 1, j # k PROVE d[j] # d[k]
    BY <1>3 DEF Distinct
  <2>0. \A i \in 1..N + 1 : i # m + 1 => d[i] # x
    <3> TAKE i \in 1..N + 1
    <3>1. CASE i <= m
      <4>1. i \in 1..N
        BY <1>2, <3>1
      <4>2. d[i] = c[i]
        BY <1>3, <3>1
      <4> QED
        BY <1>2, <4>1, <4>2
    <3>2. CASE i > m + 1
      <4>1. i - 1 \in 1..N
        BY <1>2, <3>2
      <4>2. d[i] = c[i - 1]
        BY <1>3, <3>2
      <4> QED
        BY <1>2, <4>1, <4>2
    <3> QED
      BY <1>2, <3>1, <3>2
  <2>1. CASE j = m + 1 \/ k = m + 1
    BY <1>3, <2>0, <2>1
  <2>2. CASE j # m + 1 /\ k # m + 1
    <3>1. PICK a \in 1..N : a = (IF j <= m THEN j ELSE j - 1) /\ d[j] = c[a]
      <4>1. (j <= m => j \in 1..N) /\ (~(j <= m) => j - 1 \in 1..N /\ j > m + 1)
        BY <1>10, <2>2
      <4> QED
        BY <1>3, <4>1
    <3>2. PICK b \in 1..N : b = (IF k <= m THEN k ELSE k - 1) /\ d[k] = c[b]
      <4>1. (k <= m => k \in 1..N) /\ (~(k <= m) => k - 1 \in 1..N /\ k > m + 1)
        BY <1>10, <2>2
      <4> QED
        BY <1>3, <4>1
    <3>3. a # b
      BY <1>10, <2>2, <3>1, <3>2
    <3>4. \A i, l \in 1..N : c[i] = c[l] <=> i = l
      BY <1>2
    <3> QED
      BY <3>1, <3>2, <3>3, <3>4
  <2> QED
    BY <2>1, <2>2
<1>9. s = d[1]
  BY <1>2, <1>3
<1> QED
  BY <1>3, <1>7, <1>8, <1>9 DEF Links, g

(* The first item of a chain.                                              *)
LEMMA LinkFirst ==
  ASSUME NEW h, NEW x \in Items
  PROVE  Links(Linked(h, NULL, x), x, <<x>>)
<1> DEFINE g == Linked(h, NULL, x)
<1>1. PICK c \in Seq(Items) : c = <<x>> /\ Len(c) = 1 /\ c[1] = x
  <2>1. <<x>> \in Seq(Items) /\ Len(<<x>>) = 1 /\ <<x>>[1] = x
    OBVIOUS
  <2> QED
    BY <2>1
<1>2. g.next[x] = NULL /\ g.prev[x] = NULL
  BY DEF Linked
<1>3. Distinct(c)
  BY <1>1 DEF Distinct
<1> HIDE DEF g
<1>4. Links(g, x, c)
  BY <1>1, <1>2, <1>3 DEF Links
<1> QED
  BY <1>1, <1>4 DEF g

(* The item at place m unlinked and freed.                                 *)
LEMMA UnlinkAt ==
  ASSUME NEW h, NEW s, NEW c, Links(h, s, c), NEW m \in 1..Len(c),
         NEW d, Removed(d, Items, c, m)
  PROVE  Links(Freed(Unlinked(h, c[m]), {c[m]}), IF s = c[m] THEN h.next[c[m]] ELSE s, d)
<1> DEFINE g == Freed(Unlinked(h, c[m]), {c[m]})
<1>1. PICK N \in Nat : N = Len(c)
  BY LinksByPlace
<1>2. m \in 1..N /\ N > 0 /\ s = c[1]
  <2>1. m \in 1..N /\ N > 0 /\ Len(c) > 0
    BY <1>1
  <2> QED
    BY <2>1, LinksByPlace
<1>3. \A k \in 1..N : c[k] \in Items /\ c[k] # NULL
  BY <1>1, LinksByPlace
<1>4. \A j, k \in 1..N : c[j] = c[k] <=> j = k
  BY <1>1, LinksByPlace
<1>5. \A k \in 1..N : /\ k < N => h.next[c[k]] = c[k + 1]
                      /\ k = N => h.next[c[k]] = NULL
                      /\ k > 1 => h.prev[c[k]] = c[k - 1]
                      /\ k = 1 => h.prev[c[k]] = NULL
  BY <1>1, LinksByPlace
<1>6. /\ d \in Seq(Items) /\ Len(d) = N - 1
      /\ \A j \in 1..N - 1 : /\ j < m => d[j] = c[j]
                             /\ j >= m => d[j] = c[j + 1]
  BY <1>1, <1>2 DEF Removed
<1>7. PICK behind : /\ behind = h.next[c[m]]
                    /\ m < N => behind = c[m + 1]
                    /\ m = N => behind = NULL
  BY <1>2, <1>5
<1>8. PICK before : /\ before = h.prev[c[m]]
                    /\ m > 1 => before = c[m - 1]
                    /\ m = 1 => before = NULL
  BY <1>2, <1>5
<1>9. \A i \in Items : i # c[m] =>
        /\ g.next[i] = IF i = before THEN behind ELSE h.next[i]
        /\ g.prev[i] = IF i = behind THEN before ELSE h.prev[i]
  BY <1>7, <1>8 DEF Unlinked, Freed
<1> HIDE DEF g
<1>10. ASSUME NEW j \in 1..N - 1
       PROVE  /\ g.next[d[j]] = IF j = N - 1 THEN NULL ELSE d[j + 1]
              /\ g.prev[d[j]] = IF j = 1 THEN NULL ELSE d[j - 1]
  <2>1. CASE j < m
    <3>1. j \in 1..N /\ j < N
      BY <1>2, <2>1
    <3>2. d[j] = c[j] /\ (j > 1 => d[j - 1] = c[j - 1])
      BY <1>2, <1>6, <2>1, <3>1
    <3>3. j < N - 1 => d[j + 1] = IF j = m - 1 THEN c[m + 1] ELSE c[j + 1]
      BY <1>2, <1>6, <2>1
    <3>4. c[j] \in Items /\ c[j] # c[m] /\ c[j] # behind /\ (c[j] = before <=> j = m - 1)
      BY <1>2, <1>3, <1>4, <1>7, <1>8, <2>1, <3>1
    <3>5. /\ h.next[c[j]] = c[j + 1]
          /\ j > 1 => h.prev[c[j]] = c[j - 1]
          /\ j = 1 => h.prev[c[j]] = NULL
      BY <1>5, <3>1
    <3>6. /\ g.next[c[j]] = IF j = m - 1 THEN behind ELSE c[j + 1]
          /\ g.prev[c[j]] = h.prev[c[j]]
      BY <1>9, <3>4, <3>5
    <3>7. g.prev[d[j]] = IF j = 1 THEN NULL ELSE d[j - 1]
      BY <3>1, <3>2, <3>5, <3>6
    <3>8. g.next[d[j]] = IF j = N - 1 THEN NULL ELSE d[j + 1]
      <4>1. CASE j = m - 1
        <5>1. j = N - 1 <=> m = N
          BY <1>2, <2>1, <4>1
        <5>2. m # N => m < N /\ j < N - 1
          BY <1>2, <2>1, <4>1
        <5> QED
          BY <1>7, <3>2, <3>3, <3>6, <4>1, <5>1, <5>2
      <4>2. CASE j # m - 1
        <5>1. j < N - 1 /\ j # N - 1
          BY <1>2, <2>1, <4>2
        <5> QED
          BY <3>2, <3>3, <3>6, <4>2, <5>1
      <4> QED
        BY <4>1, <4>2
    <3> QED
      BY <3>7, <3>8
  <2>2. CASE j >= m
    <3>1. j + 1 \in 1..N /\ j + 1 > m /\ j + 1 > 1
      BY <1>2, <2>2
    <3>2. d[j] = c[j + 1] /\ (j < N - 1 => d[j + 1] = c[(j + 1) + 1])
      BY <1>2, <1>6, <2>2
    <3>3. j > 1 => d[j - 1] = IF j = m THEN c[m - 1] ELSE c[(j + 1) - 1]
      BY <1>2, <1>6, <2>2
    <3>4. /\ c[j + 1] \in Items /\ c[j + 1] # c[m] /\ c[j + 1] # before
          /\ c[j + 1] = behind <=> j = m
      BY <1>2, <1>3, <1>4, <1>7, <1>8, <2>2, <3>1
    <3>5. /\ h.prev[c[j + 1]] = c[(j + 1) - 1]
          /\ j + 1 < N => h.next[c[j + 1]] = c[(j + 1) + 1]
          /\ j + 1 = N => h.next[c[j + 1]] = NULL
      BY <1>5, <3>1
    <3>6. /\ g.next[c[j + 1]] = h.next[c[j + 1]]
          /\ g.prev[c[j + 1]] = IF j = m THEN before ELSE c[(j + 1) - 1]
      BY <1>9, <3>4, <3>5
    <3>7. g.next[d[j]] = IF j = N - 1 THEN NULL ELSE d[j + 1]
      <4>1. (j = N - 1 => j + 1 = N) /\ (j # N - 1 => j + 1 < N /\ j < N - 1)
        BY <1>2
      <4> QED
        BY <3>2, <3>5, <3>6, <4>1
    <3>8. g.prev[d[j]] = IF j = 1 THEN NULL ELSE d[j - 1]
      <4>1. CASE j = m
        <5>1. (j = 1 <=> m = 1) /\ (j # 1 => j > 1 /\ m > 1)
          BY <1>2, <4>1
        <5> QED
          BY <1>8, <3>2, <3>3, <3>6, <4>1, <5>1
      <4>2. CASE j # m
        <5>1. j > 1 /\ j # 1
          BY <1>2, <2>2, <4>2
        <5> QED
          BY <3>2, <3>3, <3>6, <4>2, <5>1
      <4> QED
        BY <4>1, <4>2
    <3> QED
      BY <3>7, <3>8
  <2> QED
    BY <1>2, <2>1, <2>2
<1>11. Distinct(d)
  <2> SUFFICES ASSUME NEW j \in 1..N - 1, NEW k \in 1..N - 1, j # k PROVE d[j] # d[k]
    BY <1>6 DEF Distinct
  <2>1. PICK a \in 1..N : a = (IF j < m THEN j ELSE j + 1) /\ d[j] = c[a]
    BY <1>2, <1>6
  <2>2. PICK b \in 1..N : b = (IF k < m THEN k ELSE k + 1) /\ d[k] = c[b]
    BY <1>2, <1>6
  <2>3. a # b
    BY <1>2, <2>1, <2>2
  <2> QED
    BY <1>4, <2>1, <2>2, <2>3
<1>12. (IF s = c[m] THEN h.next[c[m]] ELSE s) = IF N - 1 = 0 THEN NULL ELSE d[1]
  <2>1. s = c[m] <=> m = 1
    BY <1>2, <1>4
  <2>2. CASE N = 1
    BY <1>2, <1>7, <2>1, <2>2
  <2>3. CASE N # 1
    <3>1. 1 \in 1..N - 1 /\ N - 1 # 0
      BY <1>2, <2>3
    <3>2. CASE m = 1
      BY <1>2, <1>6, <1>7, <2>1, <2>3, <3>1, <3>2
    <3>3. CASE m # 1
      BY <1>2, <1>6, <2>1, <3>1, <3>3
    <3> QED
      BY <3>2, <3>3
  <2> QED
    BY <2>2, <2>3
<1> QED
  BY <1>6, <1>10, <1>11, <1>12 DEF Links, g

-----------------------------------------------------------------------------
(* d is c with the elements at places m and m + 1 swapped.                 *)
Swapped(d, T, c, m) ==
  /\ d \in Seq(T) /\ Len(d) = Len(c)
  /\ d[m] = c[m + 1] /\ d[m + 1] = c[m]
  /\ \A j \in 1..Len(c) : j # m /\ j # m + 1 => d[j] = c[j]

LEMMA SwapExists ==
  ASSUME NEW T, NEW c \in Seq(T), NEW m \in 1..Len(c) - 1
  PROVE  \E d : Swapped(d, T, c, m)
<1>1. PICK N \in Nat : N = Len(c) /\ m \in 1..N /\ m + 1 \in 1..N /\ m # m + 1
  OBVIOUS
<1>2. \A j \in 1..N : c[j] \in T
  BY <1>1
<1> DEFINE d == [j \in 1..N |-> IF j = m THEN c[m + 1] ELSE IF j = m + 1 THEN c[m] ELSE c[j]]
<1>3. d \in Seq(T) /\ Len(d) = N
  BY <1>1, <1>2
<1>4. /\ d[m] = c[m + 1] /\ d[m + 1] = c[m]
      /\ \A j \in 1..N : j # m /\ j # m + 1 => d[j] = c[j]
  BY <1>1
<1> HIDE DEF d
<1>5. Swapped(d, T, c, m)
  BY <1>1, <1>3, <1>4 DEF Swapped
<1> QED
  BY <1>5

(* The item at place m unlinked and linked again behind the next one.      *)
LEMMA SwapAt ==
  ASSUME NEW h, NEW s, NEW c, Links(h, s, c), NEW m \in 1..Len(c) - 1,
         NEW d, Swapped(d, Items, c, m)
  PROVE  LET g == Linked(Unlinked(h, c[m]), c[m + 1], c[m])
         IN  /\ Links(g, IF c[m] = s THEN c[m + 1] ELSE s, d)
             /\ g.next[c[m + 1]] = c[m]
<1> DEFINE u == Unlinked(h, c[m])
           g == Linked(u, c[m + 1], c[m])
<1>1. PICK N \in Nat : N = Len(c)
  BY LinksByPlace
<1>2. m \in 1..N /\ m + 1 \in 1..N /\ m < N /\ s = c[1]
  <2>1. m \in 1..N /\ m + 1 \in 1..N /\ m < N /\ Len(c) > 0
    BY <1>1
  <2> QED
    BY <2>1, LinksByPlace
<1>3. \A k \in 1..N : c[k] \in Items /\ c[k] # NULL
  BY <1>1, LinksByPlace
<1>4. \A j, k \in 1..N : c[j] = c[k] <=> j = k
  BY <1>1, LinksByPlace
<1>5. \A k \in 1..N : /\ k < N => h.next[c[k]] = c[k + 1]
                      /\ k = N => h.next[c[k]] = NULL
                      /\ k > 1 => h.prev[c[k]] = c[k - 1]
                      /\ k = 1 => h.prev[c[k]] = NULL
  BY <1>1, LinksByPlace
<1>6. /\ d \in Seq(Items) /\ Len(d) = N
      /\ d[m] = c[m + 1] /\ d[m + 1] = c[m]
      /\ \A j \in 1..N : j # m /\ j # m + 1 => d[j] = c[j]
  BY <1>1 DEF Swapped
<1>7. PICK before : /\ before = h.prev[c[m]]
                    /\ m > 1 => before = c[m - 1]
                    /\ m = 1 => before = NULL
  BY <1>2, <1>5
<1>8. PICK behind : /\ behind = h.next[c[m + 1]]
                    /\ m + 1 < N => behind = c[(m + 1) + 1]
                    /\ m + 1 = N => behind = NULL
  BY <1>2, <1>5
<1>9. PICK x \in Items, y \in Items : x = c[m] /\ y = c[m + 1] /\ x # y /\ x # NULL /\ y # NULL
  BY <1>2, <1>3, <1>4
<1>10. h.next[x] = y
  BY <1>2, <1>5, <1>9
<1>11. y # before /\ x # before /\ x # behind /\ y # behind /\ (before # NULL => before # behind)
  <2>1. m > 1 => m - 1 \in 1..N
    BY <1>2
  <2>2. m + 1 < N => (m + 1) + 1 \in 1..N
    BY <1>2
  <2>3. m = 1 \/ m > 1
    BY <1>2
  <2>4. m + 1 = N \/ m + 1 < N
    BY <1>2
  <2>5. y # before /\ x # before
    BY <1>2, <1>4, <1>7, <1>9, <2>1, <2>3
  <2>6. x # behind /\ y # behind
    BY <1>2, <1>4, <1>8, <1>9, <2>2, <2>4
  <2>7. before # NULL => before # behind
    <3> SUFFICES ASSUME before # NULL PROVE before # behind
      OBVIOUS
    <3>1. m > 1 /\ before = c[m - 1] /\ m - 1 \in 1..N
      BY <1>7, <2>1, <2>3
    <3>2. CASE m + 1 = N
      BY <1>8, <3>2
    <3>3. CASE m + 1 < N
      BY <1>2, <1>4, <1>8, <2>2, <3>1, <3>3
    <3> QED
      BY <2>4, <3>2, <3>3
  <2> QED
    BY <2>5, <2>6, <2>7
<1>12. \A i \in Items : /\ u.prev[i] = IF i = y THEN before ELSE h.prev[i]
                        /\ u.next[i] = IF i = before THEN y ELSE h.next[i]
  BY <1>7, <1>9, <1>10 DEF Unlinked
<1> HIDE DEF u
<1>13. u.next[y] = behind
  BY <1>8, <1>9, <1>11, <1>12
<1>14. \A i \in Items :
         /\ g.prev[i] = IF i = x THEN y ELSE IF i = behind THEN x ELSE u.prev[i]
         /\ g.next[i] = IF i = x THEN behind ELSE IF i = y THEN x ELSE u.next[i]
  BY <1>9, <1>13 DEF Linked
<1> HIDE DEF g
<1>15. /\ g.next[x] = behind /\ g.prev[x] = y
       /\ g.next[y] = x /\ g.prev[y] = before
       /\ \A i \in Items : i # x /\ i # y =>
            /\ g.next[i] = IF i = before THEN y ELSE h.next[i]
            /\ g.prev[i] = IF i = behind THEN x ELSE h.prev[i]
  BY <1>9, <1>11, <1>12, <1>14
<1>16. ASSUME NEW j \in 1..N
       PROVE  /\ g.next[d[j]] = IF j = N THEN NULL ELSE d[j + 1]
              /\ g.prev[d[j]] = IF j = 1 THEN NULL ELSE d[j - 1]
  <2>1. CASE j = m
    <3>1. d[j] = y /\ d[j + 1] = x /\ j # N
      BY <1>2, <1>6, <1>9, <2>1
    <3>2. j > 1 => d[j - 1] = c[m - 1]
      BY <1>2, <1>6, <2>1
    <3>3. j = 1 \/ j > 1
      BY <1>2, <2>1
    <3> QED
      BY <1>7, <1>15, <2>1, <3>1, <3>2, <3>3
  <2>2. CASE j = m + 1
    <3>1. d[j] = x /\ d[j - 1] = y /\ j # 1
      BY <1>2, <1>6, <1>9, <2>2
    <3>2. j < N => d[j + 1] = c[(m + 1) + 1]
      BY <1>2, <1>6, <2>2
    <3>3. j = N \/ (j < N /\ j # N)
      BY <1>2, <2>2
    <3> QED
      BY <1>8, <1>15, <2>2, <3>1, <3>2, <3>3
  <2>3. CASE j # m /\ j # m + 1
    <3>1. d[j] = c[j] /\ c[j] \in Items /\ c[j] # x /\ c[j] # y
      BY <1>2, <1>3, <1>4, <1>6, <1>9, <2>3
    <3>2. g.next[d[j]] = IF j = N THEN NULL ELSE d[j + 1]
      <4>1. CASE j = m - 1
        <5>1. m > 1 /\ c[j] = before /\ j # N /\ d[j + 1] = y
          BY <1>2, <1>6, <1>7, <1>9, <4>1
        <5> QED
          BY <1>15, <3>1, <5>1
      <4>2. CASE j # m - 1
        <5>1. c[j] # before
          <6>1. CASE m = 1
            BY <1>3, <1>7, <6>1
          <6>2. CASE m > 1
            <7>1. m - 1 \in 1..N /\ before = c[m - 1]
              BY <1>2, <1>7, <6>2
            <7> QED
              BY <1>4, <4>2, <7>1
          <6> QED
            BY <1>2, <6>1, <6>2
        <5>2. g.next[c[j]] = h.next[c[j]]
          BY <1>15, <3>1, <5>1
        <5>3. j < N => d[j + 1] = c[j + 1]
          BY <1>2, <1>6, <2>3, <4>2
        <5>4. (j < N => h.next[c[j]] = c[j + 1]) /\ (j = N => h.next[c[j]] = NULL)
          BY <1>5
        <5>5. j = N \/ (j < N /\ j # N)
          BY <1>2
        <5> QED
          BY <3>1, <5>2, <5>3, <5>4, <5>5
      <4> QED
        BY <4>1, <4>2
    <3>3. g.prev[d[j]] = IF j = 1 THEN NULL ELSE d[j - 1]
      <4>1. CASE j = m + 2
        <5>1. m + 1 < N /\ c[j] = behind /\ j # 1 /\ d[j - 1] = x
          BY <1>2, <1>6, <1>8, <1>9, <4>1
        <5> QED
          BY <1>15, <3>1, <5>1
      <4>2. CASE j # m + 2
        <5>1. c[j] # behind
          <6>1. CASE m + 1 = N
            BY <1>3, <1>8, <6>1
          <6>2. CASE m + 1 < N
            <7>1. (m + 1) + 1 \in 1..N /\ behind = c[(m + 1) + 1] /\ j # (m + 1) + 1
              BY <1>2, <1>8, <4>2, <6>2
            <7> QED
              BY <1>4, <7>1
          <6> QED
            BY <1>2, <6>1, <6>2
        <5>2. g.prev[c[j]] = h.prev[c[j]]
          BY <1>15, <3>1, <5>1
        <5>3. j > 1 => d[j - 1] = c[j - 1]
          <6>1. j > 1 => j - 1 \in 1..N /\ j - 1 # m /\ j - 1 # m + 1
            BY <1>2, <2>3, <4>2
          <6> QED
            BY <1>6, <6>1
        <5>4. (j > 1 => h.prev[c[j]] = c[j - 1]) /\ (j = 1 => h.prev[c[j]] = NULL)
          BY <1>5
        <5>5. j = 1 \/ (j > 1 /\ j # 1)
          BY <1>2
        <5> QED
          BY <3>1, <5>2, <5>3, <5>4, <5>5
      <4> QED
        BY <4>1, <4>2
    <3> QED
      BY <3>2, <3>3
  <2> QED
    BY <2>1, <2>2, <2>3
<1>17. Distinct(d)
  <2> SUFFICES ASSUME NEW j \in 1..N, NEW k \in 1..N, j # k PROVE d[j] # d[k]
    BY <1>6 DEF Distinct
  <2>1. PICK a \in 1..N : /\ a = (IF j = m THEN m + 1 ELSE IF j = m + 1 THEN m ELSE j)
                          /\ d[j] = c[a]
    BY <1>2, <1>6
  <2>2. PICK b \in 1..N : /\ b = (IF k = m THEN m + 1 ELSE IF k = m + 1 THEN m ELSE k)
                          /\ d[k] = c[b]
    BY <1>2, <1>6
  <2>3. a # b
    BY <1>2, <2>1, <2>2
  <2> QED
    BY <1>4, <2>1, <2>2, <2>3
<1>18. (IF c[m] = s THEN c[m + 1] ELSE s) = d[1] /\ N # 0
  <2>1. c[m] = s <=> m = 1
    BY <1>2, <1>4
  <2>2. m # 1 => d[1] = c[1]
    BY <1>2, <1>6
  <2> QED
    BY <1>2, <1>6, <2>1, <2>2
<1>19. Links(g, IF c[m] = s THEN c[m + 1] ELSE s, d)
  BY <1>6, <1>16, <1>17, <1>18 DEF Links
<1>20. g.next[c[m + 1]] = c[m]
  BY <1>9, <1>15
<1> QED
  BY <1>19, <1>20 DEF g, u

-----------------------------------------------------------------------------
(* c is o with its items moved the way a stable sort may move them: p      *)
(* tells where each stood, and an item has only passed another one if it   *)
(* belongs in front of it.                                                 *)
Moved(p, c, o, v) ==
  /\ p \in [1..Len(o) -> 1..Len(o)]
  /\ Len(c) = Len(o)
  /\ \A k \in 1..Len(o) : c[k] = o[p[k]]
  /\ \A i \in 1..Len(o) : \E k \in 1..Len(o) : p[k] = i
  /\ \A k, l \in 1..Len(o) : k < l => p[k] # p[l] /\ (p[k] < p[l] \/ v[c[k]] > v[c[l]])

LEMMA NothingMoved ==
  ASSUME NEW o \in Seq(Items), NEW v
  PROVE  \E p : Moved(p, o, o, v)
<1> DEFINE p == [k \in 1..Len(o) |-> k]
<1>1. Len(o) \in Nat
  OBVIOUS
<1>2. p \in [1..Len(o) -> 1..Len(o)] /\ \A k \in 1..Len(o) : p[k] = k
  OBVIOUS
<1> HIDE DEF p
<1>3. Moved(p, o, o, v)
  BY <1>1, <1>2 DEF Moved
<1> QED
  BY <1>3

LEMMA SwapMoves ==
  ASSUME NEW o \in Seq(Items), NEW v \in [Items -> Int], NEW c \in Seq(Items),
         NEW p, Moved(p, c, o, v),
         NEW m \in 1..Len(c) - 1, v[c[m]] < v[c[m + 1]],
         NEW d, Swapped(d, Items, c, m)
  PROVE  \E q : Moved(q, d, o, v)
<1>1. PICK N \in Nat : N = Len(o) /\ N = Len(c)
  BY DEF Moved
<1>2. m \in 1..N /\ m + 1 \in 1..N
  BY <1>1
<1> DEFINE x == [k \in 1..N |-> IF k = m THEN m + 1 ELSE IF k = m + 1 THEN m ELSE k]
           q == [k \in 1..N |-> p[x[k]]]
<1>3. \A k \in 1..N : /\ x[k] \in 1..N /\ (k # m /\ k # m + 1 => x[k] = k)
                      /\ (k = m => x[k] = m + 1) /\ (k = m + 1 => x[k] = m)
  BY <1>2
<1>4. \A k \in 1..N : \E l \in 1..N : x[l] = k
  <2> TAKE k \in 1..N
  <2>1. x[x[k]] = k
    BY <1>2
  <2> QED
    BY <1>3, <2>1
<1> HIDE DEF x
<1>5. \A k \in 1..N : d[k] = c[x[k]]
  <2> TAKE k \in 1..N
  <2>1. CASE k = m
    BY <1>3, <2>1 DEF Swapped
  <2>2. CASE k = m + 1
    BY <1>3, <2>2 DEF Swapped
  <2>3. CASE k # m /\ k # m + 1
    BY <1>1, <1>3, <2>3 DEF Swapped
  <2> QED
    BY <2>1, <2>2, <2>3
<1>6. q \in [1..N -> 1..N] /\ \A k \in 1..N : q[k] = p[x[k]]
  BY <1>1, <1>3 DEF Moved
<1> HIDE DEF q
<1>7. ASSUME NEW k \in 1..N PROVE d[k] = o[q[k]]
  <2>1. x[k] \in 1..N
    BY <1>3
  <2>2. c[x[k]] = o[p[x[k]]]
    BY <1>1, <2>1 DEF Moved
  <2> QED
    BY <1>5, <1>6, <2>2
<1>8. ASSUME NEW i \in 1..N PROVE \E k \in 1..N : q[k] = i
  <2>1. PICK j \in 1..N : p[j] = i
    BY <1>1 DEF Moved
  <2>2. PICK k \in 1..N : x[k] = j
    BY <1>4
  <2> QED
    BY <1>6, <2>1, <2>2
<1>9. ASSUME NEW k \in 1..N, NEW l \in 1..N, k < l
      PROVE  q[k] # q[l] /\ (q[k] < q[l] \/ v[d[k]] > v[d[l]])
  <2>1. PICK a \in 1..N, b \in 1..N : a = x[k] /\ b = x[l]
    BY <1>3
  <2>2. q[k] = p[a] /\ q[l] = p[b] /\ d[k] = c[a] /\ d[l] = c[b]
    BY <1>5, <1>6, <2>1
  <2>3. CASE a < b
    <3>1. p[a] # p[b] /\ (p[a] < p[b] \/ v[c[a]] > v[c[b]])
      BY <1>1, <2>3 DEF Moved
    <3> QED
      BY <2>2, <3>1
  <2>4. CASE ~(a < b)
    <3>1. k = m /\ l = m + 1 /\ a = m + 1 /\ b = m
      <4>1. /\ (k # m /\ k # m + 1 => a = k) /\ (k = m => a = m + 1) /\ (k = m + 1 => a = m)
            /\ (l # m /\ l # m + 1 => b = l) /\ (l = m => b = m + 1) /\ (l = m + 1 => b = m)
        BY <1>3, <2>1
      <4> QED
        BY <1>2, <1>9, <2>4, <4>1
    <3>2. m < m + 1
      BY <1>2
    <3>3. p[m] # p[m + 1]
      BY <1>1, <1>2, <3>2 DEF Moved
    <3>4. v[c[m + 1]] > v[c[m]]
      <4>1. c[m] \in Items /\ c[m + 1] \in Items
        BY <1>1, <1>2
      <4>2. v[c[m]] \in Int /\ v[c[m + 1]] \in Int
        BY <4>1
      <4> QED
        BY <4>2
    <3> QED
      BY <2>2, <3>1, <3>3, <3>4
  <2> QED
    BY <2>3, <2>4
<1>10. Len(d) = N
  BY <1>1 DEF Swapped
<1>11. Moved(q, d, o, v)
  BY <1>1, <1>6, <1>7, <1>8, <1>9, <1>10 DEF Moved
<1> QED
  BY <1>11

-----------------------------------------------------------------------------
(* A sequence of numbers in which no number is less than the one behind it *)
(* goes down from end to end.                                              *)
Falls(w, N) ==
  /\ \A k \in 1..N : w[k] \in Int
  /\ \A k \in 1..N - 1 : w[k] >= w[k + 1]

LEMMA FallsThroughout ==
  ASSUME NEW N \in Nat, NEW w, Falls(w, N), NEW k \in 1..N, NEW l \in 1..N, k < l
  PROVE  w[k] >= w[l]
<1> DEFINE Bad == {j \in 1..N : k < j /\ w[k] < w[j]}
<1>1. Bad \in SUBSET Nat
  OBVIOUS
<1>2. w[k] \in Int /\ w[l] \in Int
  BY DEF Falls
<1>3. SUFFICES ASSUME Bad # {} PROVE FALSE
  BY <1>2
<1>4. PICK j \in Bad : \A i \in Bad : j <= i
  <2> HIDE DEF Bad
  <2> QED
    BY <1>1, <1>3, LeastExists
<1>5. j \in 1..N /\ k < j /\ w[k] < w[j]
  BY <1>4
<1>6. j - 1 \in 1..N - 1 /\ j - 1 \in 1..N /\ (j - 1) + 1 = j
  BY <1>5
<1>7. w[j - 1] >= w[j] /\ w[j] \in Int /\ w[j - 1] \in Int
  <2>1. w[j - 1] >= w[(j - 1) + 1]
    BY <1>6 DEF Falls
  <2>2. w[j] \in Int /\ w[j - 1] \in Int
    BY <1>5, <1>6 DEF Falls
  <2> QED
    BY <1>6, <2>1, <2>2
<1>8. w[k] < w[j - 1]
  BY <1>2, <1>5, <1>7
<1>9. j - 1 # k
  BY <1>2, <1>8
<1>10. j - 1 \in Bad
  BY <1>5, <1>6, <1>8, <1>9
<1> HIDE DEF Bad
<1> QED
  BY <1>4, <1>5, <1>6, <1>10

(* The keys of c fall.                                                     *)
Ordered(c, v) == Falls([k \in 1..Len(c) |-> v[c[k]]], Len(c))

(* Two places of o, the item at the first belonging before the other.      *)
Goes(o, v, n) ==
  {b \in (1..n) \X (1..n) :
     v[o[b[1]]] > v[o[b[2]]] \/ (b[1] < b[2] /\ ~(v[o[b[2]]] > v[o[b[1]]]))}

LEMMA MovedIsEnumeration ==
  ASSUME NEW o \in Seq(Items), NEW v \in [Items -> Int], NEW c \in Seq(Items),
         NEW p, Moved(p, c, o, v), Ordered(c, v)
  PROVE  InRankOrder(p, Goes(o, v, Len(o)), Len(o))
<1>1. PICK n \in Nat : n = Len(o) /\ n = Len(c)
  BY DEF Moved
<1> DEFINE B == Goes(o, v, n)
<1>2. ASSUME NEW i \in 1..n PROVE v[o[i]] \in Int
  <2>1. \A k \in 1..Len(o) : o[k] \in Items
    OBVIOUS
  <2>2. o[i] \in Items
    BY <1>1, <2>1
  <2> QED
    BY <2>2
<1>3. \A i, j \in 1..n :
         <<i, j>> \in B <=> v[o[i]] > v[o[j]] \/ (i < j /\ ~(v[o[j]] > v[o[i]]))
  BY DEF Goes
<1> HIDE DEF B
<1>4. TotalOrder(B, n)
  <2>1. ASSUME NEW i \in 1..n PROVE <<i, i>> \notin B
    <3>1. v[o[i]] \in Int /\ ~(i < i)
      BY <1>2
    <3>2. ~(v[o[i]] > v[o[i]])
      BY <3>1
    <3> QED
      BY <1>3, <3>1, <3>2
  <2>2. ASSUME NEW i \in 1..n, NEW j \in 1..n, NEW k \in 1..n,
               <<i, j>> \in B, <<j, k>> \in B
        PROVE  <<i, k>> \in B
    <3>1. v[o[i]] \in Int /\ v[o[j]] \in Int /\ v[o[k]] \in Int
      BY <1>2
    <3>2. v[o[i]] > v[o[j]] \/ (i < j /\ ~(v[o[j]] > v[o[i]]))
      BY <1>3, <2>2
    <3>3. v[o[j]] > v[o[k]] \/ (j < k /\ ~(v[o[k]] > v[o[j]]))
      BY <1>3, <2>2
    <3>4. v[o[i]] > v[o[k]] \/ (i < k /\ ~(v[o[k]] > v[o[i]]))
      BY <3>1, <3>2, <3>3
    <3> QED
      BY <1>3, <3>4
  <2>3. ASSUME NEW i \in 1..n, NEW j \in 1..n, i # j
        PROVE  <<i, j>> \in B \/ <<j, i>> \in B
    BY <1>2, <1>3, <2>3
  <2> QED
    BY <2>1, <2>2, <2>3 DEF TotalOrder
<1>5. ASSUME NEW k \in 1..n, NEW l \in 1..n, k < l
      PROVE  <<p[k], p[l]>> \in B
  <2>1. PICK x \in 1..n, y \in 1..n : x = p[k] /\ y = p[l]
    BY <1>1 DEF Moved
  <2>2. c[k] = o[x] /\ c[l] = o[y] /\ x # y /\ (x < y \/ v[c[k]] > v[c[l]])
    BY <1>1, <1>5, <2>1 DEF Moved
  <2>3. v[o[x]] \in Int /\ v[o[y]] \in Int
    BY <1>2
  <2>4. v[c[k]] >= v[c[l]]
    <3> DEFINE w == [i \in 1..n |-> v[c[i]]]
    <3>1. Falls(w, n)
      BY <1>1 DEF Ordered
    <3>2. w[k] = v[c[k]] /\ w[l] = v[c[l]]
      OBVIOUS
    <3> HIDE DEF w
    <3>3. w[k] >= w[l]
      BY <1>5, <3>1, FallsThroughout
    <3> QED
      BY <3>2, <3>3
  <2>5. v[o[x]] > v[o[y]] \/ (x < y /\ ~(v[o[y]] > v[o[x]]))
    BY <2>2, <2>3, <2>4
  <2> QED
    BY <1>3, <2>1, <2>5
<1>6. p \in [1..n -> 1..n] /\ \A i \in 1..n : \E k \in 1..n : p[k] = i
  BY <1>1 DEF Moved
<1>7. Enumerates(p, B, n)
  BY <1>5, <1>6 DEF Enumerates
<1> QED
  BY <1>1, <1>4, <1>7, RankOrderUnique DEF B

(* Items that were moved that way and are in order are sorted stably.      *)
LEMMA SortedIsStable ==
  ASSUME NEW o \in Seq(Items), key \in [Items -> Int], NEW c \in Seq(Items),
         NEW p, Moved(p, c, o, key), Ordered(c, key)
  PROVE  StableSort(o) = c
<1>1. PICK n \in Nat : n = Len(o) /\ n = Len(c)
  BY DEF Moved
<1> DEFINE B == Goes(o, key, n)
           Before(j, i) == \/ KeyAbove(o[j], o[i])
                           \/ j < i /\ ~KeyAbove(o[i], o[j])
           rank(i) == Cardinality({j \in DOMAIN o : Before(j, i)}) + 1
<1>2. DOMAIN o = 1..n /\ c = [k \in 1..n |-> c[k]]
  <2>1. DOMAIN o = 1..Len(o) /\ c = [k \in 1..Len(c) |-> c[k]]
    OBVIOUS
  <2> HIDE DEF B
  <2> QED
    BY <1>1, <2>1
<1>3. InRankOrder(p, B, n)
  BY <1>1, MovedIsEnumeration
<1>4. ASSUME NEW i \in 1..n PROVE rank(i) = RankIn(B, n, i)
  <2>1. {j \in 1..n : <<j, i>> \in B} = {j \in DOMAIN o : Before(j, i)}
    BY <1>2 DEF Goes, KeyAbove
  <2> HIDE DEF B, Before
  <2> QED
    BY <2>1 DEF RankIn
<1>5. StableSort(o) = [k \in DOMAIN o |-> o[CHOOSE i \in DOMAIN o : rank(i) = k]]
  BY DEF StableSort
<1> HIDE DEF rank, B
<1>6. ASSUME NEW k \in 1..n PROVE o[CHOOSE i \in DOMAIN o : rank(i) = k] = c[k]
  <2>1. \A i \in 1..n : rank(i) = k <=> p[k] = i
    BY <1>3, <1>4 DEF InRankOrder
  <2>2. p[k] \in 1..n
    BY <1>3 DEF InRankOrder
  <2>3. (CHOOSE i \in DOMAIN o : rank(i) = k) = p[k]
    BY <1>2, <2>1, <2>2
  <2>4. c[k] = o[p[k]]
    BY <1>1 DEF Moved
  <2> QED
    BY <2>3, <2>4
<1> QED
  BY <1>2, <1>5, <1>6

-----------------------------------------------------------------------------
(* The inductive invariant.  Between two calls the heap links the items in *)
(* the order asked for.  During a sort it links some c that has the items  *)
(* of that order moved as a stable sort may move them; in a pass, the sort *)
(* is at a place m of c, and as long as the pass has swapped nothing, the  *)
(* items before m are in order.                                            *)
Visiting(m, c, cu, la, ch, v) ==
  /\ m \in 1..Len(c) + 1
  /\ cu = IF m = Len(c) + 1 THEN NULL ELSE c[m]
  /\ la = IF m = 1 THEN NULL ELSE c[m - 1]
  /\ ch = 0 => \A k \in 1..m - 2 : v[c[k]] >= v[c[k + 1]]

OnHeap(c, p, h, s, o, v) == Links(h, s, c) /\ Moved(p, c, o, v)

BetweenPasses(h, s, o, v) == \E c, p : OnHeap(c, p, h, s, o, v)

InPass(h, s, o, v, cu, la, ch) ==
  \E c, p, m : OnHeap(c, p, h, s, o, v) /\ Visiting(m, c, cu, la, ch, v)

TypesOK ==
  /\ order \in Seq(Items)
  /\ key \in [Items -> Keys]
  /\ changed \in {0, 1}
  /\ pc \in {"caller", "pass", "visit"}

IInv ==
  /\ TypesOK
  /\ pc = "caller" => Links(heap, start, order)
  /\ pc = "pass" => BetweenPasses(heap, start, order, key)
  /\ pc = "visit" => InPass(heap, start, order, key, curr, last, changed)

(* No item: an empty chain.                                                *)
LEMMA LinksNothing ==
  ASSUME NEW h
  PROVE  Links(h, NULL, <<>>)
<1>1. PICK c \in Seq(Items) : c = <<>> /\ Len(c) = 0
  <2>1. <<>> \in Seq(Items) /\ Len(<<>>) = 0
    OBVIOUS
  <2> QED
    BY <2>1
<1>2. Distinct(c)
  BY <1>1 DEF Distinct
<1>3. Links(h, NULL, c)
  BY <1>1, <1>2 DEF Links
<1> QED
  BY <1>1, <1>3

LEMMA InitIInv == Init => IInv
<1> SUFFICES ASSUME Init PROVE IInv
  OBVIOUS
<1>1. <<>> \in Seq(Items)
  OBVIOUS
<1>2. Links(heap, start, order)
  BY LinksNothing DEF Init
<1> QED
  BY <1>1, <1>2 DEF Init, IInv, TypesOK

LEMMA CreateLastKeeps ==
  ASSUME IInv, NEW item \in Items, CreateLast(item)
  PROVE  IInv'
<1>1. /\ pc = "caller" /\ pc' = "caller" /\ order' = Append(order, item)
      /\ heap' = Linked(heap, LastOf(heap, start), item)
      /\ start' = (IF start = NULL THEN item ELSE start)
      /\ key' = key /\ changed' = changed /\ item \notin ToSet(order)
  BY DEF CreateLast, InCaller
<1>2. order \in Seq(Items) /\ Links(heap, start, order)
  BY <1>1 DEF IInv, TypesOK
<1>3. PICK N \in Nat : N = Len(order)
  BY <1>2
<1>4. /\ order' \in Seq(Items) /\ Len(order') = N + 1 /\ order'[N + 1] = item
      /\ \A k \in 1..N : order'[k] = order[k]
  <2> HIDE DEF IInv
  <2> QED
    BY <1>1, <1>2, <1>3, AppendProperties
<1>5. Links(heap', start', order')
  <2>1. CASE N = 0
    <3>1. start = NULL
      <4>1. Len(order) = 0
        BY <1>3, <2>1
      <4> HIDE DEF IInv
      <4> QED
        BY <1>2, <4>1, LinksByPlace
    <3>2. order = <<>>
      BY <1>2, <1>3, <2>1, EmptySeq
    <3>3. order' = <<item>>
      BY <1>1, <3>2
    <3> QED
      BY <1>1, <3>1, <3>3, LinkFirst DEF LastOf
  <2>2. CASE N > 0
    <3>1. start # NULL
      <4>1. 1 \in 1..Len(order)
        BY <1>3, <2>2
      <4> QED
        BY <1>2, <1>3, <2>2, <4>1, LinksByPlace
    <3>2. LastOf(heap, start) = order[N]
      BY <1>2, <1>3, <3>1, ChainIs DEF LastOf, Last
    <3>3. \A k \in 1..Len(order) : order[k] # item
      BY <1>1, <1>2 DEF ToSet
    <3>4. N \in 1..Len(order)
      BY <1>3, <2>2
    <3>5. Inserted(order', Items, order, N + 1, item)
      <4>1. ASSUME NEW j \in 1..N + 1
            PROVE  order'[j] = IF j < N + 1 THEN order[j]
                               ELSE IF j = N + 1 THEN item ELSE order[j - 1]
        <5>1. j \in 1..N \/ j = N + 1
          BY <1>3
        <5> QED
          BY <1>4, <5>1
      <4> QED
        BY <1>3, <1>4, <4>1 DEF Inserted
    <3> HIDE DEF IInv
    <3>6. Links(Linked(heap, order[N], item), start, order')
      BY <1>2, <3>3, <3>4, <3>5, LinkBehind
    <3> QED
      BY <1>1, <3>1, <3>2, <3>6
  <2> QED
    BY <1>3, <2>1, <2>2
<1> QED
  BY <1>1, <1>4, <1>5 DEF IInv, TypesOK

(* The place of an item of the chain.                                      *)
LEMMA PlaceIs ==
  ASSUME order \in Seq(Items), NEW item, item \in ToSet(order)
  PROVE  Place(item) \in 1..Len(order) /\ order[Place(item)] = item
<1>1. DOMAIN order = 1..Len(order) /\ \E i \in DOMAIN order : order[i] = item
  BY DEF ToSet
<1> QED
  BY <1>1 DEF Place

LEMMA CreateBehindKeeps ==
  ASSUME IInv, NEW p \in Items, NEW item \in Items, CreateBehind(p, item)
  PROVE  IInv'
<1>1. /\ pc = "caller" /\ pc' = "caller" /\ order' = InsertAt(order, Place(p) + 1, item)
      /\ heap' = Linked(heap, p, item) /\ start' = start
      /\ key' = key /\ changed' = changed
      /\ p \in ToSet(order) /\ item \notin ToSet(order)
  BY DEF CreateBehind, InCaller
<1>2. order \in Seq(Items) /\ Links(heap, start, order)
  BY <1>1 DEF IInv, TypesOK
<1>3. PICK m \in 1..Len(order) : m = Place(p) /\ order[m] = p
  BY <1>1, <1>2, PlaceIs
<1>4. m + 1 \in 1..Len(order) + 1
  BY <1>2
<1>5. Inserted(order', Items, order, m + 1, item)
  <2> HIDE DEF IInv
  <2> QED
    BY <1>1, <1>2, <1>3, <1>4, InsertByPlace
<1>6. \A k \in 1..Len(order) : order[k] # item
  BY <1>1, <1>2 DEF ToSet
<1>7. Links(heap', start', order')
  <2>1. Links(Linked(heap, order[m], item), start, order')
    <3> HIDE DEF IInv
    <3> QED
      BY <1>2, <1>5, <1>6, LinkBehind
  <2> QED
    BY <1>1, <1>3, <2>1
<1> QED
  BY <1>1, <1>5, <1>7 DEF IInv, TypesOK, Inserted

LEMMA RemoveItemKeeps ==
  ASSUME IInv, NEW item \in Items, RemoveItem(item)
  PROVE  IInv'
<1>1. /\ pc = "caller" /\ pc' = "caller" /\ order' = RemoveAt(order, Place(item))
      /\ heap' = Freed(Unlinked(heap, item), {item})
      /\ start' = (IF start = item THEN heap.next[item] ELSE start)
      /\ key' = key /\ changed' = changed /\ item \in ToSet(order)
  BY DEF RemoveItem, InCaller
<1>2. order \in Seq(Items) /\ Links(heap, start, order)
  BY <1>1 DEF IInv, TypesOK
<1>3. PICK m \in 1..Len(order) : m = Place(item) /\ order[m] = item
  BY <1>1, <1>2, PlaceIs
<1>4. Removed(order', Items, order, m)
  <2> HIDE DEF IInv
  <2> QED
    BY <1>1, <1>2, <1>3, RemoveByPlace
<1>5. Links(heap', start', order')
  <2>1. Links(Freed(Unlinked(heap, order[m]), {order[m]}),
              IF start = order[m] THEN heap.next[order[m]] ELSE start, order')
    <3> HIDE DEF IInv
    <3> QED
      BY <1>2, <1>4, UnlinkAt
  <2> QED
    BY <1>1, <1>3, <2>1
<1> QED
  BY <1>1, <1>4, <1>5 DEF IInv, TypesOK, Removed

LEMMA FreeAllKeeps ==
  ASSUME IInv, FreeAll
  PROVE  IInv'
<1>1. /\ pc' = "caller" /\ order' = <<>> /\ start' = NULL
      /\ key' = key /\ changed' = changed
  BY DEF FreeAll, InCaller
<1>2. order' \in Seq(Items) /\ Links(heap', start', order')
  BY <1>1, LinksNothing
<1> QED
  BY <1>1, <1>2 DEF IInv, TypesOK

LEMMA CallSortKeeps ==
  ASSUME IInv, CallSort
  PROVE  IInv'
<1>1. /\ pc = "caller" /\ pc' = "pass" /\ order' = order /\ start' = start /\ heap' = heap
      /\ key' = key /\ changed' = changed
  BY DEF CallSort, InCaller
<1>2. order \in Seq(Items) /\ Links(heap, start, order)
  BY <1>1 DEF IInv, TypesOK
<1>3. PICK p : Moved(p, order, order, key)
  BY <1>2, NothingMoved
<1>4. BetweenPasses(heap, start, order, key)
  BY <1>2, <1>3 DEF BetweenPasses, OnHeap
<1> QED
  BY <1>1, <1>4 DEF IInv, TypesOK

LEMMA BeginPassKeeps ==
  ASSUME IInv, BeginPass
  PROVE  IInv'
<1>1. /\ pc = "pass" /\ pc' = "visit" /\ heap' = heap /\ start' = start /\ order' = order
      /\ key' = key /\ changed' = 0 /\ last' = NULL /\ curr' = start
  BY DEF BeginPass
<1>2. PICK c, p : OnHeap(c, p, heap, start, order, key)
  BY <1>1 DEF IInv, BetweenPasses
<1>3. /\ Len(c) \in Nat
      /\ Len(c) > 0 => start = c[1]
      /\ Len(c) = 0 => start = NULL
  <2> HIDE DEF IInv
  <2> QED
    BY <1>2, LinksByPlace DEF OnHeap
<1>4. Visiting(1, c, start, NULL, 0, key)
  BY <1>3 DEF Visiting
<1>5. InPass(heap, start, order, key, start, NULL, 0)
  BY <1>2, <1>4 DEF InPass
<1> QED
  BY <1>1, <1>5 DEF IInv, TypesOK

(* What the sort does with an item that does not have to be swapped.       *)
LEMMA VisitGoesOn ==
  ASSUME NEW h, NEW s, NEW o, NEW v \in [Items -> Int], NEW cu, NEW la, NEW ch,
         InPass(h, s, o, v, cu, la, ch), cu # NULL, la = NULL \/ ~(v[la] < v[cu])
  PROVE  InPass(h, s, o, v, h.next[cu], cu, ch)
<1>1. PICK c, p, m : OnHeap(c, p, h, s, o, v) /\ Visiting(m, c, cu, la, ch, v)
  BY DEF InPass
<1>2. PICK N \in Nat : N = Len(c)
  BY <1>1, LinksByPlace DEF OnHeap
<1>3. m \in 1..N /\ cu = c[m]
  BY <1>1, <1>2 DEF Visiting
<1>4. \A k \in 1..N : c[k] \in Items /\ c[k] # NULL
  BY <1>1, <1>2, LinksByPlace DEF OnHeap
<1>5. /\ m < N => h.next[cu] = c[m + 1]
      /\ m = N => h.next[cu] = NULL
  <2>1. \A k \in 1..Len(c) : /\ k < Len(c) => h.next[c[k]] = c[k + 1]
                             /\ k = Len(c) => h.next[c[k]] = NULL
    BY <1>1, LinksByPlace DEF OnHeap
  <2> QED
    BY <1>2, <1>3, <2>1
<1>6. m + 1 \in 1..N + 1 /\ (m + 1 = N + 1 <=> m = N) /\ (m # N => m < N)
      /\ m + 1 # 1 /\ (m + 1) - 1 = m
  BY <1>3
<1>7. ASSUME ch = 0, NEW k \in 1..(m + 1) - 2 PROVE v[c[k]] >= v[c[k + 1]]
  <2>1. CASE k \in 1..m - 2
    BY <1>1, <1>7, <2>1 DEF Visiting
  <2>2. CASE k = m - 1
    <3>1. m # 1 /\ m - 1 \in 1..N /\ k + 1 = m
      BY <1>3, <2>2
    <3>2. la = c[m - 1] /\ la # NULL
      BY <1>1, <1>4, <3>1 DEF Visiting
    <3>3. v[la] \in Int /\ v[cu] \in Int
      BY <1>3, <1>4, <3>1, <3>2
    <3> QED
      BY <1>3, <2>2, <3>1, <3>2, <3>3
  <2> QED
    BY <1>3, <2>1, <2>2
<1>8. Visiting(m + 1, c, h.next[cu], cu, ch, v)
  BY <1>2, <1>3, <1>5, <1>6, <1>7 DEF Visiting
<1> QED
  BY <1>1, <1>8 DEF InPass

(* ... and with one that has to be.                                        *)
LEMMA VisitSwaps ==
  ASSUME NEW h, NEW s, NEW o \in Seq(Items), NEW v \in [Items -> Int], NEW cu, NEW la, NEW ch,
         InPass(h, s, o, v, cu, la, ch), cu # NULL, la # NULL, v[la] < v[cu],
         NEW g, g = Linked(Unlinked(h, la), cu, la)
  PROVE  InPass(g, IF la = s THEN cu ELSE s, o, v, g.next[cu], cu, 1)
<1>1. PICK c, p, m : OnHeap(c, p, h, s, o, v) /\ Visiting(m, c, cu, la, ch, v)
  BY DEF InPass
<1>2. PICK N \in Nat : N = Len(c) /\ c \in Seq(Items)
  BY <1>1, LinksByPlace DEF OnHeap
<1>3. m \in 1..N /\ cu = c[m] /\ m # 1 /\ la = c[m - 1]
  BY <1>1, <1>2 DEF Visiting
<1>4. PICK n \in 1..Len(c) - 1 : n = m - 1 /\ la = c[n] /\ cu = c[n + 1]
  BY <1>2, <1>3
<1>5. PICK d : Swapped(d, Items, c, n)
  BY <1>2, SwapExists
<1>6. Links(g, IF la = s THEN cu ELSE s, d) /\ g.next[cu] = la
  BY <1>1, <1>4, <1>5, SwapAt DEF OnHeap
<1>7. PICK q : Moved(q, d, o, v)
  BY <1>1, <1>2, <1>4, <1>5, SwapMoves DEF OnHeap
<1>8. Len(d) = N /\ d[m - 1] = cu /\ d[m] = la /\ m \in 1..N + 1 /\ m # N + 1
  BY <1>2, <1>3, <1>4, <1>5 DEF Swapped
<1>9. Visiting(m, d, g.next[cu], cu, 1, v)
  BY <1>3, <1>6, <1>8 DEF Visiting
<1> QED
  BY <1>6, <1>7, <1>9 DEF InPass, OnHeap

LEMMA KeysAreInts ==
  ASSUME key \in [Items -> Keys]
  PROVE  key \in [Items -> Int]
BY LinkedItemsAssumption

LEMMA VisitKeeps ==
  ASSUME IInv, Visit
  PROVE  IInv'
<1>1. /\ pc = "visit" /\ pc' = "visit" /\ curr # NULL /\ key' = key /\ order' = order
      /\ last' = curr /\ curr' = heap'.next[curr]
  BY DEF Visit
<1>2. /\ order \in Seq(Items) /\ key \in [Items -> Keys] /\ key \in [Items -> Int]
      /\ changed \in {0, 1} /\ InPass(heap, start, order, key, curr, last, changed)
  BY <1>1, KeysAreInts DEF IInv, TypesOK
<1>3. CASE SwapDue
  <2>1. /\ heap' = Linked(Unlinked(heap, last), curr, last)
        /\ start' = (IF last = start THEN curr ELSE start)
        /\ changed' = 1
    BY <1>3 DEF Visit
  <2>2. last # NULL /\ key[last] < key[curr]
    BY <1>3 DEF SwapDue
  <2>3. PICK g : g = heap'
    OBVIOUS
  <2>4. InPass(g, IF last = start THEN curr ELSE start, order, key, g.next[curr], curr, 1)
    <3> HIDE DEF IInv
    <3> QED
      BY <1>1, <1>2, <2>1, <2>2, <2>3, VisitSwaps
  <2>5. InPass(heap', start', order', key', curr', last', changed')
    BY <1>1, <2>1, <2>3, <2>4
  <2> QED
    BY <1>1, <1>2, <2>1, <2>5 DEF IInv, TypesOK
<1>4. CASE ~SwapDue
  <2>1. heap' = heap /\ start' = start /\ changed' = changed
    BY <1>4 DEF Visit
  <2>2. last = NULL \/ ~(key[last] < key[curr])
    BY <1>4 DEF SwapDue
  <2>3. InPass(heap, start, order, key, heap.next[curr], curr, changed)
    <3> HIDE DEF IInv
    <3> QED
      BY <1>1, <1>2, <2>2, VisitGoesOn
  <2>4. InPass(heap', start', order', key', curr', last', changed')
    BY <1>1, <2>1, <2>3
  <2> QED
    BY <1>1, <1>2, <2>1, <2>4 DEF IInv, TypesOK
<1> QED
  BY <1>3, <1>4

LEMMA EndPassKeeps ==
  ASSUME IInv, EndPass
  PROVE  IInv'
<1>1. /\ pc = "visit" /\ curr = NULL /\ key' = key /\ heap' = heap /\ start' = start
      /\ changed' = 0
      /\ \/ changed > 0 /\ pc' = "pass" /\ order' = order
         \/ ~(changed > 0) /\ pc' = "caller" /\ order' = StableSort(order)
  BY DEF EndPass
<1>2. /\ order \in Seq(Items) /\ key \in [Items -> Keys] /\ key \in [Items -> Int]
      /\ changed \in {0, 1} /\ InPass(heap, start, order, key, curr, last, changed)
  BY <1>1, KeysAreInts DEF IInv, TypesOK
<1>3. PICK c, p, m : /\ OnHeap(c, p, heap, start, order, key)
                     /\ Visiting(m, c, curr, last, changed, key)
  BY <1>2 DEF InPass
<1>4. CASE changed > 0
  <2>1. pc' = "pass" /\ order' = order
    BY <1>1, <1>4
  <2>2. BetweenPasses(heap, start, order, key)
    BY <1>3 DEF BetweenPasses
  <2> QED
    BY <1>1, <1>2, <2>1, <2>2 DEF IInv, TypesOK
<1>5. CASE ~(changed > 0)
  <2>1. pc' = "caller" /\ order' = StableSort(order) /\ changed = 0
    BY <1>1, <1>2, <1>5
  <2>2. PICK N \in Nat : N = Len(c) /\ c \in Seq(Items)
    <3> HIDE DEF IInv
    <3> QED
      BY <1>3, LinksByPlace DEF OnHeap
  <2>3. \A k \in 1..N : c[k] \in Items /\ c[k] # NULL
    <3> HIDE DEF IInv
    <3> QED
      BY <1>3, <2>2, LinksByPlace DEF OnHeap
  <2>4. m = N + 1
    BY <1>1, <1>3, <2>2, <2>3 DEF Visiting
  <2>5. \A k \in 1..N - 1 : key[c[k]] >= key[c[k + 1]]
    <3>1. \A k \in 1..m - 2 : key[c[k]] >= key[c[k + 1]]
      BY <1>3, <2>1 DEF Visiting
    <3>2. m - 2 = N - 1
      BY <2>4
    <3> QED
      BY <3>1, <3>2
  <2>6. Ordered(c, key)
    <3> DEFINE w == [k \in 1..N |-> key[c[k]]]
    <3>1. \A k \in 1..N : w[k] \in Int
      BY <1>2, <2>3
    <3>2. ASSUME NEW k \in 1..N - 1 PROVE w[k] >= w[k + 1]
      <4>1. k \in 1..N /\ k + 1 \in 1..N
        BY <2>2
      <4>2. w[k] = key[c[k]] /\ w[k + 1] = key[c[k + 1]]
        BY <4>1
      <4> HIDE DEF w
      <4> QED
        BY <2>5, <4>2
    <3>3. Falls(w, N)
      BY <3>1, <3>2 DEF Falls
    <3> QED
      BY <2>2, <3>3 DEF Ordered
  <2>7. StableSort(order) = c
    BY <1>2, <1>3, <2>2, <2>6, SortedIsStable DEF OnHeap
  <2>8. Links(heap', start', order')
    BY <1>1, <1>3, <2>1, <2>7 DEF OnHeap
  <2> QED
    BY <1>1, <1>2, <2>1, <2>2, <2>7, <2>8 DEF IInv, TypesOK
<1> QED
  BY <1>4, <1>5

LEMMA StutterKeeps ==
  ASSUME IInv, UNCHANGED vars
  PROVE  IInv'
BY DEF IInv, TypesOK, vars

LEMMA NextKeeps ==
  ASSUME IInv, [Next]_vars
  PROVE  IInv'
<1>1. ASSUME NEW item \in Items, CreateLast(item) PROVE IInv'
  BY <1>1, CreateLastKeeps
<1>2. ASSUME NEW item \in Items, RemoveItem(item) PROVE IInv'
  BY <1>2, RemoveItemKeeps
<1>3. ASSUME NEW p \in Items, NEW item \in Items, CreateBehind(p, item) PROVE IInv'
  BY <1>3, CreateBehindKeeps
<1>4. CASE FreeAll
  BY <1>4, FreeAllKeeps
<1>5. CASE CallSort
  BY <1>5, CallSortKeeps
<1>6. CASE BeginPass
  BY <1>6, BeginPassKeeps
<1>7. CASE Visit
  BY <1>7, VisitKeeps
<1>8. CASE EndPass
  BY <1>8, EndPassKeeps
<1>9. CASE UNCHANGED vars
  BY <1>9, StutterKeeps
<1> HIDE DEF IInv
<1> QED
  BY <1>1, <1>2, <1>3, <1>4, <1>5, <1>6, <1>7, <1>8, <1>9 DEF Next, Sort

-----------------------------------------------------------------------------
(* Whatever calls of linked_items.c were made, the invariant above holds:  *)
(* no pointer is left behind by a link, an unlink, a free or a swap.       *)
THEOREM Invariance == Spec => []IInv
<1>1. Init => IInv
  BY InitIInv
<1>2. IInv /\ [Next]_vars => IInv'
  BY NextKeeps
<1> QED
  BY <1>1, <1>2, PTL DEF Spec

LEMMA IInvGivesOrder == IInv => ChainIsOrder
<1> SUFFICES ASSUME IInv, InCaller PROVE Chain(heap, start) = order
  BY DEF ChainIsOrder
<1>1. Links(heap, start, order)
  BY DEF IInv, InCaller
<1> HIDE DEF IInv
<1> QED
  BY <1>1, ChainIs

(* linked_item_create, _remove and _free leave the chain the caller asked  *)
(* for, and linked_item_sort leaves the stable sort of it: that is, equal  *)
(* items stay in the order they had, for every number of items and keys.   *)
THEOREM ChainStaysOrder == Spec => []ChainIsOrder
  BY Invariance, IInvGivesOrder, PTL

LEMMA IInvGivesItems == IInv => SortKeepsItems
<1> SUFFICES ASSUME IInv PROVE SortKeepsItems
  OBVIOUS
<1>1. PICK c, p : OnHeap(c, p, heap, start, order, key)
  <2>1. CASE pc = "caller"
    <3>1. order \in Seq(Items) /\ Links(heap, start, order)
      BY <2>1 DEF IInv, TypesOK
    <3>2. PICK p : Moved(p, order, order, key)
      BY <3>1, NothingMoved
    <3> QED
      BY <3>1, <3>2 DEF OnHeap
  <2>2. CASE pc = "pass"
    BY <2>2 DEF IInv, BetweenPasses
  <2>3. CASE pc = "visit"
    BY <2>3 DEF IInv, InPass
  <2> QED
    BY <2>1, <2>2, <2>3 DEF IInv, TypesOK
<1>2. order \in Seq(Items)
  BY DEF IInv, TypesOK
<1> HIDE DEF IInv
<1>3. Chain(heap, start) = c
  BY <1>1, ChainIs DEF OnHeap
<1>4. c \in Seq(Items) /\ Len(c) = Len(order)
  BY <1>1 DEF OnHeap, Links, Moved
<1>5. DOMAIN c = 1..Len(c) /\ DOMAIN order = 1..Len(c)
  BY <1>2, <1>4
<1>6. /\ \A k \in 1..Len(c) : p[k] \in 1..Len(c) /\ c[k] = order[p[k]]
      /\ \A i \in 1..Len(c) : \E k \in 1..Len(c) : p[k] = i
  BY <1>1, <1>4 DEF OnHeap, Moved
<1>7. ToSet(c) = ToSet(order)
  <2>1. ToSet(c) = {c[k] : k \in 1..Len(c)} /\ ToSet(order) = {order[k] : k \in 1..Len(c)}
    BY <1>5 DEF ToSet
  <2>2. ASSUME NEW k \in 1..Len(c) PROVE c[k] \in {order[i] : i \in 1..Len(c)}
    BY <1>6
  <2>3. ASSUME NEW i \in 1..Len(c) PROVE order[i] \in {c[k] : k \in 1..Len(c)}
    <3>1. PICK k \in 1..Len(c) : p[k] = i
      BY <1>6
    <3> QED
      BY <1>6, <3>1
  <2> QED
    BY <2>1, <2>2, <2>3
<1>8. \A k \in 1..Len(c) : heap.prev[c[k]] = IF k = 1 THEN NULL ELSE c[k - 1]
  BY <1>1 DEF OnHeap, Links
<1> QED
  BY <1>3, <1>4, <1>5, <1>7, <1>8 DEF SortKeepsItems

(* linked_item_sort changes pointers while it follows them, and never      *)
(* loses an item, links one twice or leaves a prev that does not lead      *)
(* back: at no step of a sort, and for every number of items.              *)
THEOREM SortLosesNothing == Spec => []SortKeepsItems
  BY Invariance, IInvGivesItems, PTL
=============================================================================
