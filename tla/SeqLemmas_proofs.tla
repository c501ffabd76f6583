--------------------------- MODULE SeqLemmas_proofs ---------------------------
(***************************************************************************)
(* Facts about sequences that the proofs of several components need: that  *)
(* a recursive function over the positions of a sequence exists and is the *)
(* only one, what Filter returns, and that the ranks of a total order are  *)
(* a permutation.                                                          *)
(***************************************************************************)
EXTENDS SeqFilter, SequencesExt, FiniteSets, FiniteSetTheorems, SequenceTheorems,
        WellFoundedInduction, TLAPS

(* A non-empty set of numbers has a least one; the theorems below argue    *)
(* with the least number for which they would fail.                        *)
LEMMA LeastExists ==
  ASSUME NEW S \in SUBSET Nat, S # {}
  PROVE  \E x \in S : \A y \in S : x <= y
<1> DEFINE R == OpToRel(<, Nat)
<1>1. IsWellFoundedOn(R, Nat)
  BY NatLessThanWellFounded
<1>2. \A x, y \in Nat : y < x => <<y, x>> \in R
  BY DEF OpToRel
<1> HIDE DEF R
<1>3. PICK x \in S : \A y \in S : ~ (<<y, x>> \in R)
  BY <1>1, WFMin
<1>4. ASSUME NEW y \in S PROVE x <= y
  <2>1. ~ (y < x)
    BY <1>2, <1>3, Zenon
  <2> QED
    BY <2>1
<1> QED
  BY <1>4

(* f starts with v and takes the step G at each position.                  *)
Recursion(f, N, V, v, G) ==
  f \in [0..N -> V] /\ f[0] = v /\ \A n \in 1..N : f[n] = G[<<n, f[n - 1]>>]

(* Such a function exists, whatever the step is.                           *)
LEMMA RecursionExists ==
  ASSUME NEW N \in Nat, NEW V, NEW v \in V, NEW G \in [(1..N) \X V -> V]
  PROVE  \E f : Recursion(f, N, V, v, G)
<1> DEFINE Good(m) == \E f \in [0..m -> V] :
                        f[0] = v /\ \A n \in 1..m : f[n] = G[<<n, f[n - 1]>>]
           Bad == {m \in 0..N : ~Good(m)}
<1>1. Good(0)
  <2> WITNESS [n \in 0..0 |-> v] \in [0..0 -> V]
  <2> QED
    OBVIOUS
<1>2. ASSUME NEW m \in 1..N, Good(m - 1) PROVE Good(m)
  <2>1. PICK f \in [0..m - 1 -> V] :
               f[0] = v /\ \A n \in 1..m - 1 : f[n] = G[<<n, f[n - 1]>>]
    BY <1>2
  <2> DEFINE g == [n \in 0..m |-> IF n = m THEN G[<<m, f[m - 1]>>] ELSE f[n]]
  <2>2. G[<<m, f[m - 1]>>] \in V
    OBVIOUS
  <2>3. g \in [0..m -> V]
    BY <2>2
  <2>4. g[0] = v
    BY <2>1
  <2>5. ASSUME NEW n \in 1..m PROVE g[n] = G[<<n, g[n - 1]>>]
    <3>1. CASE n = m
      <4>1. m - 1 \in 0..m /\ m - 1 # m
        OBVIOUS
      <4> QED
        BY <3>1, <4>1
    <3>2. CASE n # m
      <4>1. n \in 1..m - 1 /\ n - 1 \in 0..m - 1
        BY <3>2
      <4> QED
        BY <2>1, <4>1
    <3> QED
      BY <3>1, <3>2
  <2> HIDE DEF g
  <2> QED
    BY <2>3, <2>4, <2>5
<1> HIDE DEF Good
<1>3. Bad = {}
  <2> SUFFICES ASSUME Bad # {} PROVE FALSE
    OBVIOUS
  <2>1. PICK m \in Bad : \A k \in Bad : m <= k
    <3>1. Bad \in SUBSET Nat /\ Bad # {}
      OBVIOUS
    <3> HIDE DEF Bad
    <3> QED
      BY <3>1, LeastExists
  <2>2. m \in 1..N /\ m - 1 \in 0..N
    BY <1>1
  <2>3. Good(m - 1)
    BY <2>1, <2>2
  <2> QED
    BY <1>2, <2>2, <2>3
<1>4. Good(N)
  BY <1>3
<1> QED
  BY <1>4 DEF Good, Recursion

(* And there is only one: functions that begin and go on alike are equal.  *)
SameSteps(f, g, N) ==
  f[0] = g[0] /\ \A n \in 1..N : f[n - 1] = g[n - 1] => f[n] = g[n]

LEMMA RecursionUnique ==
  ASSUME NEW N \in Nat, NEW f, NEW g, SameSteps(f, g, N)
  PROVE  \A n \in 0..N : f[n] = g[n]
<1> DEFINE Bad == {n \in 0..N : f[n] # g[n]}
<1>1. Bad = {}
  <2> SUFFICES ASSUME Bad # {} PROVE FALSE
    OBVIOUS
  <2>1. PICK m \in Bad : \A k \in Bad : m <= k
    <3>1. Bad \in SUBSET Nat /\ Bad # {}
      OBVIOUS
    <3> HIDE DEF Bad
    <3> QED
      BY <3>1, LeastExists
  <2>2. m \in 1..N /\ m - 1 \in 0..N
    BY DEF SameSteps
  <2>3. f[m - 1] = g[m - 1]
    BY <2>1, <2>2
  <2> QED
    BY <2>2, <2>3 DEF SameSteps
<1> QED
  BY <1>1

-----------------------------------------------------------------------------
(* f is how Filter(s, S) comes about.                                      *)
Filters(f, T, s, S) ==
  /\ f \in [0..Len(s) -> Seq(T)]
  /\ f[0] = <<>>
  /\ \A n \in 1..Len(s) :
       f[n] = IF s[n] \in S THEN Append(f[n - 1], s[n]) ELSE f[n - 1]
  /\ Filter(s, S) = f[Len(s)]

(* Filter is what it is written as: position after position, an element is *)
(* appended or not.                                                        *)
LEMMA FilterSteps ==
  ASSUME NEW T, NEW s \in Seq(T), NEW S
  PROVE  \E f : Filters(f, T, s, S)
<1> DEFINE N == Len(s)
           G == [p \in (1..N) \X Seq(T) |->
                   IF s[p[1]] \in S THEN Append(p[2], s[p[1]]) ELSE p[2]]
           Body(f) == [n \in 0..N |-> IF n = 0 THEN <<>>
                                      ELSE IF s[n] \in S THEN Append(f[n - 1], s[n])
                                      ELSE f[n - 1]]
           F == CHOOSE f : f = Body(f)
<1>1. N \in Nat /\ <<>> \in Seq(T) /\ \A n \in 1..N : s[n] \in T
  OBVIOUS
<1>2. G \in [(1..N) \X Seq(T) -> Seq(T)]
  <2> SUFFICES ASSUME NEW p \in (1..N) \X Seq(T)
               PROVE  (IF s[p[1]] \in S THEN Append(p[2], s[p[1]]) ELSE p[2]) \in Seq(T)
    OBVIOUS
  <2>1. s[p[1]] \in T /\ p[2] \in Seq(T)
    BY <1>1
  <2> QED
    BY <2>1, AppendProperties
<1>3. \A n \in 1..N, v \in Seq(T) :
        G[<<n, v>>] = IF s[n] \in S THEN Append(v, s[n]) ELSE v
  OBVIOUS
<1> HIDE DEF G
<1>4. PICK f \in [0..N -> Seq(T)] :
             f[0] = <<>> /\ \A n \in 1..N : f[n] = G[<<n, f[n - 1]>>]
  <2>1. <<>> \in Seq(T) /\ N \in Nat
    BY <1>1
  <2> HIDE DEF N
  <2>2. \E f : Recursion(f, N, Seq(T), <<>>, G)
    BY <1>2, <2>1, RecursionExists
  <2> QED
    BY <2>2 DEF Recursion
<1>5. ASSUME NEW n \in 1..N
      PROVE  f[n] = IF s[n] \in S THEN Append(f[n - 1], s[n]) ELSE f[n - 1]
  <2>1. n - 1 \in 0..N
    BY <1>1
  <2>2. f[n - 1] \in Seq(T)
    BY <1>4, <2>1
  <2> QED
    BY <1>3, <1>4, <2>2
<1>6. f = Body(f)
  <2>1. \A n \in 0..N : n # 0 => n \in 1..N
    BY <1>1
  <2>2. f = [n \in 0..N |-> f[n]]
    BY <1>4
  <2> HIDE DEF N
  <2> QED
    BY <1>4, <1>5, <2>1, <2>2
<1>7. F = Body(F)
  <2> HIDE DEF Body
  <2> QED
    BY <1>6
<1>8. Filter(s, S) = F[N]
  BY DEF Filter
<1>9. F[0] = <<>> /\ \A n \in 1..N :
        F[n] = IF s[n] \in S THEN Append(F[n - 1], s[n]) ELSE F[n - 1]
  <2> HIDE DEF F
  <2>1. 0 \in 0..N /\ \A n \in 1..N : n \in 0..N /\ n # 0
    BY <1>1
  <2> HIDE DEF N
  <2> QED
    BY <1>7, <2>1
<1> HIDE DEF F, Body
<1>10. \A n \in 0..N : F[n] = f[n]
  <2>1. \A n \in 1..N : F[n - 1] = f[n - 1] => F[n] = f[n]
    BY <1>5, <1>9
  <2>2. F[0] = f[0] /\ N \in Nat
    BY <1>1, <1>4, <1>9
  <2> HIDE DEF N
  <2>3. SameSteps(F, f, N)
    BY <2>1, <2>2 DEF SameSteps
  <2> QED
    BY <2>2, <2>3, RecursionUnique
<1> QED
  BY <1>1, <1>4, <1>5, <1>8, <1>10 DEF Filters

LEMMA FilterType ==
  ASSUME NEW T, NEW s \in Seq(T), NEW S
  PROVE  Filter(s, S) \in Seq(T)
<1>1. PICK f : Filters(f, T, s, S)
  BY FilterSteps
<1> QED
  BY <1>1 DEF Filters

LEMMA FilterEmpty ==
  ASSUME NEW S PROVE Filter(<<>>, S) = <<>>
<1>1. <<>> \in Seq({}) /\ Len(<<>>) = 0
  OBVIOUS
<1>2. PICK f : Filters(f, {}, <<>>, S)
  BY <1>1, FilterSteps
<1> QED
  BY <1>1, <1>2 DEF Filters

(* A longer sequence keeps what the shorter one was filtered to.           *)
LEMMA FilterAppend ==
  ASSUME NEW T, NEW s \in Seq(T), NEW e \in T, NEW S
  PROVE  Filter(Append(s, e), S) = IF e \in S THEN Append(Filter(s, S), e) ELSE Filter(s, S)
<1> DEFINE t == Append(s, e)
           N == Len(s)
<1>1. t \in Seq(T) /\ Len(t) = N + 1 /\ t[N + 1] = e /\ \A n \in 1..N : t[n] = s[n]
  BY AppendProperties
<1>2. N \in Nat
  OBVIOUS
<1> HIDE DEF t
<1>3. PICK f : Filters(f, T, s, S)
  BY FilterSteps
<1>4. PICK g : Filters(g, T, t, S)
  BY <1>1, FilterSteps
<1>5. \A n \in 1..N : f[n - 1] = g[n - 1] => f[n] = g[n]
  BY <1>1, <1>2, <1>3, <1>4 DEF Filters
<1>6. f[N] = g[N]
  <2>1. f[0] = g[0]
    BY <1>3, <1>4 DEF Filters
  <2>2. \A n \in 0..N : f[n] = g[n]
    <3> HIDE DEF N
    <3>1. SameSteps(f, g, N)
      BY <1>2, <1>5, <2>1 DEF SameSteps
    <3> QED
      BY <1>2, <3>1, RecursionUnique
  <2> QED
    BY <1>2, <2>2
<1>7. g[N + 1] = IF e \in S THEN Append(g[N], e) ELSE g[N]
  BY <1>1, <1>2, <1>4 DEF Filters
<1> QED
  BY <1>1, <1>3, <1>4, <1>6, <1>7 DEF t, Filters

(* How the filtered sequence lies in the whole one: e tells the position   *)
(* each of its elements has there.                                         *)
Embeds(e, w, s, S) ==
  /\ e \in [1..Len(w) -> 1..Len(s)]
  /\ \A j, k \in 1..Len(w) : j < k => e[j] < e[k]
  /\ \A k \in 1..Len(w) : w[k] = s[e[k]] /\ s[e[k]] \in S
  /\ \A n \in 1..Len(s) : s[n] \in S => \E k \in 1..Len(w) : e[k] = n

LEMMA FilterEmbeds ==
  ASSUME NEW T, NEW s \in Seq(T), NEW S
  PROVE  \E e : Embeds(e, Filter(s, S), s, S)
<1>1. PICK f : Filters(f, T, s, S)
  BY FilterSteps
<1> DEFINE N == Len(s)
           At(e, m) ==
             /\ e \in [1..Len(f[m]) -> 1..m]
             /\ \A j, k \in 1..Len(f[m]) : j < k => e[j] < e[k]
             /\ \A k \in 1..Len(f[m]) : f[m][k] = s[e[k]] /\ s[e[k]] \in S
             /\ \A n \in 1..m : s[n] \in S => \E k \in 1..Len(f[m]) : e[k] = n
           Good(m) == \E e : At(e, m)
           Bad == {m \in 0..N : ~Good(m)}
<1>2. N \in Nat
  OBVIOUS
<1>3. Good(0)
  <2> DEFINE e == [k \in 1..0 |-> 0]
  <2>1. f[0] = <<>> /\ Len(f[0]) = 0
    BY <1>1 DEF Filters
  <2>2. At(e, 0)
    BY <2>1
  <2> QED
    BY <2>2
<1>4. ASSUME NEW m \in 1..N, Good(m - 1) PROVE Good(m)
  <2>1. PICK e : At(e, m - 1)
    BY <1>4
  <2>2. f[m - 1] \in Seq(T) /\ s[m] \in T
    BY <1>1, <1>2 DEF Filters
  <2>3. f[m] = IF s[m] \in S THEN Append(f[m - 1], s[m]) ELSE f[m - 1]
    BY <1>1, <1>2 DEF Filters
  <2>4. CASE s[m] \notin S
    <3>1. e \in [1..Len(f[m]) -> 1..m]
      BY <2>1, <2>3, <2>4
    <3>2. \A n \in 1..m : s[n] \in S => n \in 1..m - 1
      BY <2>4
    <3>3. \A n \in 1..m : s[n] \in S => \E k \in 1..Len(f[m]) : e[k] = n
      BY <2>1, <2>3, <2>4, <3>2
    <3>4. At(e, m)
      BY <2>1, <2>3, <2>4, <3>1, <3>3
    <3> QED
      BY <3>4
  <2>5. CASE s[m] \in S
    <3> DEFINE L == Len(f[m - 1])
               d == [k \in 1..L + 1 |-> IF k = L + 1 THEN m ELSE e[k]]
    <3>1. L \in Nat
      BY <2>2
    <3>2. Len(f[m]) = L + 1 /\ f[m][L + 1] = s[m] /\ \A k \in 1..L : f[m][k] = f[m - 1][k]
      BY <2>2, <2>3, <2>5, AppendProperties
    <3>3. /\ e \in [1..L -> 1..m - 1]
          /\ \A j, k \in 1..L : j < k => e[j] < e[k]
          /\ \A k \in 1..L : f[m - 1][k] = s[e[k]] /\ s[e[k]] \in S
          /\ \A n \in 1..m - 1 : s[n] \in S => \E k \in 1..L : e[k] = n
      BY <2>1
    <3>4. d \in [1..L + 1 -> 1..m] /\ d[L + 1] = m /\ \A k \in 1..L : d[k] = e[k]
      BY <3>1, <3>3
    <3> HIDE DEF L, d
    <3>5. \A k \in 1..L + 1 : k \in 1..L \/ k = L + 1
      BY <3>1
    <3>6. ASSUME NEW j \in 1..L + 1, NEW k \in 1..L + 1, j < k PROVE d[j] < d[k]
      <4>1. j \in 1..L /\ d[j] = e[j] /\ e[j] \in 1..m - 1
        BY <3>1, <3>3, <3>4, <3>6
      <4>2. CASE k = L + 1
        BY <3>4, <4>1, <4>2
      <4>3. CASE k \in 1..L
        BY <3>3, <3>4, <3>6, <4>1, <4>3
      <4> QED
        BY <3>5, <4>2, <4>3
    <3>7. \A k \in 1..L + 1 : f[m][k] = s[d[k]] /\ s[d[k]] \in S
      BY <2>5, <3>2, <3>3, <3>4, <3>5
    <3>8. ASSUME NEW n \in 1..m, s[n] \in S PROVE \E k \in 1..L + 1 : d[k] = n
      <4>1. CASE n = m
        BY <3>1, <3>4, <4>1
      <4>2. CASE n # m
        <5>1. n \in 1..m - 1
          BY <4>2
        <5>2. PICK k \in 1..L : e[k] = n
          BY <3>3, <3>8, <5>1
        <5> QED
          BY <3>1, <3>4, <5>2
      <4> QED
        BY <4>1, <4>2
    <3>9. At(d, m)
      BY <3>2, <3>4, <3>6, <3>7, <3>8
    <3> QED
      BY <3>9
  <2> QED
    BY <2>4, <2>5
<1> HIDE DEF Good
<1>5. Bad = {}
  <2> SUFFICES ASSUME Bad # {} PROVE FALSE
    OBVIOUS
  <2>1. PICK m \in Bad : \A k \in Bad : m <= k
    <3>1. Bad \in SUBSET Nat /\ Bad # {}
      OBVIOUS
    <3> HIDE DEF Bad
    <3> QED
      BY <3>1, LeastExists
  <2>2. m \in 1..N /\ m - 1 \in 0..N
    BY <1>3
  <2>3. Good(m - 1)
    BY <2>1, <2>2
  <2> QED
    BY <1>4, <2>2, <2>3
<1>6. Good(N)
  BY <1>2, <1>5
<1>7. PICK e : At(e, N)
  BY <1>6 DEF Good
<1>8. Filter(s, S) = f[N]
  BY <1>1 DEF Filters
<1> QED
  BY <1>7, <1>8 DEF Embeds

(* Filter only looks at whether the elements of s are in the set.          *)
LEMMA FilterSame ==
  ASSUME NEW T, NEW s \in Seq(T), NEW S, NEW R,
         \A n \in 1..Len(s) : s[n] \in S <=> s[n] \in R
  PROVE  Filter(s, S) = Filter(s, R)
<1>1. PICK f : Filters(f, T, s, S)
  BY FilterSteps
<1>2. PICK g : Filters(g, T, s, R)
  BY FilterSteps
<1> DEFINE N == Len(s)
<1>3. N \in Nat
  OBVIOUS
<1>4. \A n \in 1..N : f[n - 1] = g[n - 1] => f[n] = g[n]
  BY <1>1, <1>2 DEF Filters
<1>5. f[0] = g[0]
  BY <1>1, <1>2 DEF Filters
<1>6. f[Len(s)] = g[Len(s)]
  <2>1. \A n \in 0..N : f[n] = g[n]
    <3> HIDE DEF N
    <3>1. SameSteps(f, g, N)
      BY <1>3, <1>4, <1>5 DEF SameSteps
    <3> QED
      BY <1>3, <3>1, RecursionUnique
  <2> QED
    BY <1>3, <2>1
<1> QED
  BY <1>1, <1>2, <1>6 DEF Filters

(* Filtering twice is filtering by both.                                   *)
LEMMA FilterTwice ==
  ASSUME NEW T, NEW s \in Seq(T), NEW S, NEW R
  PROVE  Filter(Filter(s, S), R) = Filter(s, S \cap R)
<1>1. PICK f : Filters(f, T, s, S)
  BY FilterSteps
<1>2. PICK g : Filters(g, T, s, S \cap R)
  BY FilterSteps
<1> DEFINE N == Len(s)
           h == [n \in 0..N |-> Filter(f[n], R)]
<1>3. N \in Nat
  OBVIOUS
<1>4. ASSUME NEW n \in 1..N, h[n - 1] = g[n - 1] PROVE h[n] = g[n]
  <2>1. n - 1 \in 0..N /\ f[n - 1] \in Seq(T) /\ s[n] \in T
    BY <1>1, <1>3 DEF Filters
  <2>2. f[n] = IF s[n] \in S THEN Append(f[n - 1], s[n]) ELSE f[n - 1]
    BY <1>1, <1>3 DEF Filters
  <2>3. Filter(Append(f[n - 1], s[n]), R) =
          IF s[n] \in R THEN Append(Filter(f[n - 1], R), s[n]) ELSE Filter(f[n - 1], R)
    <3>1. PICK v \in Seq(T), x \in T : v = f[n - 1] /\ x = s[n]
      BY <2>1
    <3>2. Filter(Append(v, x), R) = IF x \in R THEN Append(Filter(v, R), x) ELSE Filter(v, R)
      BY FilterAppend
    <3> HIDE DEF h, N
    <3> QED
      BY <3>1, <3>2
  <2>4. g[n] = IF s[n] \in S \cap R THEN Append(g[n - 1], s[n]) ELSE g[n - 1]
    BY <1>2, <1>3 DEF Filters
  <2>5. h[n - 1] = Filter(f[n - 1], R) /\ h[n] = Filter(f[n], R)
    BY <1>3, <2>1
  <2> HIDE DEF h
  <2> QED
    BY <1>4, <2>2, <2>3, <2>4, <2>5
<1>5. h[0] = g[0]
  BY <1>1, <1>2, <1>3, FilterEmpty DEF Filters
<1>6. h[N] = g[N]
  <2>1. \A n \in 0..N : h[n] = g[n]
    <3> HIDE DEF N, h
    <3>1. SameSteps(h, g, N)
      BY <1>3, <1>4, <1>5 DEF SameSteps
    <3> QED
      BY <1>3, <3>1, RecursionUnique
  <2> QED
    BY <1>3, <2>1
<1> QED
  BY <1>1, <1>2, <1>3, <1>6 DEF Filters

(* If just the elements from position m on are in S, they are what is left.*)
LEMMA FilterSuffix ==
  ASSUME NEW T, NEW s \in Seq(T), NEW S, NEW m \in 1..Len(s) + 1,
         \A n \in 1..Len(s) : s[n] \in S <=> n >= m
  PROVE  Filter(s, S) = SubSeq(s, m, Len(s))
<1>1. PICK f : Filters(f, T, s, S)
  BY FilterSteps
<1> DEFINE N == Len(s)
           g == [n \in 0..N |-> SubSeq(s, m, n)]
<1>2. N \in Nat
  OBVIOUS
<1>3. ASSUME NEW n \in 1..N, f[n - 1] = g[n - 1] PROVE f[n] = g[n]
  <2>1. f[n] = IF s[n] \in S THEN Append(f[n - 1], s[n]) ELSE f[n - 1]
    BY <1>1, <1>2 DEF Filters
  <2>2. g[n - 1] = SubSeq(s, m, n - 1) /\ g[n] = SubSeq(s, m, n)
    BY <1>2
  <2>3. CASE n < m
    <3>1. SubSeq(s, m, n - 1) = <<>> /\ SubSeq(s, m, n) = <<>>
      BY <1>2, <2>3, SubSeqEmpty
    <3>2. s[n] \notin S
      BY <1>2, <2>3
    <3> HIDE DEF g
    <3> QED
      BY <1>3, <2>1, <2>2, <3>1, <3>2
  <2>4. CASE n >= m
    <3>1. m \in 1..Len(s) /\ n \in m..Len(s) /\ s[n] \in S /\ s[n] \in T
      BY <1>2, <2>4
    <3>2. SubSeq(s, m, n) = SubSeq(s, m, n - 1) \o <<s[n]>>
      BY <3>1, SubSeqRecursiveSecond
    <3>3. SubSeq(s, m, n - 1) \in Seq(T)
      BY <1>2, <3>1, SubSeqProperties
    <3>4. Append(SubSeq(s, m, n - 1), s[n]) = SubSeq(s, m, n - 1) \o <<s[n]>>
      BY <3>1, <3>3, AppendIsConcat
    <3> HIDE DEF g
    <3> QED
      BY <1>3, <2>1, <2>2, <3>1, <3>2, <3>4
  <2> QED
    BY <1>2, <2>3, <2>4
<1>4. f[0] = g[0]
  <2>1. SubSeq(s, m, 0) = <<>>
    BY <1>2, SubSeqEmpty
  <2> QED
    BY <1>1, <1>2, <2>1 DEF Filters
<1>5. f[N] = g[N]
  <2>1. \A n \in 0..N : f[n] = g[n]
    <3> HIDE DEF N, g
    <3>1. SameSteps(f, g, N)
      BY <1>2, <1>3, <1>4 DEF SameSteps
    <3> QED
      BY <1>2, <3>1, RecursionUnique
  <2> QED
    BY <1>2, <2>1
<1> QED
  BY <1>1, <1>2, <1>5 DEF Filters

(* IsSuffix by positions.                                                  *)
LEMMA SuffixByPosition ==
  ASSUME NEW T, NEW s \in Seq(T), NEW t \in Seq(T), NEW m \in 0..Len(t),
         Len(s) = Len(t) - m, \A k \in 1..Len(s) : s[k] = t[m + k]
  PROVE  IsSuffix(s, t)
<1> DEFINE r == Reverse(s)
           q == Reverse(t)
<1>1. Len(s) \in Nat /\ Len(t) \in Nat /\ m \in Nat
  OBVIOUS
<1>2. /\ r = [i \in 1..Len(s) |-> s[(Len(s) - i) + 1]] /\ Len(r) = Len(s)
      /\ q = [i \in 1..Len(t) |-> t[(Len(t) - i) + 1]] /\ Len(q) = Len(t)
  BY <1>1 DEF Reverse
<1>3. ASSUME NEW i \in 1..Len(s) PROVE r[i] = q[i]
  <2>1. /\ (Len(s) - i) + 1 \in 1..Len(s) /\ i \in 1..Len(t)
        /\ m + ((Len(s) - i) + 1) = (Len(t) - i) + 1
    BY <1>1
  <2>2. s[(Len(s) - i) + 1] = t[m + ((Len(s) - i) + 1)]
    BY <2>1
  <2> QED
    BY <1>2, <2>1, <2>2
<1>4. SubSeq(r, 1, Len(s)) = SubSeq(q, 1, Len(s))
  <2>1. /\ SubSeq(r, 1, Len(s)) = [i \in 1..Len(s) |-> r[i]]
        /\ SubSeq(q, 1, Len(s)) = [i \in 1..Len(s) |-> q[i]]
    <3> HIDE DEF r, q
    <3>1. \A i \in 1..Len(s) : 1 + i - 1 = i
      BY <1>1
    <3> QED
      BY <1>1, <1>2, <3>1
  <2> HIDE DEF r, q
  <2> QED
    BY <1>3, <2>1
<1> HIDE DEF r, q
<1>5. Len(r) <= Len(q)
  BY <1>1, <1>2
<1> QED
  BY <1>2, <1>4, <1>5 DEF IsSuffix, IsPrefix, r, q

(* g is how FlattenSeq(w) comes about.                                     *)
Flattens(g, T, w) ==
  /\ g \in [0..Len(w) -> Seq(T)]
  /\ g[0] = <<>>
  /\ \A n \in 1..Len(w) : g[n] = g[n - 1] \o w[n]
  /\ FlattenSeq(w) = g[Len(w)]

LEMMA FlattenSteps ==
  ASSUME NEW T, NEW w \in Seq(Seq(T))
  PROVE  \E g : Flattens(g, T, w)
<1> DEFINE N == Len(w)
           V == Seq(T)
           G == [p \in (1..N) \X V |-> p[2] \o w[p[1]]]
           Body(f) == [i \in 1..N |-> IF i = 1 THEN w[i] ELSE f[i - 1] \o w[i]]
           F == CHOOSE f : f = Body(f)
<1>1. N \in Nat /\ <<>> \in V /\ \A k \in 1..N : w[k] \in V
  OBVIOUS
<1>2. G \in [(1..N) \X V -> V]
  <2> SUFFICES ASSUME NEW p \in (1..N) \X V PROVE p[2] \o w[p[1]] \in V
    OBVIOUS
  <2>1. p[2] \in Seq(T) /\ w[p[1]] \in Seq(T)
    BY <1>1
  <2> QED
    BY <2>1, ConcatProperties
<1>3. \A n \in 1..N, v \in V : G[<<n, v>>] = v \o w[n]
  OBVIOUS
<1> HIDE DEF G
<1>4. PICK g : Recursion(g, N, V, <<>>, G)
  <2> HIDE DEF N, V
  <2> QED
    BY <1>1, <1>2, RecursionExists
<1>5. /\ g \in [0..N -> V] /\ g[0] = <<>>
      /\ \A n \in 1..N : g[n] = g[n - 1] \o w[n]
  <2>1. g \in [0..N -> V] /\ g[0] = <<>> /\ \A n \in 1..N : g[n] = G[<<n, g[n - 1]>>]
    BY <1>4 DEF Recursion
  <2>2. \A n \in 1..N : n - 1 \in 0..N
    BY <1>1
  <2> HIDE DEF N, V
  <2> QED
    BY <1>3, <2>1, <2>2
<1>6. CASE N = 0
  <2>1. w = <<>>
    BY <1>6
  <2> QED
    BY <1>5, <1>6, <2>1 DEF FlattenSeq, Flattens
<1>7. CASE N # 0
  <2>1. 1 \in 1..N
    BY <1>1, <1>7
  <2>2. g[1] = w[1]
    <3>1. g[1] = g[0] \o w[1] /\ w[1] \in Seq(T)
      <4>1. 1 - 1 = 0
        OBVIOUS
      <4> HIDE DEF N
      <4> QED
        BY <1>1, <1>5, <2>1, <4>1
    <3> QED
      BY <1>5, <3>1, ConcatEmptySeq
  <2> DEFINE h == [i \in 1..N |-> g[i]]
  <2>3. h = Body(h)
    <3>1. ASSUME NEW i \in 1..N PROVE h[i] = IF i = 1 THEN w[i] ELSE h[i - 1] \o w[i]
      <4>1. CASE i = 1
        BY <2>2, <4>1
      <4>2. CASE i # 1
        <5>1. i - 1 \in 1..N
          BY <1>1, <4>2
        <5> QED
          BY <1>5, <4>2, <5>1
      <4> QED
        BY <4>1, <4>2
    <3> QED
      BY <3>1
  <2>4. F = Body(F)
    <3> HIDE DEF Body
    <3> QED
      BY <2>3
  <2>5. FlattenSeq(w) = F[N]
    BY <1>7 DEF FlattenSeq
  <2>6. \A i \in 1..N : F[i] = IF i = 1 THEN w[i] ELSE F[i - 1] \o w[i]
    <3> HIDE DEF F, N
    <3> QED
      BY <2>4
  <2> HIDE DEF F, Body, h
  <2> DEFINE d == [i \in 0..N |-> IF i = 0 THEN g[0] ELSE F[i]]
  <2>7. d[0] = g[0]
    BY <1>1
  <2>8. ASSUME NEW n \in 1..N, d[n - 1] = g[n - 1] PROVE d[n] = g[n]
    <3>1. d[n] = F[n]
      BY <1>1
    <3>2. CASE n = 1
      BY <2>2, <2>6, <3>1, <3>2
    <3>3. CASE n # 1
      <4>1. n - 1 \in 1..N /\ d[n - 1] = F[n - 1]
        BY <1>1, <3>3
      <4> HIDE DEF d
      <4> QED
        BY <1>5, <2>6, <2>8, <3>1, <3>3, <4>1
    <3> QED
      BY <3>2, <3>3
  <2>9. \A n \in 0..N : d[n] = g[n]
    <3> HIDE DEF d, N
    <3>1. SameSteps(d, g, N)
      BY <1>1, <2>7, <2>8 DEF SameSteps
    <3> QED
      BY <1>1, <3>1, RecursionUnique
  <2>10. N \in 0..N /\ d[N] = F[N]
    BY <1>1, <1>7
  <2> HIDE DEF d
  <2>11. FlattenSeq(w) = g[N]
    BY <2>5, <2>9, <2>10
  <2> QED
    BY <1>5, <2>11 DEF Flattens
<1> QED
  BY <1>6, <1>7

-----------------------------------------------------------------------------
(* B is a total order of 1..n: <<j, i>> is in B if j goes before i.        *)
TotalOrder(B, n) ==
  /\ \A i \in 1..n : <<i, i>> \notin B
  /\ \A i, j, k \in 1..n : <<i, j>> \in B /\ <<j, k>> \in B => <<i, k>> \in B
  /\ \A i, j \in 1..n : i # j => <<i, j>> \in B \/ <<j, i>> \in B

RankIn(B, n, i) == Cardinality({j \in 1..n : <<j, i>> \in B}) + 1

(* The ranks of a total order are the numbers from 1 to n, each once, and  *)
(* grow with the order.                                                    *)
LEMMA RanksArePermutation ==
  ASSUME NEW n \in Nat, NEW B, TotalOrder(B, n)
  PROVE  /\ \A i \in 1..n : RankIn(B, n, i) \in 1..n
         /\ \A i, j \in 1..n : <<i, j>> \in B => RankIn(B, n, i) < RankIn(B, n, j)
         /\ \A i, j \in 1..n : RankIn(B, n, i) = RankIn(B, n, j) => i = j
         /\ \A k \in 1..n : \E i \in 1..n : RankIn(B, n, i) = k
<1> DEFINE Under(i) == {j \in 1..n : <<j, i>> \in B}
<1>1. IsFiniteSet(1..n) /\ Cardinality(1..n) = n
  BY FS_Interval
<1>2. ASSUME NEW i \in 1..n
      PROVE  IsFiniteSet(Under(i)) /\ Cardinality(Under(i)) \in Nat /\ Cardinality(Under(i)) < n
  <2>1. Under(i) \in SUBSET (1..n) /\ i \notin Under(i)
    BY DEF TotalOrder
  <2>2. Under(i) # 1..n
    BY <2>1
  <2> HIDE DEF Under
  <2>3. /\ IsFiniteSet(Under(i)) /\ Cardinality(Under(i)) <= n
        /\ Cardinality(1..n) = Cardinality(Under(i)) => 1..n = Under(i)
    BY <1>1, <2>1, FS_Subset
  <2>4. Cardinality(Under(i)) \in Nat
    BY <2>3, FS_CardinalityType
  <2> QED
    BY <1>1, <2>2, <2>3, <2>4
<1>3. \A i \in 1..n : RankIn(B, n, i) = Cardinality(Under(i)) + 1
  BY DEF RankIn
<1>4. \A i \in 1..n : RankIn(B, n, i) \in 1..n
  <2> HIDE DEF Under
  <2> QED
    BY <1>2, <1>3
<1>5. ASSUME NEW i \in 1..n, NEW j \in 1..n, <<i, j>> \in B
      PROVE  RankIn(B, n, i) < RankIn(B, n, j)
  <2>1. Under(i) \in SUBSET Under(j) /\ i \in Under(j) /\ i \notin Under(i)
    BY <1>5 DEF TotalOrder
  <2>2. Under(i) # Under(j)
    BY <2>1
  <2> HIDE DEF Under
  <2>3. /\ Cardinality(Under(i)) <= Cardinality(Under(j))
        /\ Cardinality(Under(j)) = Cardinality(Under(i)) => Under(j) = Under(i)
    BY <1>2, <2>1, FS_Subset
  <2> QED
    BY <1>2, <1>3, <2>2, <2>3
<1>6. ASSUME NEW i \in 1..n, NEW j \in 1..n, RankIn(B, n, i) = RankIn(B, n, j), i # j
      PROVE  FALSE
  <2>1. <<i, j>> \in B \/ <<j, i>> \in B
    BY <1>6 DEF TotalOrder
  <2> QED
    BY <1>4, <1>5, <1>6, <2>1
<1> DEFINE r == [i \in 1..n |-> RankIn(B, n, i)]
<1>7. r \in Injection(1..n, 1..n)
  <2>1. r \in [1..n -> 1..n]
    BY <1>4
  <2>2. \A i, j \in 1..n : r[i] = r[j] => i = j
    BY <1>6
  <2> HIDE DEF r
  <2> QED
    BY <2>1, <2>2 DEF Injection, IsInjective
<1>8. r \in Surjection(1..n, 1..n)
  <2> HIDE DEF r
  <2> QED
    BY <1>1, <1>7, FS_Injection
<1>9. \A k \in 1..n : \E i \in 1..n : RankIn(B, n, i) = k
  <2>1. \A k \in 1..n : \E i \in 1..n : r[i] = k
    <3> HIDE DEF r
    <3> QED
      BY <1>8 DEF Surjection
  <2> QED
    BY <2>1
<1> QED
  BY <1>4, <1>5, <1>6, <1>9

(* p is the inverse of the ranks: p[k] is the one with rank k.             *)
InRankOrder(p, B, n) ==
  /\ p \in [1..n -> 1..n]
  /\ \A k, i \in 1..n : RankIn(B, n, i) = k <=> p[k] = i
  /\ \A k, l \in 1..n : k < l => <<p[k], p[l]>> \in B
  /\ \A i \in 1..n : \E k \in 1..n : p[k] = i

LEMMA RankOrderExists ==
  ASSUME NEW n \in Nat, NEW B, TotalOrder(B, n)
  PROVE  \E p : InRankOrder(p, B, n)
<1>1. /\ \A i \in 1..n : RankIn(B, n, i) \in 1..n
      /\ \A i, j \in 1..n : <<i, j>> \in B => RankIn(B, n, i) < RankIn(B, n, j)
      /\ \A i, j \in 1..n : RankIn(B, n, i) = RankIn(B, n, j) => i = j
      /\ \A k \in 1..n : \E i \in 1..n : RankIn(B, n, i) = k
  BY RanksArePermutation
<1> DEFINE p == [k \in 1..n |-> CHOOSE i \in 1..n : RankIn(B, n, i) = k]
<1>2. ASSUME NEW k \in 1..n PROVE p[k] \in 1..n /\ RankIn(B, n, p[k]) = k
  BY <1>1
<1>3. p \in [1..n -> 1..n]
  BY <1>2
<1> HIDE DEF p
<1>4. ASSUME NEW k \in 1..n, NEW l \in 1..n, k < l PROVE <<p[k], p[l]>> \in B
  <2>1. p[k] # p[l]
    BY <1>2, <1>4
  <2>2. <<p[k], p[l]>> \in B \/ <<p[l], p[k]>> \in B
    BY <1>2, <2>1 DEF TotalOrder
  <2>3. CASE <<p[l], p[k]>> \in B
    <3>1. RankIn(B, n, p[l]) < RankIn(B, n, p[k])
      BY <1>1, <1>2, <2>3
    <3> QED
      BY <1>2, <1>4, <3>1
  <2> QED
    BY <2>2, <2>3
<1>5. \A k, i \in 1..n : RankIn(B, n, i) = k <=> p[k] = i
  BY <1>1, <1>2
<1>6. ASSUME NEW i \in 1..n PROVE \E k \in 1..n : p[k] = i
  BY <1>1, <1>5
<1> QED
  BY <1>3, <1>4, <1>5, <1>6 DEF InRankOrder

(* A function from 1..n onto 1..n that grows is the identity.              *)
GrowsOnto(r, n) ==
  /\ \A k \in 1..n : r[k] \in 1..n
  /\ \A k, l \in 1..n : k < l => r[k] < r[l]
  /\ \A j \in 1..n : \E k \in 1..n : r[k] = j

LEMMA GrowsOntoIsIdentity ==
  ASSUME NEW n \in Nat, NEW r, GrowsOnto(r, n)
  PROVE  \A k \in 1..n : r[k] = k
<1> DEFINE Bad == {k \in 1..n : r[k] # k}
<1>1. Bad \in SUBSET Nat
  OBVIOUS
<1>2. SUFFICES ASSUME Bad # {} PROVE FALSE
  OBVIOUS
<1>3. PICK k \in Bad : \A l \in Bad : k <= l
  <2> HIDE DEF Bad
  <2> QED
    BY <1>1, <1>2, LeastExists
<1>4. k \in 1..n /\ r[k] # k
  BY <1>3
<1>5. r[k] \in 1..n
  BY <1>4 DEF GrowsOnto
<1>6. ASSUME NEW l \in 1..n, l < k PROVE r[l] = l
  <2>1. l \notin Bad
    <3> HIDE DEF Bad
    <3> QED
      BY <1>3, <1>4, <1>6
  <2> QED
    BY <2>1
<1> HIDE DEF Bad
<1>7. r[k] > k
  <2>1. CASE k = 1
    BY <1>4, <1>5, <2>1
  <2>2. CASE k # 1
    <3>1. k - 1 \in 1..n /\ k - 1 < k
      BY <1>4, <2>2
    <3>2. r[k - 1] = k - 1
      BY <1>6, <3>1
    <3>3. r[k - 1] < r[k]
      BY <1>4, <3>1 DEF GrowsOnto
    <3> QED
      BY <1>4, <1>5, <3>1, <3>2, <3>3
  <2> QED
    BY <2>1, <2>2
<1>8. PICK l \in 1..n : r[l] = k
  BY <1>4 DEF GrowsOnto
<1>9. l > k
  <2>1. ~(l < k)
    BY <1>4, <1>6, <1>8
  <2>2. l # k
    BY <1>4, <1>8
  <2> QED
    BY <1>4, <2>1, <2>2
<1>10. r[k] < r[l]
  BY <1>4, <1>9 DEF GrowsOnto
<1> QED
  BY <1>4, <1>5, <1>7, <1>8, <1>10

(* An enumeration that goes with the order is the one by rank.             *)
Enumerates(p, B, n) ==
  /\ p \in [1..n -> 1..n]
  /\ \A k, l \in 1..n : k < l => <<p[k], p[l]>> \in B
  /\ \A i \in 1..n : \E k \in 1..n : p[k] = i

LEMMA RankOrderUnique ==
  ASSUME NEW n \in Nat, NEW B, TotalOrder(B, n), NEW p, Enumerates(p, B, n)
  PROVE  InRankOrder(p, B, n)
<1>1. /\ \A i \in 1..n : RankIn(B, n, i) \in 1..n
      /\ \A i, j \in 1..n : <<i, j>> \in B => RankIn(B, n, i) < RankIn(B, n, j)
      /\ \A i, j \in 1..n : RankIn(B, n, i) = RankIn(B, n, j) => i = j
      /\ \A k \in 1..n : \E i \in 1..n : RankIn(B, n, i) = k
  BY RanksArePermutation
<1> DEFINE r == [k \in 1..n |-> RankIn(B, n, p[k])]
<1>2. \A k \in 1..n : r[k] = RankIn(B, n, p[k]) /\ p[k] \in 1..n
  BY DEF Enumerates
<1> HIDE DEF r
<1>3. \A k \in 1..n : r[k] \in 1..n
  BY <1>1, <1>2
<1>4. ASSUME NEW k \in 1..n, NEW l \in 1..n, k < l PROVE r[k] < r[l]
  <2>1. <<p[k], p[l]>> \in B
    BY <1>4 DEF Enumerates
  <2> QED
    BY <1>1, <1>2, <2>1
<1>5. ASSUME NEW j \in 1..n PROVE \E k \in 1..n : r[k] = j
  <2>1. PICK i \in 1..n : RankIn(B, n, i) = j
    BY <1>1
  <2>2. PICK k \in 1..n : p[k] = i
    BY DEF Enumerates
  <2> QED
    BY <1>2, <2>1, <2>2
<1>6. GrowsOnto(r, n)
  BY <1>3, <1>4, <1>5 DEF GrowsOnto
<1>7. \A k \in 1..n : r[k] = k
  BY <1>6, GrowsOntoIsIdentity
<1>8. ASSUME NEW k \in 1..n, NEW i \in 1..n
      PROVE  RankIn(B, n, i) = k <=> p[k] = i
  <2>1. RankIn(B, n, p[k]) = k /\ p[k] \in 1..n
    BY <1>2, <1>7
  <2> QED
    BY <1>1, <2>1
<1> QED
  BY <1>8 DEF InRankOrder, Enumerates
=============================================================================
