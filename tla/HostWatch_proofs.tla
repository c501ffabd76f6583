---------------------------- MODULE HostWatch_proofs ----------------------------
(***************************************************************************)
(* Proofs about HostWatch: whatever the hosts, the timespan, the size of   *)
(* the table, the packets and the clients, each packet is counted in one   *)
(* item, byte_sum is up to date, and the table shown is exact.             *)
(***************************************************************************)
EXTENDS HostWatch, SeqLemmas_proofs

Entries == [bytes : Lengths, ts : Nat]
Items   == [a : Hosts, b : Hosts, counts : Seq(Entries), sum : Int]

LEMMA ConstantsAreNumbers ==
  /\ timespan_seconds \in Nat /\ print_interval_seconds \in Nat /\ print_max_items \in Nat
  /\ Lengths \in SUBSET Nat
  BY HostWatchAssumption

LEMMA BytesAreInts ==
  /\ \A e \in Entries : e.bytes \in Int /\ e.ts \in Nat
  /\ \A p \in Packets : p.bytes \in Int /\ p.ts \in Nat
<1>1. \A e \in Entries : e.bytes \in Lengths /\ e.ts \in Nat
  BY DEF Entries
<1>2. \A p \in Packets : p.bytes \in Lengths /\ p.ts \in Nat
  BY DEF Packets
<1>3. \A b \in Lengths : b \in Int
  BY ConstantsAreNumbers
<1> QED
  BY <1>1, <1>2, <1>3

-----------------------------------------------------------------------------
(* f is how SumOf(s) comes about.                                          *)
Sums(f, s) ==
  /\ f \in [0..Len(s) -> Int]
  /\ f[0] = 0
  /\ \A n \in 1..Len(s) : f[n] = f[n - 1] + s[n].bytes
  /\ SumOf(s) = f[Len(s)]

LEMMA SumSteps ==
  ASSUME NEW T, NEW s \in Seq(T), \A e \in T : e.bytes \in Int
  PROVE  \E f : Sums(f, s)
<1> DEFINE N == Len(s)
           G == [p \in (1..N) \X Int |-> p[2] + s[p[1]].bytes]
           Step(F) == [n \in 0..N |-> IF n = 0 THEN 0 ELSE F[n - 1] + s[n].bytes]
           F == CHOOSE F : F = Step(F)
<1>1. N \in Nat
  OBVIOUS
<1>2. G \in [(1..N) \X Int -> Int]
  OBVIOUS
<1>3. PICK f : Recursion(f, N, Int, 0, G)
  <2>1. 0 \in Int
    OBVIOUS
  <2> HIDE DEF N, G
  <2> QED
    BY <1>1, <1>2, <2>1, RecursionExists
<1>4. /\ f \in [0..N -> Int] /\ f[0] = 0
      /\ \A n \in 1..N : f[n] = G[<<n, f[n - 1]>>]
  BY <1>3 DEF Recursion
<1>5. \A n \in 1..N : f[n] = f[n - 1] + s[n].bytes
  <2> TAKE n \in 1..N
  <2>1. f[n - 1] \in Int
    BY <1>1, <1>4
  <2> QED
    BY <1>4, <2>1
<1>6. f = Step(f)
  BY <1>1, <1>4, <1>5
<1>7. F = Step(F)
  BY <1>6
<1>8. F[0] = 0 /\ \A n \in 1..N : F[n] = F[n - 1] + s[n].bytes
  <2> HIDE DEF F
  <2>1. F[0] = 0
    BY <1>1, <1>7
  <2>2. ASSUME NEW n \in 1..N PROVE F[n] = F[n - 1] + s[n].bytes
    <3>1. n \in 0..N /\ n # 0
      BY <1>1
    <3> QED
      BY <1>7, <3>1
  <2> QED
    BY <2>1, <2>2
<1>9. SumOf(s) = F[N]
  BY DEF SumOf
<1>10. F[N] = f[N]
  <2>1. \A n \in 1..N : F[n - 1] = f[n - 1] => F[n] = f[n]
    BY <1>5, <1>8
  <2>2. F[0] = f[0]
    BY <1>4, <1>8
  <2> HIDE DEF N, F
  <2>3. SameSteps(F, f, N)
    BY <2>1, <2>2 DEF SameSteps
  <2>4. \A n \in 0..N : F[n] = f[n]
    BY <1>1, <2>3, RecursionUnique
  <2> QED
    BY <1>1, <2>4
<1> QED
  BY <1>4, <1>5, <1>9, <1>10 DEF Sums

(* The sum of a list of counts is a number.                                *)
LEMMA SumType ==
  ASSUME NEW T, NEW s \in Seq(T), \A e \in T : e.bytes \in Int
  PROVE  SumOf(s) \in Int
<1>1. PICK f : Sums(f, s)
  BY SumSteps
<1> QED
  BY <1>1 DEF Sums

(* c and w tell of the same packets.                                       *)
Alike(c, w) ==
  /\ Len(c) = Len(w)
  /\ \A k \in 1..Len(c) : c[k].bytes = w[k].bytes /\ c[k].ts = w[k].ts

LEMMA SumAlike ==
  ASSUME NEW T, NEW c \in Seq(T), \A e \in T : e.bytes \in Int,
         NEW U, NEW w \in Seq(U), \A e \in U : e.bytes \in Int,
         Alike(c, w)
  PROVE  SumOf(c) = SumOf(w)
<1>1. PICK f : Sums(f, c)
  BY SumSteps
<1>2. PICK g : Sums(g, w)
  <2>1. \E g : Sums(g, w)
    BY SumSteps
  <2> QED
    BY <2>1
<1>3. PICK N \in Nat : N = Len(c) /\ N = Len(w)
  BY DEF Alike
<1>4. f[0] = g[0]
  BY <1>1, <1>2 DEF Sums
<1>5. \A n \in 1..N : f[n - 1] = g[n - 1] => f[n] = g[n]
  BY <1>1, <1>2, <1>3 DEF Sums, Alike
<1>6. SameSteps(f, g, N)
  BY <1>4, <1>5 DEF SameSteps
<1>7. \A n \in 0..N : f[n] = g[n]
  BY <1>6, RecursionUnique
<1> QED
  BY <1>1, <1>2, <1>3, <1>7 DEF Sums

-----------------------------------------------------------------------------
(* Fresh is the position of the first entry that is not too old.           *)
LEMMA FreshIsFirst ==
  ASSUME NEW c \in Seq(Entries), NEW before \in Int
  PROVE  /\ Fresh(c, before) \in 0..Len(c)
         /\ Fresh(c, before) = 0 => \A k \in 1..Len(c) : c[k].ts < before
         /\ Fresh(c, before) # 0 =>
              /\ c[Fresh(c, before)].ts >= before
              /\ \A k \in 1..Fresh(c, before) - 1 : c[k].ts < before
<1> DEFINE I == {k \in 1..Len(c) : c[k].ts >= before}
<1>1. Fresh(c, before) = IF I # {} THEN Min(I) ELSE 0
  BY DEF Fresh, SelectInSeq
<1>2. ASSUME NEW k \in 1..Len(c) PROVE c[k].ts \in Int
  <2>1. c[k] \in Entries
    OBVIOUS
  <2> QED
    BY <2>1 DEF Entries
<1>3. CASE I = {}
  BY <1>1, <1>2, <1>3
<1>4. CASE I # {}
  <2>1. I \in SUBSET Nat
    OBVIOUS
  <2>2. Min(I) \in I /\ \A k \in I : Min(I) <= k
    <3> HIDE DEF I
    <3>1. \E x \in I : \A y \in I : x <= y
      BY <1>4, <2>1, LeastExists
    <3> QED
      BY <3>1 DEF Min
  <2>3. PICK m \in I : m = Min(I) /\ Fresh(c, before) = m
    BY <1>1, <1>4, <2>2
  <2>4. ASSUME NEW k \in 1..m - 1 PROVE c[k].ts < before
    <3>1. k \notin I /\ k \in 1..Len(c)
      BY <2>2, <2>3
    <3> QED
      BY <1>2, <3>1
  <2> QED
    BY <2>3, <2>4
<1> QED
  BY <1>3, <1>4

(* c is what is left of the packets w after its first m were dropped, all  *)
(* of them older than cut.                                                 *)
Kept(c, w, m, cut) ==
  /\ m \in 0..Len(w)
  /\ Len(c) = Len(w) - m
  /\ \A k \in 1..Len(c) : c[k].bytes = w[m + k].bytes /\ c[k].ts = w[m + k].ts
  /\ \A k \in 1..m : w[k].ts < cut

LEMMA DropKeeps ==
  ASSUME NEW c \in Seq(Entries), NEW w \in Seq(Packets), NEW m, NEW cut \in Int,
         NEW before \in Int, before <= cut, Kept(c, w, m, cut)
  PROVE  /\ DropBefore(c, before) \in Seq(Entries)
         /\ \E k : /\ Kept(DropBefore(c, before), w, k, cut)
                   /\ k < Len(w) => w[k + 1].ts >= before
<1>1. PICK f \in 0..Len(c) : f = Fresh(c, before)
  BY FreshIsFirst
<1>2. m \in 0..Len(w) /\ Len(c) = Len(w) - m /\ Len(w) \in Nat
  BY DEF Kept
<1>5. ASSUME NEW k \in 1..Len(w) PROVE w[k].ts \in Int
  <2>1. w[k] \in Packets
    OBVIOUS
  <2> QED
    BY <2>1 DEF Packets
<1>3. CASE f = 0
  <2>1. DropBefore(c, before) = <<>> /\ \A k \in 1..Len(c) : c[k].ts < before
    BY <1>1, <1>3, FreshIsFirst DEF DropBefore
  <2>2. ASSUME NEW k \in 1..Len(w) PROVE w[k].ts < cut
    <3>1. CASE k <= m
      BY <1>2, <3>1 DEF Kept
    <3>2. CASE k > m
      <4>1. k - m \in 1..Len(c) /\ m + (k - m) = k
        BY <1>2, <3>2
      <4>2. c[k - m].ts < before /\ c[k - m].ts = w[k].ts /\ w[k].ts \in Int
        BY <1>5, <2>1, <4>1 DEF Kept
      <4> QED
        BY <4>2
    <3> QED
      BY <1>2, <3>1, <3>2
  <2>3. Kept(<<>>, w, Len(w), cut)
    BY <1>2, <2>2 DEF Kept
  <2> QED
    BY <1>2, <2>1, <2>3
<1>4. CASE f # 0
  <2>1. /\ DropBefore(c, before) = SubSeq(c, f, Len(c))
        /\ c[f].ts >= before /\ \A k \in 1..f - 1 : c[k].ts < before
    BY <1>1, <1>4, FreshIsFirst DEF DropBefore
  <2>2. PICK d \in Seq(Entries) :
               /\ d = SubSeq(c, f, Len(c)) /\ Len(d) = Len(c) - f + 1
               /\ \A k \in 1..Len(d) : d[k] = c[f + k - 1]
    <3>1. f \in Int /\ Len(c) \in Int /\ f <= Len(c)
      BY <1>2, <1>4
    <3>2. \A k \in f..Len(c) : c[k] \in Entries
      BY <1>4
    <3>3. /\ SubSeq(c, f, Len(c)) \in Seq(Entries)
          /\ Len(SubSeq(c, f, Len(c))) = Len(c) - f + 1
          /\ \A k \in 1..Len(c) - f + 1 : SubSeq(c, f, Len(c))[k] = c[f + k - 1]
      BY <3>1, <3>2, SubSeqProperties
    <3> QED
      BY <3>3
  <2>3. PICK n \in Nat : n = m + f - 1
    BY <1>2, <1>4
  <2>4. ASSUME NEW k \in 1..n PROVE w[k].ts < cut
    <3>1. CASE k <= m
      BY <1>2, <3>1 DEF Kept
    <3>2. CASE k > m
      <4>1. /\ k - m \in 1..Len(c) /\ m + (k - m) = k /\ k - m \in 1..f - 1
            /\ k \in 1..Len(w)
        BY <1>2, <2>3, <3>2
      <4>2. c[k - m].ts < before /\ c[k - m].ts = w[k].ts /\ w[k].ts \in Int
        BY <1>2, <1>5, <2>1, <4>1 DEF Kept
      <4> QED
        BY <4>2
    <3> QED
      BY <1>2, <3>1, <3>2
  <2>5. ASSUME NEW k \in 1..Len(d)
        PROVE  d[k].bytes = w[n + k].bytes /\ d[k].ts = w[n + k].ts
    <3>1. f + k - 1 \in 1..Len(c) /\ m + (f + k - 1) = n + k
      BY <1>2, <1>4, <2>2, <2>3
    <3> QED
      BY <2>2, <3>1 DEF Kept
  <2>6. n \in 0..Len(w) /\ Len(d) = Len(w) - n
    BY <1>2, <1>4, <2>2, <2>3
  <2>7. Kept(d, w, n, cut)
    BY <2>4, <2>5, <2>6 DEF Kept
  <2>8. w[n + 1].ts >= before
    <3>1. f \in 1..Len(c) /\ m + f = n + 1
      BY <1>2, <1>4, <2>3
    <3> QED
      BY <2>1, <3>1 DEF Kept
  <2> QED
    BY <2>1, <2>2, <2>7, <2>8
<1> QED
  BY <1>3, <1>4

(* If all that is left is fresh, it is what a look at the times of all     *)
(* packets would select.                                                   *)
Since(from) == {p \in Packets : p.ts >= from}

LEMMA KeptIsExact ==
  ASSUME NEW c, NEW w \in Seq(Packets), NEW m, NEW from \in Int, Kept(c, w, m, from),
         m < Len(w) => w[m + 1].ts >= from,
         \A j, k \in 1..Len(w) : j < k => w[j].ts <= w[k].ts
  PROVE  Alike(c, Filter(w, Since(from)))
<1>1. m \in 0..Len(w) /\ Len(c) = Len(w) - m /\ Len(w) \in Nat
  BY DEF Kept
<1>2. ASSUME NEW k \in 1..Len(w) PROVE w[k] \in Packets /\ w[k].ts \in Int
  <2>1. w[k] \in Packets
    OBVIOUS
  <2> QED
    BY <2>1 DEF Packets
<1>3. ASSUME NEW k \in 1..Len(w) PROVE w[k] \in Since(from) <=> k >= m + 1
  <2>1. CASE k <= m
    <3>1. w[k].ts < from /\ ~(k >= m + 1)
      BY <1>1, <2>1 DEF Kept
    <3> QED
      BY <1>2, <3>1 DEF Since
  <2>2. CASE k > m
    <3>1. m + 1 \in 1..Len(w) /\ m < Len(w) /\ k >= m + 1 /\ (m + 1 < k \/ m + 1 = k)
      BY <1>1, <2>2
    <3>2. w[m + 1].ts <= w[k].ts
      BY <1>2, <3>1
    <3>3. w[k].ts >= from
      BY <1>2, <3>1, <3>2
    <3> QED
      BY <1>2, <3>1, <3>3 DEF Since
  <2> QED
    BY <1>1, <2>1, <2>2
<1>4. Filter(w, Since(from)) = SubSeq(w, m + 1, Len(w))
  <2>1. m + 1 \in 1..Len(w) + 1
    BY <1>1
  <2> QED
    BY <1>3, <2>1, FilterSuffix
<1>5. /\ Len(SubSeq(w, m + 1, Len(w))) = Len(w) - m
      /\ \A k \in 1..Len(w) - m : SubSeq(w, m + 1, Len(w))[k] = w[m + k]
  <2>1. m + 1 \in Int /\ Len(w) \in Int /\ \A k \in m + 1..Len(w) : w[k] \in Packets
    BY <1>1, <1>2
  <2>2. /\ Len(SubSeq(w, m + 1, Len(w))) = IF m + 1 <= Len(w) THEN Len(w) - (m + 1) + 1 ELSE 0
        /\ \A k \in 1..Len(w) - (m + 1) + 1 :
             SubSeq(w, m + 1, Len(w))[k] = w[(m + 1) + k - 1]
    BY <2>1, SubSeqProperties
  <2>3. \A k \in Int : (m + 1) + k - 1 = m + k
    BY <1>1
  <2> QED
    BY <1>1, <2>2, <2>3
<1> QED
  BY <1>1, <1>4, <1>5 DEF Alike, Kept

(* A filtered sequence is in order if the whole one is.                    *)
LEMMA FilterInOrder ==
  ASSUME NEW w \in Seq(Packets), NEW S,
         \A j, k \in 1..Len(w) : j < k => w[j].ts <= w[k].ts
  PROVE  \A j, k \in 1..Len(Filter(w, S)) :
            j < k => Filter(w, S)[j].ts <= Filter(w, S)[k].ts
<1>1. PICK v : v = Filter(w, S)
  OBVIOUS
<1>2. PICK e : Embeds(e, v, w, S)
  BY <1>1, FilterEmbeds
<1>3. ASSUME NEW j \in 1..Len(v), NEW k \in 1..Len(v), j < k
      PROVE  v[j].ts <= v[k].ts
  <2>1. e[j] \in 1..Len(w) /\ e[k] \in 1..Len(w) /\ e[j] < e[k]
        /\ v[j] = w[e[j]] /\ v[k] = w[e[k]]
    BY <1>2, <1>3 DEF Embeds
  <2> QED
    BY <2>1
<1> QED
  BY <1>1, <1>3

-----------------------------------------------------------------------------
(* p tells where the items stood that the sort moved: it moves each, and   *)
(* puts those with more bytes in front.                                    *)
Sorts(p, s) ==
  /\ p \in [1..Len(s) -> 1..Len(s)]
  /\ \A i \in 1..Len(s) : \E k \in 1..Len(s) : p[k] = i
  /\ \A k, l \in 1..Len(s) : k < l => p[k] # p[l] /\ s[p[k]].sum >= s[p[l]].sum
  /\ StableSort(s) = [k \in 1..Len(s) |-> s[p[k]]]

LEMMA SortPermutes ==
  ASSUME NEW s \in Seq(Items)
  PROVE  \E p : Sorts(p, s)
<1> DEFINE n == Len(s)
           B == {b \in (1..n) \X (1..n) :
                   \/ Above(s[b[1]], s[b[2]])
                   \/ b[1] < b[2] /\ ~Above(s[b[2]], s[b[1]])}
           Before(j, i) == \/ Above(s[j], s[i])
                           \/ j < i /\ ~Above(s[i], s[j])
           rank(i) == Cardinality({j \in DOMAIN s : Before(j, i)}) + 1
<1>1. n \in Nat /\ DOMAIN s = 1..n
  OBVIOUS
<1>2. ASSUME NEW i \in 1..n PROVE s[i].sum \in Int
  <2>1. s[i] \in Items
    OBVIOUS
  <2> QED
    BY <2>1 DEF Items
<1>3. \A i, j \in 1..n :
         <<j, i>> \in B <=> s[j].sum > s[i].sum \/ (j < i /\ ~(s[i].sum > s[j].sum))
  BY DEF Above
<1>4. TotalOrder(B, n)
  <2> HIDE DEF B, n
  <2> QED
    BY <1>1, <1>2, <1>3 DEF TotalOrder
<1>5. PICK p : InRankOrder(p, B, n)
  <2> HIDE DEF B, n
  <2> QED
    BY <1>1, <1>4, RankOrderExists
<1>6. ASSUME NEW k \in 1..n, NEW l \in 1..n, k < l
      PROVE  p[k] # p[l] /\ s[p[k]].sum >= s[p[l]].sum
  <2>1. PICK x \in 1..n, y \in 1..n : x = p[k] /\ y = p[l] /\ <<x, y>> \in B
    <3> HIDE DEF B, n
    <3> QED
      BY <1>5, <1>6 DEF InRankOrder
  <2>2. s[x].sum \in Int /\ s[y].sum \in Int
    BY <1>2
  <2>3. s[x].sum > s[y].sum \/ (x < y /\ ~(s[y].sum > s[x].sum))
    BY <1>3, <2>1
  <2>4. x # y /\ s[x].sum >= s[y].sum
    <3> HIDE DEF n
    <3> QED
      BY <1>1, <2>2, <2>3
  <2> QED
    BY <2>1, <2>4
<1>7. StableSort(s) = [k \in 1..n |-> s[p[k]]]
  <2>1. ASSUME NEW i \in 1..n PROVE rank(i) = RankIn(B, n, i)
    <3> HIDE DEF B
    <3>1. {j \in 1..n : <<j, i>> \in B} = {j \in DOMAIN s : Before(j, i)}
      BY <1>1, <1>3 DEF Above
    <3> QED
      BY <3>1 DEF RankIn
  <2>2. StableSort(s) = [k \in DOMAIN s |-> s[CHOOSE i \in DOMAIN s : rank(i) = k]]
    BY DEF StableSort
  <2> HIDE DEF rank, B, n
  <2>3. ASSUME NEW k \in 1..n PROVE (CHOOSE i \in DOMAIN s : rank(i) = k) = p[k]
    <3>1. \A i \in 1..n : rank(i) = k <=> p[k] = i
      BY <1>5, <2>1 DEF InRankOrder
    <3>2. p[k] \in 1..n
      BY <1>5 DEF InRankOrder
    <3> QED
      BY <1>1, <3>1, <3>2
  <2> QED
    BY <1>1, <2>2, <2>3
<1> QED
  BY <1>5, <1>6, <1>7 DEF Sorts, InRankOrder

-----------------------------------------------------------------------------
(* IsOf, with ignore_direction as a parameter, and the packets of a pair.  *)
Belongs(p, x, d) == \/ p.a = x.a /\ p.b = x.b
                    \/ d /\ p.a = x.b /\ p.b = x.a

Own(x, d) == {p \in Packets : Belongs(p, x, d)}

(* What the invariant says of an item x after the packets s were counted:  *)
(* its counts are the last ones of its packets; those that were dropped    *)
(* are older than cut.                                                     *)
OldGone(x, d, s, cut) == \E m : Kept(x.counts, Filter(s, Own(x, d)), m, cut)

(* Its counts are just those not older than `from'.                        *)
Exact(x, d, s, from) == Alike(x.counts, Filter(s, Own(x, d) \cap Since(from)))

InOrder(s) == \A j, k \in 1..Len(s) : j < k => s[j].ts <= s[k].ts

TypeOK ==
  /\ now \in Nat
  /\ ignore_direction \in BOOLEAN
  /\ pc \in [Threads -> {"off", "read", "update", "exited", "accept", "request",
                         "create_out", "write", "show"}]
  /\ pc["main"] = "update" => packet \in Packets
  /\ data \in Seq(Items)
  /\ out.ts \in Int /\ out.upto \in 0..Len(seen)
  /\ seen \in Seq(Packets)

(* A thread holds the mutex while it writes and shows the list.            *)
MutexHeld ==
  \A t \in Threads : pc[t] \in {"write", "show"} => update_data_mutex = t

(* The packets were counted in the order of their times.                   *)
SeenInOrder ==
  /\ InOrder(seen)
  /\ \A n \in 1..Len(seen) : /\ seen[n].ts <= now
                             /\ pc["main"] = "update" => seen[n].ts <= packet.ts
  /\ pc["main"] = "update" => packet.ts <= now

(* Each packet has an item, and what an item has lost is too old.          *)
PacketsHaveItems ==
  \A n \in 1..Len(seen) : \E i \in 1..Len(data) : Belongs(seen[n], data[i], ignore_direction)

ItemsKeepFresh ==
  \A i \in 1..Len(data) :
    OldGone(data[i], ignore_direction, seen, now - timespan_seconds)

(* When the list is to be written, the items are cleaned and in order.     *)
ReadyToWrite ==
  \A t \in Threads : pc[t] = "write" =>
    /\ \A i \in 1..Len(data) :
         Exact(data[i], ignore_direction, seen, out.ts - timespan_seconds)
    /\ \A i, j \in 1..Len(data) : i < j => data[i].sum >= data[j].sum

IInv ==
  /\ TypeOK /\ MutexHeld /\ SeenInOrder /\ PacketsHaveItems /\ ItemsKeepFresh
  /\ ReadyToWrite /\ PairsUnique /\ SumsUpToDate /\ TableIsExact

LEMMA IsOfIsBelongs == \A p, x : IsOf(p, x) <=> Belongs(p, x, ignore_direction)
  BY DEF IsOf, Belongs

(* Two that belong to a third belong to each other.                        *)
LEMMA BelongsIsEquivalence ==
  ASSUME NEW d, NEW x, NEW y, NEW z
  PROVE  /\ Belongs(x, x, d)
         /\ Belongs(x, y, d) => Belongs(y, x, d)
         /\ Belongs(x, y, d) /\ Belongs(y, z, d) => Belongs(x, z, d)
  BY DEF Belongs

(* The items of the same pair have the same packets.                       *)
LEMMA OwnOfPair ==
  ASSUME NEW d, NEW x, NEW y, Belongs(x, y, d)
  PROVE  Own(x, d) = Own(y, d)
  BY DEF Own, Belongs

(* TableIsExact with the variables it looks at as parameters.              *)
Win(x, d, s, from) == Filter(s, Own(x, d) \cap Since(from))

TableOf(o, d, s) ==
  LET from == o.ts - timespan_seconds
      w    == SubSeq(s, 1, o.upto)
  IN  /\ \A k \in DOMAIN o.rows : /\ o.rows[k].bytes = SumOf(Win(o.rows[k], d, w, from))
                                 /\ o.rows[k].packets = Len(Win(o.rows[k], d, w, from))
      /\ \A k, l \in DOMAIN o.rows : k < l => o.rows[k].bytes >= o.rows[l].bytes
      /\ Len(o.rows) = IF o.total < print_max_items THEN o.total ELSE print_max_items
      /\ \A n \in 1..o.upto :
           \/ \E k \in DOMAIN o.rows : Belongs(s[n], o.rows[k], d)
           \/ /\ Len(o.rows) = print_max_items
              /\ \A k \in DOMAIN o.rows : SumOf(Win(s[n], d, w, from)) <= o.rows[k].bytes

LEMMA TableIsTableOf ==
  TableIsExact <=> (out.upto > 0 => TableOf(out, ignore_direction, seen))
<1>1. ASSUME NEW x, NEW n, NEW from
      PROVE  Window(x, n, from) = Win(x, ignore_direction, SubSeq(seen, 1, n), from)
  <2>1. {p \in Packets : p.ts >= from /\ IsOf(p, x)} = Own(x, ignore_direction) \cap Since(from)
    BY IsOfIsBelongs DEF Own, Since
  <2> QED
    BY <2>1 DEF Window, Win
<1>2. \A p, x : IsOf(p, x) <=> Belongs(p, x, ignore_direction)
  BY IsOfIsBelongs
<1> QED
  BY <1>1, <1>2 DEF TableIsExact, TableOf

(* The same after a step.                                                  *)
LEMMA TableIsTableOfNext ==
  TableIsExact' <=> (out'.upto > 0 => TableOf(out', ignore_direction', seen'))
<1>1. (TableIsExact <=> (out.upto > 0 => TableOf(out, ignore_direction, seen)))'
  BY TableIsTableOf, PTL
<1> QED
  BY <1>1

(* The item of a packet that is counted: y is what becomes of x.           *)
CountedAs(y, x, p, before) ==
  /\ y.a = x.a /\ y.b = x.b
  /\ \E e \in Entries :
       /\ e.bytes = p.bytes /\ e.ts = p.ts
       /\ y.counts = Append(DropBefore(x.counts, before), e)

LEMMA CountedKeeps ==
  ASSUME NEW x \in Items, NEW d, NEW s \in Seq(Packets), NEW p \in Packets,
         NEW cut \in Int, NEW before \in Int, before <= cut, Belongs(p, x, d),
         OldGone(x, d, s, cut), NEW y, CountedAs(y, x, p, before)
  PROVE  y.counts \in Seq(Entries) /\ OldGone(y, d, Append(s, p), cut)
<1>0. PICK e \in Entries : /\ e.bytes = p.bytes /\ e.ts = p.ts
                           /\ y.counts = Append(DropBefore(x.counts, before), e)
  BY DEF CountedAs
<1>1. Own(y, d) = Own(x, d) /\ p \in Own(x, d)
  BY DEF Own, Belongs, CountedAs
<1>2. PICK w \in Seq(Packets) : w = Filter(s, Own(x, d))
  BY FilterType
<1>3. Filter(Append(s, p), Own(y, d)) = Append(w, p)
  BY <1>1, <1>2, FilterAppend
<1>4. PICK m : Kept(x.counts, w, m, cut)
  BY <1>2 DEF OldGone
<1>5. PICK c \in Seq(Entries) : c = DropBefore(x.counts, before) /\ \E k : Kept(c, w, k, cut)
  <2>1. x.counts \in Seq(Entries)
    BY DEF Items
  <2> QED
    BY <1>4, <2>1, DropKeeps
<1>6. PICK k : Kept(c, w, k, cut)
  BY <1>5
<1>8. PICK c2 \in Seq(Entries) : /\ c2 = Append(c, e) /\ Len(c2) = Len(c) + 1
                                 /\ c2[Len(c) + 1] = e
                                 /\ \A n \in 1..Len(c) : c2[n] = c[n]
  <2>1. /\ Append(c, e) \in Seq(Entries) /\ Len(Append(c, e)) = Len(c) + 1
        /\ Append(c, e)[Len(c) + 1] = e
        /\ \A n \in 1..Len(c) : Append(c, e)[n] = c[n]
    BY AppendProperties
  <2> QED
    BY <2>1
<1>9. PICK w2 \in Seq(Packets) : /\ w2 = Append(w, p) /\ Len(w2) = Len(w) + 1
                                 /\ w2[Len(w) + 1] = p
                                 /\ \A n \in 1..Len(w) : w2[n] = w[n]
  <2>1. /\ Append(w, p) \in Seq(Packets) /\ Len(Append(w, p)) = Len(w) + 1
        /\ Append(w, p)[Len(w) + 1] = p
        /\ \A n \in 1..Len(w) : Append(w, p)[n] = w[n]
    BY AppendProperties
  <2> QED
    BY <2>1
<1>10. Kept(c2, w2, k, cut)
  <2>1. k \in 0..Len(w) /\ Len(c) = Len(w) - k /\ Len(w) \in Nat
    BY <1>6 DEF Kept
  <2>2. ASSUME NEW n \in 1..Len(c2)
        PROVE  c2[n].bytes = w2[k + n].bytes /\ c2[n].ts = w2[k + n].ts
    <3>1. CASE n = Len(c) + 1
      BY <1>0, <1>8, <1>9, <2>1, <3>1
    <3>2. CASE n # Len(c) + 1
      <4>1. n \in 1..Len(c)
        BY <1>8, <2>1, <3>2
      <4>2. k + n \in 1..Len(w)
        BY <2>1, <4>1
      <4> QED
        BY <1>6, <1>8, <1>9, <4>1, <4>2 DEF Kept
    <3> QED
      BY <3>1, <3>2
  <2>3. ASSUME NEW n \in 1..k PROVE w2[n].ts < cut
    <3>1. n \in 1..Len(w)
      BY <2>1
    <3> QED
      BY <1>6, <1>9, <3>1 DEF Kept
  <2>4. k \in 0..Len(w2) /\ Len(c2) = Len(w2) - k
    BY <1>8, <1>9, <2>1
  <2> QED
    BY <2>2, <2>3, <2>4 DEF Kept
<1>11. y.counts = c2
  BY <1>0, <1>5, <1>8
<1> QED
  BY <1>3, <1>8, <1>9, <1>10, <1>11 DEF OldGone

(* An item the packet does not belong to.                                  *)
LEMMA OtherKeeps ==
  ASSUME NEW x, NEW d, NEW s \in Seq(Packets), NEW p \in Packets, NEW cut,
         ~Belongs(p, x, d), OldGone(x, d, s, cut)
  PROVE  OldGone(x, d, Append(s, p), cut)
<1>1. p \notin Own(x, d)
  BY DEF Own
<1>2. Filter(Append(s, p), Own(x, d)) = Filter(s, Own(x, d))
  BY <1>1, FilterAppend
<1> QED
  BY <1>2 DEF OldGone

(* A new item.                                                             *)
LEMMA NewKeeps ==
  ASSUME NEW x, NEW d, NEW s \in Seq(Packets), NEW cut, x.counts = <<>>,
         \A n \in 1..Len(s) : ~Belongs(s[n], x, d)
  PROVE  OldGone(x, d, s, cut)
<1>1. \A n \in 1..Len(s) : s[n] \in Own(x, d) <=> n >= Len(s) + 1
  BY DEF Own
<1>2. Len(s) + 1 \in 1..Len(s) + 1 /\ Len(s) \in Nat
  OBVIOUS
<1>3. Filter(s, Own(x, d)) = SubSeq(s, Len(s) + 1, Len(s))
  BY <1>1, <1>2, FilterSuffix
<1>4. SubSeq(s, Len(s) + 1, Len(s)) = <<>>
  BY <1>2, SubSeqEmpty
<1>5. Kept(<<>>, <<>>, 0, cut)
  BY DEF Kept
<1> QED
  BY <1>3, <1>4, <1>5 DEF OldGone

(* cleanup_host_data leaves what is fresh and brings the sum up to date.   *)
LEMMA CleanedIsExact ==
  ASSUME NEW x \in Items, NEW d, NEW s \in Seq(Packets), NEW cut \in Int,
         InOrder(s), OldGone(x, d, s, cut), x.sum = SumOf(x.counts),
         NEW y, y = Cleaned(x, cut)
  PROVE  /\ y \in Items /\ y.a = x.a /\ y.b = x.b
         /\ y.sum = SumOf(y.counts)
         /\ OldGone(y, d, s, cut)
         /\ Exact(y, d, s, cut)
<1>1. x.counts \in Seq(Entries) /\ cut <= cut
  BY DEF Items
<1>2. PICK w \in Seq(Packets) : w = Filter(s, Own(x, d))
  BY FilterType
<1>3. PICK m : Kept(x.counts, w, m, cut)
  BY <1>2 DEF OldGone
<1>4. PICK c \in Seq(Entries) :
             /\ c = DropBefore(x.counts, cut)
             /\ \E k : Kept(c, w, k, cut) /\ (k < Len(w) => w[k + 1].ts >= cut)
  BY <1>1, <1>3, DropKeeps
<1>5. PICK k : Kept(c, w, k, cut) /\ (k < Len(w) => w[k + 1].ts >= cut)
  BY <1>4
<1>6. /\ y.counts = c /\ y.a = x.a /\ y.b = x.b
      /\ y.sum = SumOf(c) /\ y \in Items
  <2>1. SumOf(c) \in Int
    BY BytesAreInts, SumType
  <2> QED
    BY <1>4, <2>1 DEF Cleaned, Items
<1>7. Own(y, d) = Own(x, d)
  BY <1>6 DEF Own, Belongs
<1>8. Alike(c, Filter(w, Since(cut)))
  <2>1. \A i, j \in 1..Len(w) : i < j => w[i].ts <= w[j].ts
    BY <1>2, FilterInOrder DEF InOrder
  <2> QED
    BY <1>5, <2>1, KeptIsExact
<1>9. Filter(w, Since(cut)) = Filter(s, Own(x, d) \cap Since(cut))
  BY <1>2, FilterTwice
<1> QED
  BY <1>2, <1>5, <1>6, <1>7, <1>8, <1>9 DEF OldGone, Exact

-----------------------------------------------------------------------------
(* find_item: 0 if no item is of the pair of p, else the position of one.  *)
LEMMA IndexOfFinds ==
  ASSUME NEW p, data \in Seq(Items)
  PROVE  \E i \in 0..Len(data) :
           /\ i = IndexOf(p.a, p.b)
           /\ i = 0 => \A j \in 1..Len(data) : ~Belongs(p, data[j], ignore_direction)
           /\ i # 0 => Belongs(p, data[i], ignore_direction)
<1> DEFINE Of(a, b) == {i \in 1..Len(data) : data[i].a = a /\ data[i].b = b}
           First(I) == IF I # {} THEN Min(I) ELSE 0
<1>1. IndexOf(p.a, p.b) = IF First(Of(p.a, p.b)) # 0 \/ ~ignore_direction
                          THEN First(Of(p.a, p.b)) ELSE First(Of(p.b, p.a))
  BY DEF IndexOf, SelectInSeq
<1>2. ASSUME NEW I \in SUBSET (1..Len(data))
      PROVE  /\ First(I) \in 0..Len(data)
             /\ First(I) = 0 => I = {}
             /\ First(I) # 0 => First(I) \in I
  <2>1. CASE I = {}
    BY <2>1
  <2>2. CASE I # {}
    <3>1. I \in SUBSET Nat
      OBVIOUS
    <3>2. PICK x \in I : \A y \in I : x <= y
      BY <2>2, <3>1, LeastExists
    <3>3. Min(I) \in I
      BY <3>2 DEF Min
    <3>4. First(I) = Min(I)
      BY <2>2
    <3>5. PICK m \in 1..Len(data) : m = First(I) /\ m \in I
      BY <3>3, <3>4
    <3> QED
      BY <2>2, <3>5
  <2> QED
    BY <2>1, <2>2
<1>3. Of(p.a, p.b) \in SUBSET (1..Len(data)) /\ Of(p.b, p.a) \in SUBSET (1..Len(data))
  OBVIOUS
<1>4. \A i \in 1..Len(data) :
         Belongs(p, data[i], ignore_direction) <=>
           i \in Of(p.a, p.b) \/ (ignore_direction /\ i \in Of(p.b, p.a))
  BY DEF Belongs
<1> HIDE DEF Of, First
<1>5. PICK i : i = IndexOf(p.a, p.b)
  OBVIOUS
<1>6. CASE First(Of(p.a, p.b)) # 0 \/ ~ignore_direction
  <2>1. i = First(Of(p.a, p.b))
    BY <1>1, <1>5, <1>6
  <2> QED
    BY <1>2, <1>3, <1>4, <1>5, <1>6, <2>1
<1>7. CASE ~(First(Of(p.a, p.b)) # 0 \/ ~ignore_direction)
  <2>1. i = First(Of(p.b, p.a))
    BY <1>1, <1>5, <1>7
  <2> QED
    BY <1>2, <1>3, <1>4, <1>5, <1>7, <2>1
<1> QED
  BY <1>6, <1>7

-----------------------------------------------------------------------------
LEMMA InitInv == Init => IInv
<1> SUFFICES ASSUME Init PROVE IInv
  OBVIOUS
<1>1. Len(data) = 0 /\ Len(seen) = 0 /\ data \in Seq(Items) /\ seen \in Seq(Packets)
      /\ DOMAIN data = {}
  BY DEF Init
<1>2. TypeOK
  BY <1>1, ConstantsAreNumbers DEF Init, TypeOK, StartTime, Threads
<1>3. MutexHeld /\ ReadyToWrite
  BY DEF Init, MutexHeld, ReadyToWrite, Threads
<1>4. SeenInOrder /\ PacketsHaveItems /\ ItemsKeepFresh
  BY <1>1 DEF Init, SeenInOrder, InOrder, PacketsHaveItems, ItemsKeepFresh
<1>5. PairsUnique /\ SumsUpToDate
  BY <1>1 DEF PairsUnique, SumsUpToDate
<1>6. TableIsExact
  BY DEF Init, TableIsExact
<1> QED
  BY <1>2, <1>3, <1>4, <1>5, <1>6 DEF IInv

(* Steps that leave the items, the list and the packets alone.             *)
LEMMA QuietStep ==
  ASSUME IInv, TypeOK', MutexHeld', SeenInOrder',
         UNCHANGED <<ignore_direction, data, out, seen>>, now' \in Nat, now' >= now,
         \A t \in Threads : pc'[t] = "write" => pc[t] = "write"
  PROVE  IInv'
<1>1. PacketsHaveItems'
  BY DEF IInv, PacketsHaveItems
<1>2. ItemsKeepFresh'
  <2>1. ASSUME NEW i \in 1..Len(data)
        PROVE  OldGone(data[i], ignore_direction, seen, now' - timespan_seconds)
    <3>1. PICK w \in Seq(Packets) : w = Filter(seen, Own(data[i], ignore_direction))
      BY FilterType DEF IInv, TypeOK
    <3>2. PICK m : Kept(data[i].counts, w, m, now - timespan_seconds)
      BY <3>1 DEF IInv, ItemsKeepFresh, OldGone
    <3>3. ASSUME NEW k \in 1..m PROVE w[k].ts < now' - timespan_seconds
      <4>1. k \in 1..Len(w) /\ w[k].ts < now - timespan_seconds
        BY <3>2 DEF Kept
      <4>2. w[k].ts \in Nat
        BY <4>1, BytesAreInts
      <4> QED
        BY <4>1, <4>2, ConstantsAreNumbers DEF IInv, TypeOK
    <3>4. Kept(data[i].counts, w, m, now' - timespan_seconds)
      BY <3>2, <3>3 DEF Kept
    <3> QED
      BY <3>1, <3>4 DEF OldGone
  <2> QED
    BY <2>1 DEF ItemsKeepFresh
<1>3. ReadyToWrite'
  BY DEF IInv, ReadyToWrite
<1>4. PairsUnique' /\ SumsUpToDate'
  BY DEF IInv, PairsUnique, SumsUpToDate, IsOf
<1>5. TableIsExact'
  BY TableIsTableOf, TableIsTableOfNext DEF IInv
<1> QED
  BY <1>1, <1>2, <1>3, <1>4, <1>5 DEF IInv

(* The steps of main and of the server that only QuietStep is needed for.  *)
LEMMA TickInv == IInv /\ Tick => IInv'
<1> SUFFICES ASSUME IInv, Tick PROVE IInv'
  OBVIOUS
<1>1. TypeOK' /\ now' \in Nat /\ now' >= now
  BY DEF IInv, TypeOK, Tick
<1>2. MutexHeld'
  BY DEF IInv, MutexHeld, Tick
<1>3. SeenInOrder'
  <2>1. ASSUME NEW n \in 1..Len(seen) PROVE seen[n].ts \in Nat
    BY BytesAreInts DEF IInv, TypeOK
  <2>2. pc["main"] = "update" => packet.ts \in Nat
    BY BytesAreInts DEF IInv, TypeOK
  <2> QED
    BY <2>1, <2>2 DEF IInv, TypeOK, SeenInOrder, Tick
<1>4. UNCHANGED <<ignore_direction, data, out, seen>>
      /\ \A t \in Threads : pc'[t] = "write" => pc[t] = "write"
  BY DEF Tick
<1> QED
  BY <1>1, <1>2, <1>3, <1>4, QuietStep

LEMMA ReadPacketInv == IInv /\ ReadPacket => IInv'
<1> SUFFICES ASSUME IInv, ReadPacket PROVE IInv'
  OBVIOUS
<1>1. packet' \in Packets /\ packet'.ts = now
  BY DEF IInv, TypeOK, ReadPacket, Packets
<1>2. pc' = [pc EXCEPT !["main"] = "update"] /\ now' = now
  BY DEF ReadPacket, GoTo
<1>3. TypeOK' /\ now' \in Nat /\ now' >= now
  <2>1. UNCHANGED <<ignore_direction, data, out, seen>>
    BY DEF ReadPacket
  <2>2. pc' \in [Threads -> {"off", "read", "update", "exited", "accept", "request",
                            "create_out", "write", "show"}]
    BY <1>2 DEF IInv, TypeOK
  <2>3. now' \in Nat /\ now' >= now
    BY <1>2 DEF IInv, TypeOK
  <2> QED
    BY <1>1, <2>1, <2>2, <2>3 DEF IInv, TypeOK
<1>4. MutexHeld'
  BY <1>2 DEF IInv, TypeOK, MutexHeld, ReadPacket
<1>5. SeenInOrder'
  BY <1>1, <1>2 DEF IInv, TypeOK, SeenInOrder, ReadPacket
<1>6. UNCHANGED <<ignore_direction, data, out, seen>>
      /\ \A t \in Threads : pc'[t] = "write" => pc[t] = "write"
  BY <1>2 DEF ReadPacket, IInv, TypeOK
<1> QED
  BY <1>3, <1>4, <1>5, <1>6, QuietStep

LEMMA MoveInv ==
  ASSUME IInv, NEW t \in Threads,
         NEW q \in {"read", "exited", "accept", "request", "create_out"},
         pc' = [pc EXCEPT ![t] = q],
         \/ UNCHANGED update_data_mutex
         \/ pc[t] = "show" /\ update_data_mutex' = NoThread,
         UNCHANGED <<now, ignore_direction, packet, data, out, seen>>
  PROVE  IInv'
<1>1. TypeOK' /\ now' \in Nat /\ now' >= now
  BY DEF IInv, TypeOK, Threads
<1>2. MutexHeld'
  BY DEF IInv, TypeOK, MutexHeld, Threads
<1>3. SeenInOrder'
  BY DEF IInv, TypeOK, SeenInOrder, Threads
<1>4. \A u \in Threads : pc'[u] = "write" => pc[u] = "write"
  BY DEF IInv, TypeOK
<1> QED
  BY <1>1, <1>2, <1>3, <1>4, QuietStep

LEMMA ReadEndsInv == IInv /\ ReadEnds => IInv'
  BY MoveInv DEF ReadEnds, GoTo, Threads

LEMMA AcceptInv == IInv /\ Accept => IInv'
  BY MoveInv DEF Accept, GoTo, Threads

LEMMA ReadRequestInv == IInv /\ ReadRequest => IInv'
  BY MoveInv DEF ReadRequest, GoTo, Threads

LEMMA ShowOutInv == ASSUME NEW t \in Threads PROVE IInv /\ ShowOut(t) => IInv'
  BY MoveInv DEF ShowOut, GoTo

-----------------------------------------------------------------------------
(* The table stays exact while more packets are counted.                   *)
LEMMA TableStays ==
  ASSUME IInv, NEW p \in Packets, seen' = Append(seen, p),
         UNCHANGED <<ignore_direction, out>>
  PROVE  TableIsExact'
<1>1. seen \in Seq(Packets) /\ out.upto \in 0..Len(seen) /\ Len(seen) \in Nat
  BY DEF IInv, TypeOK
<1>2. /\ seen' \in Seq(Packets) /\ Len(seen') = Len(seen) + 1
      /\ \A n \in 1..Len(seen) : seen'[n] = seen[n]
  BY <1>1, AppendProperties
<1>3. SubSeq(seen', 1, out.upto) = SubSeq(seen, 1, out.upto)
  BY <1>1, <1>2
<1>4. \A n \in 1..out.upto : seen'[n] = seen[n]
  BY <1>1, <1>2
<1>5. out.upto > 0 => TableOf(out, ignore_direction, seen)
  BY TableIsTableOf DEF IInv
<1>6. out.upto > 0 => TableOf(out, ignore_direction, seen')
  BY <1>3, <1>4, <1>5 DEF TableOf
<1> QED
  BY <1>6, TableIsTableOfNext

(* The item of the packet, found or new.                                   *)
LEMMA CountedItem ==
  ASSUME IInv, pc["main"] = "update", NEW x \in Items, NEW y, y = Counted(x),
         Belongs(packet, x, ignore_direction),
         OldGone(x, ignore_direction, seen, now - timespan_seconds)
  PROVE  /\ y \in Items /\ y.a = x.a /\ y.b = x.b
         /\ y.sum = SumOf(y.counts)
         /\ OldGone(y, ignore_direction, Append(seen, packet), now - timespan_seconds)
<1>1. PICK p \in Packets : p = packet
  BY DEF IInv, TypeOK
<1>2. PICK before \in Int, cut \in Int :
             /\ before = p.ts - timespan_seconds
             /\ cut = now - timespan_seconds
             /\ before <= cut
  <2>1. p.ts \in Nat /\ now \in Nat /\ p.ts <= now
    BY <1>1, BytesAreInts DEF IInv, TypeOK, SeenInOrder
  <2>2. /\ p.ts - timespan_seconds \in Int /\ now - timespan_seconds \in Int
        /\ p.ts - timespan_seconds <= now - timespan_seconds
    BY <2>1, ConstantsAreNumbers
  <2> QED
    BY <2>2
<1>3. PICK e \in Entries : /\ e = [bytes |-> p.bytes, ts |-> p.ts]
                           /\ e.bytes = p.bytes /\ e.ts = p.ts
  <2>1. p.bytes \in Lengths /\ p.ts \in Nat
    BY DEF Packets
  <2>2. [bytes |-> p.bytes, ts |-> p.ts] \in Entries
    BY <2>1 DEF Entries
  <2> QED
    BY <2>2
<1>9. PICK c : c = Append(DropBefore(x.counts, before), e)
  OBVIOUS
<1>4. y = [x EXCEPT !.counts = c, !.sum = SumOf(c)]
  BY <1>1, <1>2, <1>3, <1>9 DEF Counted, AddBytes
<1>5. y.a = x.a /\ y.b = x.b /\ y.counts = c /\ y.sum = SumOf(c)
  BY <1>4 DEF Items
<1>6. c \in Seq(Entries) /\ OldGone(y, ignore_direction, Append(seen, p), cut)
  <2>1. seen \in Seq(Packets) /\ Belongs(p, x, ignore_direction)
        /\ OldGone(x, ignore_direction, seen, cut)
        /\ CountedAs(y, x, p, before)
    BY <1>1, <1>2, <1>3, <1>5, <1>9 DEF IInv, TypeOK, CountedAs
  <2> QED
    <3>1. y.counts \in Seq(Entries) /\ OldGone(y, ignore_direction, Append(seen, p), cut)
      BY <1>2, <2>1, CountedKeeps
    <3> QED
      BY <1>5, <3>1
<1>7. SumOf(c) \in Int
  BY <1>6, BytesAreInts, SumType
<1>8. y \in Items
  BY <1>4, <1>6, <1>7 DEF Items
<1> QED
  BY <1>1, <1>2, <1>5, <1>6, <1>8

(* The items after a step that counts the packet: the others as they were, *)
(* and the item of the packet as it is told by CountedItem.                *)
LEMMA CountPacketInv == IInv /\ CountPacket => IInv'
<1> SUFFICES ASSUME IInv, CountPacket PROVE IInv'
  OBVIOUS
<1> DEFINE d   == ignore_direction
           cut == now - timespan_seconds
           N   == Len(data)
<1>1. /\ data \in Seq(Items) /\ seen \in Seq(Packets) /\ packet \in Packets
      /\ pc["main"] = "update" /\ N \in Nat /\ DOMAIN data = 1..N
  BY DEF IInv, TypeOK, CountPacket
<1>2. /\ seen' = Append(seen, packet)
      /\ UNCHANGED <<now, ignore_direction, packet, update_data_mutex, out>>
      /\ pc' = [pc EXCEPT !["main"] = IF PrintDue THEN "create_out" ELSE "read"]
      /\ update_data_mutex = NoThread
  BY DEF CountPacket, GoTo
<1>3. /\ seen' \in Seq(Packets) /\ Len(seen') = Len(seen) + 1 /\ Len(seen) \in Nat
      /\ seen'[Len(seen) + 1] = packet
      /\ \A n \in 1..Len(seen) : seen'[n] = seen[n]
  BY <1>1, <1>2, AppendProperties
<1>4. PICK i \in 0..N :
             /\ i = IndexOf(packet.a, packet.b)
             /\ i = 0 => \A j \in 1..N : ~Belongs(packet, data[j], d)
             /\ i # 0 => Belongs(packet, data[i], d)
  BY <1>1, IndexOfFinds
<1> DEFINE x == IF i = 0 THEN NewItem(packet.a, packet.b) ELSE data[i]
           y == Counted(x)
           k == IF i = 0 THEN N + 1 ELSE i
           M == IF i = 0 THEN N + 1 ELSE N
<1>5. x \in Items /\ Belongs(packet, x, d) /\ OldGone(x, d, seen, cut)
  <2>1. CASE i = 0
    <3>1. x = [a |-> packet.a, b |-> packet.b, counts |-> <<>>, sum |-> 0]
      BY <2>1 DEF NewItem
    <3>2. x \in Items
      <4>1. packet.a \in Hosts /\ packet.b \in Hosts /\ <<>> \in Seq(Entries) /\ 0 \in Int
        BY <1>1 DEF Packets
      <4> HIDE DEF x
      <4> QED
        BY <3>1, <4>1 DEF Items
    <3>3. Belongs(packet, x, d) /\ x.counts = <<>>
      BY <3>1 DEF Belongs
    <3>4. ASSUME NEW n \in 1..Len(seen) PROVE ~Belongs(seen[n], x, d)
      <4>1. PICK j \in 1..N : Belongs(seen[n], data[j], d)
        BY DEF IInv, PacketsHaveItems
      <4>2. ~Belongs(packet, data[j], d)
        BY <1>4, <2>1
      <4> HIDE DEF x
      <4> QED
        BY <3>3, <4>1, <4>2, BelongsIsEquivalence
    <3> HIDE DEF x, cut
    <3> QED
      BY <1>1, <3>2, <3>3, <3>4, NewKeeps
  <2>2. CASE i # 0
    <3>1. x = data[i] /\ i \in 1..N
      BY <2>2
    <3> HIDE DEF x
    <3> QED
      BY <1>1, <1>4, <2>2, <3>1 DEF IInv, ItemsKeepFresh
  <2> QED
    BY <2>1, <2>2
<1>6. /\ y \in Items /\ y.a = x.a /\ y.b = x.b
      /\ y.sum = SumOf(y.counts)
      /\ OldGone(y, d, seen', cut)
  <2> HIDE DEF x, cut
  <2> QED
    BY <1>1, <1>2, <1>5, CountedItem DEF cut
<1>7. /\ data' \in Seq(Items) /\ Len(data') = M /\ k \in 1..M /\ M \in Nat
      /\ data'[k] = y
      /\ \A j \in 1..M : j # k => j \in 1..N /\ data'[j] = data[j]
      /\ \A j \in 1..N : j # k => j \in 1..M
  <2>1. CASE i = 0
    <3>1. data' = Append(data, y)
      BY <1>4, <2>1 DEF CountPacket
    <3> HIDE DEF y
    <3>2. /\ Append(data, y) \in Seq(Items) /\ Len(Append(data, y)) = N + 1
          /\ Append(data, y)[N + 1] = y
          /\ \A j \in 1..N : Append(data, y)[j] = data[j]
      BY <1>1, <1>6, AppendProperties
    <3> HIDE DEF N
    <3> QED
      BY <1>1, <2>1, <3>1, <3>2
  <2>2. CASE i # 0
    <3>1. data' = [data EXCEPT ![i] = y]
      BY <1>4, <2>2 DEF CountPacket
    <3> HIDE DEF y
    <3> QED
      BY <1>1, <1>6, <2>2, <3>1
  <2> QED
    BY <2>1, <2>2
<1> HIDE DEF x, y, k, M
<1>8. ASSUME NEW j \in 1..M, j # k PROVE ~Belongs(data[j], y, d) /\ ~Belongs(y, data[j], d)
  <2>1. j \in 1..N
    BY <1>7, <1>8
  <2>2. CASE i = 0
    <3>1. ~Belongs(packet, data[j], d)
      BY <1>4, <2>1, <2>2
    <3>2. Belongs(packet, y, d)
      BY <1>5, <1>6 DEF Belongs
    <3> QED
      BY <3>1, <3>2, BelongsIsEquivalence
  <2>3. CASE i # 0
    <3>1. x = data[i] /\ i \in 1..N /\ i # j
      BY <1>8, <2>3 DEF x, k
    <3>2. ~IsOf(data[j], data[i]) /\ ~IsOf(data[i], data[j])
      BY <1>1, <2>1, <3>1 DEF IInv, PairsUnique
    <3>3. ~Belongs(data[j], x, d) /\ ~Belongs(x, data[j], d)
      BY <3>1, <3>2, IsOfIsBelongs
    <3> QED
      BY <1>6, <3>3 DEF Belongs
  <2> QED
    BY <2>2, <2>3
<1>9. TypeOK'
  <2>1. pc' \in [Threads -> {"off", "read", "update", "exited", "accept", "request",
                            "create_out", "write", "show"}]
    BY <1>2 DEF IInv, TypeOK
  <2>2. pc'["main"] # "update"
    BY <1>2 DEF IInv, TypeOK, Threads
  <2>3. out.upto \in 0..Len(seen')
    BY <1>3 DEF IInv, TypeOK
  <2> QED
    BY <1>2, <1>3, <1>7, <2>1, <2>2, <2>3 DEF IInv, TypeOK
<1>10. MutexHeld' /\ ReadyToWrite'
  <2>1. \A t \in Threads : pc'[t] \notin {"write", "show"}
    BY <1>2 DEF IInv, TypeOK, MutexHeld, Threads, NoThread
  <2> QED
    BY <2>1 DEF MutexHeld, ReadyToWrite
<1>11. SeenInOrder'
  <2>1. packet.ts <= now /\ \A n \in 1..Len(seen) : seen[n].ts <= packet.ts /\ seen[n].ts <= now
    BY <1>1 DEF IInv, SeenInOrder
  <2>2. ASSUME NEW n \in 1..Len(seen') PROVE n \in 1..Len(seen) \/ n = Len(seen) + 1
    BY <1>3
  <2>3. ASSUME NEW n \in 1..Len(seen') PROVE seen'[n].ts <= now
    BY <1>3, <2>1, <2>2
  <2>4. ASSUME NEW m \in 1..Len(seen'), NEW n \in 1..Len(seen'), m < n
        PROVE  seen'[m].ts <= seen'[n].ts
    <3>1. m \in 1..Len(seen)
      BY <1>3, <2>4
    <3>2. CASE n \in 1..Len(seen)
      BY <1>3, <2>4, <3>1, <3>2 DEF IInv, SeenInOrder, InOrder
    <3>3. CASE n = Len(seen) + 1
      BY <1>3, <2>1, <3>1, <3>3
    <3> QED
      BY <2>2, <3>2, <3>3
  <2>5. pc'["main"] # "update"
    BY <1>2 DEF IInv, TypeOK, Threads
  <2> QED
    BY <1>2, <2>3, <2>4, <2>5 DEF SeenInOrder, InOrder
<1>12. PacketsHaveItems'
  <2>1. ASSUME NEW n \in 1..Len(seen')
        PROVE  \E j \in 1..M : Belongs(seen'[n], data'[j], d)
    <3>1. CASE n = Len(seen) + 1
      <4>1. Belongs(packet, y, d)
        BY <1>5, <1>6 DEF Belongs
      <4> QED
        BY <1>3, <1>7, <3>1, <4>1
    <3>2. CASE n # Len(seen) + 1
      <4>1. n \in 1..Len(seen) /\ seen'[n] = seen[n]
        BY <1>3, <3>2
      <4>2. PICK j \in 1..N : Belongs(seen[n], data[j], d)
        BY <4>1 DEF IInv, PacketsHaveItems
      <4>3. CASE j = k
        <5>1. j = i /\ x = data[j]
          BY <1>1, <4>3 DEF k, x
        <5>2. Belongs(seen[n], y, d)
          BY <1>6, <4>2, <5>1 DEF Belongs
        <5> QED
          BY <1>7, <4>1, <5>2
      <4>4. CASE j # k
        BY <1>7, <4>1, <4>2, <4>4
      <4> QED
        BY <4>3, <4>4
    <3> QED
      BY <3>1, <3>2
  <2> QED
    BY <1>2, <1>7, <2>1 DEF PacketsHaveItems
<1>13. ItemsKeepFresh'
  <2>1. ASSUME NEW j \in 1..M PROVE OldGone(data'[j], d, seen', cut)
    <3>1. CASE j = k
      BY <1>6, <1>7, <3>1
    <3>2. CASE j # k
      <4>1. j \in 1..N /\ data'[j] = data[j]
        BY <1>7, <3>2
      <4>2. OldGone(data[j], d, seen, cut)
        BY <4>1 DEF IInv, ItemsKeepFresh
      <4>3. ~Belongs(packet, data[j], d)
        BY <1>5, <1>6, <1>8, <3>2, BelongsIsEquivalence DEF Belongs
      <4> HIDE DEF cut
      <4> QED
        BY <1>1, <1>2, <4>1, <4>2, <4>3, OtherKeeps
    <3> QED
      BY <3>1, <3>2
  <2> QED
    BY <1>2, <1>7, <2>1 DEF ItemsKeepFresh
<1>14. PairsUnique'
  <2>1. ASSUME NEW j \in 1..M, NEW l \in 1..M, j # l PROVE ~Belongs(data'[l], data'[j], d)
    <3>1. CASE j = k
      BY <1>7, <1>8, <2>1, <3>1
    <3>2. CASE l = k
      BY <1>7, <1>8, <2>1, <3>2
    <3>3. CASE j # k /\ l # k
      <4>1. ~IsOf(data[l], data[j])
        BY <1>1, <1>7, <2>1, <3>3 DEF IInv, PairsUnique
      <4> QED
        BY <1>7, <3>3, <4>1, IsOfIsBelongs
    <3> QED
      BY <3>1, <3>2, <3>3
  <2>2. DOMAIN data' = 1..M
    BY <1>7
  <2> QED
    BY <1>2, <2>1, <2>2 DEF PairsUnique, IsOf, Belongs
<1>15. SumsUpToDate'
  <2>1. ASSUME NEW j \in 1..M PROVE data'[j].sum = SumOf(data'[j].counts)
    BY <1>1, <1>6, <1>7 DEF IInv, SumsUpToDate
  <2>2. DOMAIN data' = 1..M
    BY <1>7
  <2> QED
    BY <2>1, <2>2 DEF SumsUpToDate
<1>16. TableIsExact'
  BY <1>1, <1>2, TableStays
<1> QED
  BY <1>9, <1>10, <1>11, <1>12, <1>13, <1>14, <1>15, <1>16 DEF IInv

-----------------------------------------------------------------------------
(* create_out, first half.                                                 *)
LEMMA CleanAndSortInv == ASSUME NEW t \in Threads PROVE IInv /\ CleanAndSort(t) => IInv'
<1> SUFFICES ASSUME IInv, CleanAndSort(t) PROVE IInv'
  OBVIOUS
<1> DEFINE d   == ignore_direction
           cut == now - timespan_seconds
           N   == Len(data)
           C   == [i \in DOMAIN data |-> Cleaned(data[i], cut)]
<1>1. /\ data \in Seq(Items) /\ seen \in Seq(Packets) /\ InOrder(seen)
      /\ N \in Nat /\ DOMAIN data = 1..N /\ now \in Nat /\ cut \in Int
  BY ConstantsAreNumbers DEF IInv, TypeOK, SeenInOrder
<1>2. /\ UNCHANGED <<now, ignore_direction, packet, seen>>
      /\ pc' = [pc EXCEPT ![t] = "write"] /\ pc[t] = "create_out"
      /\ update_data_mutex = NoThread /\ update_data_mutex' = t
      /\ out'.ts = now /\ out'.upto = 0
      /\ data' = StableSort(C)
  BY DEF CleanAndSort, GoTo
<1>3. ASSUME NEW i \in 1..N
      PROVE  /\ C[i] \in Items /\ C[i].a = data[i].a /\ C[i].b = data[i].b
             /\ C[i].sum = SumOf(C[i].counts)
             /\ OldGone(C[i], d, seen, cut)
             /\ Exact(C[i], d, seen, cut)
  <2>1. PICK x \in Items : x = data[i]
    BY <1>1
  <2>2. OldGone(x, d, seen, cut) /\ x.sum = SumOf(x.counts)
    BY <1>1, <2>1 DEF IInv, ItemsKeepFresh, SumsUpToDate
  <2>3. PICK y : y = Cleaned(x, cut) /\ y = C[i]
    BY <1>1, <2>1
  <2> HIDE DEF cut, C
  <2>4. /\ y \in Items /\ y.a = x.a /\ y.b = x.b
        /\ y.sum = SumOf(y.counts)
        /\ OldGone(y, d, seen, cut)
        /\ Exact(y, d, seen, cut)
    BY <1>1, <2>2, <2>3, CleanedIsExact
  <2> QED
    BY <2>1, <2>3, <2>4
<1>4. C \in Seq(Items) /\ Len(C) = N
  <2>1. DOMAIN C = 1..N
    BY <1>1
  <2>2. C = [i \in 1..N |-> C[i]]
    BY <1>1
  <2> HIDE DEF C
  <2> QED
    BY <1>1, <1>3, <2>1, <2>2
<1> HIDE DEF C, cut, N
<1>5. PICK p : Sorts(p, C)
  BY <1>4, SortPermutes
<1>6. /\ p \in [1..N -> 1..N]
      /\ \A i \in 1..N : \E k \in 1..N : p[k] = i
      /\ \A k, l \in 1..N : k < l => p[k] # p[l] /\ C[p[k]].sum >= C[p[l]].sum
      /\ data' = [k \in 1..N |-> C[p[k]]]
  BY <1>2, <1>4, <1>5 DEF Sorts
<1>7. ASSUME NEW k \in 1..N
      PROVE  p[k] \in 1..N /\ data'[k] = C[p[k]]
  BY <1>6
<1>8. data' \in Seq(Items) /\ Len(data') = N /\ DOMAIN data' = 1..N
  <2>1. \A k \in 1..N : C[p[k]] \in Items
    BY <1>3, <1>7
  <2> QED
    BY <1>1, <1>6, <2>1
<1>9. TypeOK'
  <2>1. pc' \in [Threads -> {"off", "read", "update", "exited", "accept", "request",
                            "create_out", "write", "show"}]
    BY <1>2 DEF IInv, TypeOK
  <2>2. pc'["main"] = "update" => pc["main"] = "update"
    BY <1>2 DEF IInv, TypeOK
  <2>3. out'.upto \in 0..Len(seen)
    BY <1>1, <1>2
  <2> QED
    BY <1>1, <1>2, <1>8, <2>1, <2>2, <2>3 DEF IInv, TypeOK
<1>10. MutexHeld'
  <2>1. \A u \in Threads : u # t => pc'[u] \notin {"write", "show"}
    BY <1>2 DEF IInv, TypeOK, MutexHeld, Threads, NoThread
  <2> QED
    BY <1>2, <2>1 DEF MutexHeld
<1>11. SeenInOrder'
  <2>1. pc'["main"] = "update" => pc["main"] = "update"
    BY <1>2 DEF IInv, TypeOK
  <2> QED
    BY <1>2, <2>1 DEF IInv, SeenInOrder
<1>12. PacketsHaveItems'
  <2>1. ASSUME NEW n \in 1..Len(seen) PROVE \E k \in 1..N : Belongs(seen[n], data'[k], d)
    <3>1. PICK i \in 1..N : Belongs(seen[n], data[i], d)
      BY DEF IInv, PacketsHaveItems, N
    <3>2. PICK k \in 1..N : p[k] = i
      BY <1>6
    <3> QED
      BY <1>3, <1>7, <3>1, <3>2 DEF Belongs
  <2> QED
    BY <1>2, <1>8, <2>1 DEF PacketsHaveItems
<1>13. ItemsKeepFresh'
  <2>1. \A k \in 1..N : OldGone(data'[k], d, seen, cut)
    BY <1>3, <1>7
  <2> QED
    BY <1>2, <1>8, <2>1 DEF ItemsKeepFresh, cut
<1>14. ReadyToWrite'
  <2>1. \A k \in 1..N : Exact(data'[k], d, seen, cut)
    BY <1>3, <1>7
  <2>2. \A k, l \in 1..N : k < l => data'[k].sum >= data'[l].sum
    BY <1>6, <1>7
  <2> QED
    BY <1>2, <1>8, <2>1, <2>2 DEF ReadyToWrite, cut
<1>15. PairsUnique'
  <2>1. ASSUME NEW k \in 1..N, NEW l \in 1..N, k # l PROVE ~Belongs(data'[l], data'[k], d)
    <3>1. p[k] \in 1..N /\ p[l] \in 1..N /\ p[k] # p[l]
      <4>1. k < l \/ l < k
        BY <1>1, <2>1
      <4> QED
        BY <1>6, <1>7, <4>1
    <3>2. ~IsOf(data[p[l]], data[p[k]])
      BY <1>1, <3>1 DEF IInv, PairsUnique
    <3>3. ~Belongs(data[p[l]], data[p[k]], d)
      BY <3>2, IsOfIsBelongs
    <3> QED
      BY <1>3, <1>7, <3>1, <3>3 DEF Belongs
  <2> QED
    BY <1>2, <1>8, <2>1 DEF PairsUnique, IsOf, Belongs
<1>16. SumsUpToDate'
  <2>1. \A k \in 1..N : data'[k].sum = SumOf(data'[k].counts)
    BY <1>3, <1>7
  <2> QED
    BY <1>8, <2>1 DEF SumsUpToDate
<1>17. TableIsExact'
  BY <1>2, TableIsTableOfNext
<1> QED
  BY <1>9, <1>10, <1>11, <1>12, <1>13, <1>14, <1>15, <1>16, <1>17 DEF IInv

(* create_out, second half: the table that is written is exact.            *)
LEMMA WriteOutInv == ASSUME NEW t \in Threads PROVE IInv /\ WriteOut(t) => IInv'
<1> SUFFICES ASSUME IInv, WriteOut(t) PROVE IInv'
  OBVIOUS
<1> DEFINE d     == ignore_direction
           from  == out.ts - timespan_seconds
           N     == Len(data)
           shown == IF N < print_max_items THEN N ELSE print_max_items
           row(x) == [a |-> x.a, b |-> x.b, bytes |-> x.sum, packets |-> Len(x.counts)]
<1>1. /\ data \in Seq(Items) /\ seen \in Seq(Packets) /\ N \in Nat /\ Len(seen) \in Nat
      /\ DOMAIN data = 1..N
      /\ shown \in Nat /\ shown <= N
      /\ SubSeq(seen, 1, Len(seen)) = seen
  BY ConstantsAreNumbers DEF IInv, TypeOK
<1>2. /\ UNCHANGED <<now, ignore_direction, packet, update_data_mutex, data, seen>>
      /\ pc' = [pc EXCEPT ![t] = "show"] /\ pc[t] = "write"
      /\ out' = [ts |-> out.ts, upto |-> Len(seen),
                 rows |-> [k \in 1..shown |-> row(data[k])], total |-> N]
  BY DEF WriteOut, GoTo
<1>3. PICK o : /\ o = out' /\ o.ts = out.ts /\ o.upto = Len(seen) /\ o.total = N
               /\ o.rows = [k \in 1..shown |-> row(data[k])]
  <2> DEFINE rows == [k \in 1..shown |-> row(data[k])]
  <2>1. out' = [ts |-> out.ts, upto |-> Len(seen), rows |-> rows, total |-> N]
    BY <1>2
  <2> HIDE DEF rows, N
  <2>2. /\ out'.ts = out.ts /\ out'.upto = Len(seen) /\ out'.total = N /\ out'.rows = rows
    BY <2>1
  <2> QED
    BY <2>2 DEF rows
<1>4. /\ DOMAIN o.rows = 1..shown /\ Len(o.rows) = shown
      /\ \A k \in 1..shown : o.rows[k] = row(data[k])
  BY <1>1, <1>3
<1>5. ASSUME NEW k \in 1..shown
      PROVE  /\ k \in 1..N
             /\ o.rows[k].a = data[k].a /\ o.rows[k].b = data[k].b
             /\ o.rows[k].bytes = data[k].sum
             /\ o.rows[k].packets = Len(data[k].counts)
  <2>1. o.rows[k] = row(data[k])
    BY <1>4
  <2>2. k \in 1..N
    BY <1>1
  <2> HIDE DEF N, shown
  <2> QED
    BY <2>1, <2>2
<1>6. ASSUME NEW i \in 1..N, NEW x,
             (x.a = data[i].a /\ x.b = data[i].b) \/ Belongs(x, data[i], d)
      PROVE  /\ data[i].sum = SumOf(Win(x, d, seen, from)) /\ data[i].sum \in Int
             /\ Len(data[i].counts) = Len(Win(x, d, seen, from))
  <2>1. Belongs(x, data[i], d)
    BY <1>6 DEF Belongs
  <2>2. Own(x, d) = Own(data[i], d)
    BY <2>1, OwnOfPair
  <2>3. PICK w \in Seq(Packets) : w = Win(x, d, seen, from)
    BY <1>1, FilterType DEF Win
  <2>4. PICK c \in Seq(Entries) : c = data[i].counts
    <3>1. data[i] \in Items
      BY <1>1
    <3> QED
      BY <3>1 DEF Items
  <2>5. Alike(c, w)
    BY <1>2, <2>2, <2>3, <2>4 DEF IInv, ReadyToWrite, Exact, Win
  <2>6. SumOf(c) = SumOf(w) /\ SumOf(c) \in Int
    BY <2>5, SumAlike, SumType, BytesAreInts
  <2>7. data[i].sum = SumOf(c)
    BY <1>1, <2>4 DEF IInv, SumsUpToDate
  <2> QED
    BY <2>3, <2>4, <2>5, <2>6, <2>7 DEF Alike
<1> HIDE DEF shown, row, N
<1>7. \A i, j \in 1..N : i < j => data[i].sum >= data[j].sum
  BY <1>2 DEF IInv, ReadyToWrite, N
<1>8. TableOf(o, d, seen)
  <2>1. o.ts - timespan_seconds = from /\ SubSeq(seen, 1, o.upto) = seen
    BY <1>1, <1>3
  <2> HIDE DEF from
  <2>2. ASSUME NEW k \in DOMAIN o.rows
        PROVE  /\ o.rows[k].bytes = SumOf(Win(o.rows[k], d, seen, from))
               /\ o.rows[k].packets = Len(Win(o.rows[k], d, seen, from))
    BY <1>4, <1>5, <1>6
  <2>3. ASSUME NEW k \in DOMAIN o.rows, NEW l \in DOMAIN o.rows, k < l
        PROVE  o.rows[k].bytes >= o.rows[l].bytes
    BY <1>4, <1>5, <1>7, <2>3
  <2>4. Len(o.rows) = IF o.total < print_max_items THEN o.total ELSE print_max_items
    BY <1>3, <1>4 DEF shown
  <2>5. ASSUME NEW n \in 1..o.upto
        PROVE  \/ \E k \in DOMAIN o.rows : Belongs(seen[n], o.rows[k], d)
               \/ /\ Len(o.rows) = print_max_items
                  /\ \A k \in DOMAIN o.rows :
                       SumOf(Win(seen[n], d, seen, from)) <= o.rows[k].bytes
    <3>1. PICK i \in 1..N : Belongs(seen[n], data[i], d)
      BY <1>3 DEF IInv, PacketsHaveItems, N
    <3>2. CASE i \in 1..shown
      <4>1. Belongs(seen[n], o.rows[i], d)
        BY <1>5, <3>1, <3>2 DEF Belongs
      <4> QED
        BY <1>4, <3>2, <4>1
    <3>3. CASE i \notin 1..shown
      <4>1. shown < i /\ shown = print_max_items
        BY <1>1, <3>3 DEF shown
      <4>2. ASSUME NEW k \in DOMAIN o.rows
            PROVE  SumOf(Win(seen[n], d, seen, from)) <= o.rows[k].bytes
        <5>1. k \in 1..N /\ k < i /\ o.rows[k].bytes = data[k].sum
          BY <1>1, <1>4, <1>5, <4>1
        <5>2. data[k].sum >= data[i].sum
          BY <1>7, <5>1
        <5>3. data[i].sum = SumOf(Win(seen[n], d, seen, from)) /\ data[i].sum \in Int
          BY <1>6, <3>1
        <5>4. data[k].sum \in Int
          <6>1. data[k] \in Items
            BY <1>1, <5>1
          <6> QED
            BY <6>1 DEF Items
        <5> QED
          BY <5>1, <5>2, <5>3, <5>4
      <4> QED
        BY <1>4, <4>1, <4>2
    <3> QED
      BY <3>2, <3>3
  <2> QED
    BY <2>1, <2>2, <2>3, <2>4, <2>5 DEF TableOf
<1>9. TableIsExact'
  BY <1>2, <1>3, <1>8, TableIsTableOfNext
<1>10. TypeOK'
  <2>1. pc' \in [Threads -> {"off", "read", "update", "exited", "accept", "request",
                            "create_out", "write", "show"}]
    BY <1>2 DEF IInv, TypeOK
  <2>2. pc'["main"] = "update" => pc["main"] = "update"
    BY <1>2 DEF IInv, TypeOK
  <2>3. out'.upto \in 0..Len(seen) /\ out'.ts \in Int
    BY <1>1, <1>3 DEF IInv, TypeOK
  <2> QED
    BY <1>2, <2>1, <2>2, <2>3 DEF IInv, TypeOK
<1>11. MutexHeld' /\ SeenInOrder'
  <2>1. \A u \in Threads : pc'[u] \in {"write", "show"} => pc[u] \in {"write", "show"}
    BY <1>2 DEF IInv, TypeOK
  <2>2. pc'["main"] = "update" => pc["main"] = "update"
    BY <1>2 DEF IInv, TypeOK
  <2> QED
    BY <1>2, <2>1, <2>2 DEF IInv, MutexHeld, SeenInOrder
<1>12. ReadyToWrite'
  <2>1. \A u \in Threads : pc'[u] # "write"
    BY <1>2 DEF IInv, TypeOK, MutexHeld, Threads
  <2> QED
    BY <2>1 DEF ReadyToWrite
<1>13. PacketsHaveItems' /\ ItemsKeepFresh' /\ PairsUnique' /\ SumsUpToDate'
  BY <1>2 DEF IInv, PacketsHaveItems, ItemsKeepFresh, PairsUnique, SumsUpToDate, IsOf
<1> QED
  BY <1>9, <1>10, <1>11, <1>12, <1>13 DEF IInv

-----------------------------------------------------------------------------
LEMMA StutterInv == IInv /\ UNCHANGED vars => IInv'
<1> SUFFICES ASSUME IInv, UNCHANGED vars PROVE IInv'
  OBVIOUS
<1>1. TypeOK' /\ MutexHeld' /\ SeenInOrder' /\ now' \in Nat /\ now' >= now
  BY DEF vars, IInv, TypeOK, MutexHeld, SeenInOrder
<1> QED
  BY <1>1, QuietStep DEF vars

THEOREM Invariance == Spec => []IInv
<1>1. IInv /\ [Next]_vars => IInv'
  BY TickInv, ReadPacketInv, ReadEndsInv, CountPacketInv, AcceptInv, ReadRequestInv,
     CleanAndSortInv, WriteOutInv, ShowOutInv, StutterInv
     DEF Next, CreateOut, Exited
<1> QED
  BY <1>1, InitInv, PTL DEF Spec

(* Each packet belongs to one item, with -x in either direction, whatever  *)
(* find_item finds and create_item creates.                                *)
THEOREM PacketsOfOneItem == Spec => []PairsUnique
<1>1. IInv => PairsUnique
  BY DEF IInv
<1> QED
  BY <1>1, Invariance, PTL

(* byte_sum is the sum of the counts at every step, although it is only    *)
(* computed anew when entries come or go.                                  *)
THEOREM ByteSumCurrent == Spec => []SumsUpToDate
<1>1. IInv => SumsUpToDate
  BY DEF IInv
<1> QED
  BY <1>1, Invariance, PTL

(* The table shown holds the bytes of the timespan, in order, and leaves   *)
(* out nothing that belongs above a row, however many packets arrive while *)
(* it is made and sent.                                                    *)
THEOREM TableShownIsExact == Spec => []TableIsExact
<1>1. IInv => TableIsExact
  BY DEF IInv
<1> QED
  BY <1>1, Invariance, PTL
=============================================================================
