---------------------------- MODULE SnortScan_proofs ----------------------------
(***************************************************************************)
(* Proofs about SnortScan: whatever the pairs, the priorities and their    *)
(* weight, the timespan, the alerts and the clients, no fresh hit is lost, *)
(* the list that is sent is never behind the items it was made of, and it  *)
(* is not made anew while it is sent.                                      *)
(***************************************************************************)
EXTENDS SnortScan, SeqLemmas_proofs

Items == [pair : Pairs, prio : Prios, hits : Seq(Nat)]

LEMMA ConstantsAreNumbers ==
  /\ timespan_seconds \in Nat /\ print_max_items \in Nat /\ PrioWeight \in Nat
  /\ Prios \in SUBSET Nat
  BY SnortScanAssumption

LEMMA EventTypes == \A e \in Events : e.pair \in Pairs /\ e.prio \in Prios /\ e.ts \in Nat
  BY DEF Events

(* The score of an item is a number.                                       *)
LEMMA ScoreType == ASSUME NEW x \in Items PROVE Score(x) \in Int
<1>1. x.prio \in Prios /\ x.hits \in Seq(Nat)
  BY DEF Items
<1>2. x.prio \in Int /\ Len(x.hits) \in Int /\ PrioWeight \in Int
  <2>1. \A b \in Prios : b \in Int
    BY ConstantsAreNumbers
  <2>2. Len(x.hits) \in Nat
    BY <1>1
  <2>3. x.prio \in Int
    BY <1>1, <2>1
  <2> QED
    BY <2>2, <2>3, ConstantsAreNumbers
<1>3. x.prio * PrioWeight \in Int
  BY <1>2
<1> QED
  BY <1>2, <1>3 DEF Score, SumHits

-----------------------------------------------------------------------------
(* h is what is left of the times of the alerts w after the first m were   *)
(* dropped, all of them older than cut.                                    *)
Kept(h, w, m, cut) ==
  /\ m \in 0..Len(w)
  /\ Len(h) = Len(w) - m
  /\ \A k \in 1..Len(h) : h[k] = w[m + k].ts
  /\ \A k \in 1..m : w[k].ts < cut

(* f is the position of the first that is not older than before, 0 if      *)
(* there is none.                                                          *)
FirstFresh(f, h, before) ==
  /\ f \in 0..Len(h)
  /\ f = 0 => DropBefore(h, before) = <<>> /\ \A k \in 1..Len(h) : h[k] < before
  /\ f # 0 => /\ DropBefore(h, before) = SubSeq(h, f, Len(h))
              /\ h[f] >= before
              /\ \A k \in 1..f - 1 : h[k] < before

LEMMA FirstFreshExists ==
  ASSUME NEW h \in Seq(Nat), NEW before \in Int
  PROVE  \E f : FirstFresh(f, h, before)
<1> DEFINE I == {k \in 1..Len(h) : h[k] >= before}
           f == IF I # {} THEN Min(I) ELSE 0
<1>1. DropBefore(h, before) = IF f = 0 THEN <<>> ELSE SubSeq(h, f, Len(h))
  BY DEF DropBefore, SelectInSeq
<1>2. \A k \in 1..Len(h) : h[k] \in Nat
  OBVIOUS
<1>3. CASE I = {}
  <2>1. f = 0 /\ \A k \in 1..Len(h) : h[k] < before
    BY <1>2, <1>3
  <2> HIDE DEF f
  <2>2. FirstFresh(0, h, before)
    BY <1>1, <2>1 DEF FirstFresh
  <2> QED
    BY <2>2
<1>4. CASE I # {}
  <2>1. I \in SUBSET Nat
    OBVIOUS
  <2>2. Min(I) \in I /\ \A k \in I : Min(I) <= k
    <3> HIDE DEF I
    <3>1. \E x \in I : \A y \in I : x <= y
      BY <1>4, <2>1, LeastExists
    <3> QED
      BY <3>1 DEF Min
  <2>3. PICK m \in 1..Len(h) : m = f /\ m \in I /\ \A k \in I : m <= k
    BY <1>4, <2>2
  <2>4. ASSUME NEW k \in 1..m - 1 PROVE h[k] < before
    <3>1. k \notin I /\ k \in 1..Len(h)
      <4> HIDE DEF I
      <4> QED
        BY <2>3
    <3>2. ~(h[k] >= before) /\ h[k] \in Nat
      BY <1>2, <3>1
    <3> HIDE DEF I, f
    <3> QED
      BY <3>2
  <2> HIDE DEF f
  <2>5. h[m] >= before /\ m # 0
    <3>1. m \in I
      BY <2>3
    <3> QED
      BY <3>1
  <2>6. FirstFresh(m, h, before)
    BY <1>1, <2>3, <2>4, <2>5 DEF FirstFresh
  <2> QED
    BY <2>6
<1> QED
  BY <1>3, <1>4

LEMMA DropKeeps ==
  ASSUME NEW h \in Seq(Nat), NEW w \in Seq(Events), NEW m, NEW cut \in Int,
         Kept(h, w, m, cut)
  PROVE  /\ DropBefore(h, cut) \in Seq(Nat)
         /\ \E k : Kept(DropBefore(h, cut), w, k, cut)
<1>1. PICK f : FirstFresh(f, h, cut)
  BY FirstFreshExists
<1>2. m \in 0..Len(w) /\ Len(h) = Len(w) - m /\ Len(w) \in Nat /\ f \in 0..Len(h)
      /\ Len(h) \in Nat
  BY <1>1 DEF Kept, FirstFresh
<1>3. PICK n \in 0..Len(w) : n = IF f = 0 THEN Len(w) ELSE m + f - 1
  <2>1. f # 0 => m + f - 1 \in 0..Len(w)
    BY <1>2
  <2>2. Len(w) \in 0..Len(w)
    BY <1>2
  <2> QED
    BY <2>1, <2>2
<1>4. ASSUME NEW k \in 1..n PROVE w[k].ts < cut
  <2>1. CASE k <= m
    BY <1>2, <2>1 DEF Kept
  <2>2. CASE k > m
    <3>1. k - m \in 1..Len(h) /\ m + (k - m) = k /\ (f # 0 => k - m \in 1..f - 1)
      BY <1>2, <1>3, <2>2
    <3>2. h[k - m] < cut /\ h[k - m] = w[k].ts
      BY <1>1, <3>1 DEF Kept, FirstFresh
    <3> QED
      BY <3>2
  <2> QED
    BY <1>2, <1>3, <2>1, <2>2
<1>5. CASE f = 0
  <2>1. Kept(<<>>, w, n, cut)
    BY <1>2, <1>3, <1>4, <1>5 DEF Kept
  <2> QED
    BY <1>1, <1>5, <2>1 DEF FirstFresh
<1>6. CASE f # 0
  <2>1. PICK d \in Seq(Nat) :
               /\ d = SubSeq(h, f, Len(h)) /\ Len(d) = Len(h) - f + 1
               /\ \A k \in 1..Len(d) : d[k] = h[f + k - 1]
    <3>1. f \in Int /\ Len(h) \in Int /\ f <= Len(h) /\ \A k \in f..Len(h) : h[k] \in Nat
      BY <1>2, <1>6
    <3>2. /\ SubSeq(h, f, Len(h)) \in Seq(Nat)
          /\ Len(SubSeq(h, f, Len(h))) = Len(h) - f + 1
          /\ \A k \in 1..Len(h) - f + 1 : SubSeq(h, f, Len(h))[k] = h[f + k - 1]
      BY <3>1, SubSeqProperties
    <3> QED
      BY <3>2
  <2>2. ASSUME NEW k \in 1..Len(d) PROVE d[k] = w[n + k].ts
    <3>1. f + k - 1 \in 1..Len(h) /\ m + (f + k - 1) = n + k
      BY <1>2, <1>3, <1>6, <2>1
    <3> QED
      BY <2>1, <3>1 DEF Kept
  <2>3. Len(d) = Len(w) - n
    <3>1. n = m + f - 1 /\ Len(d) = Len(h) - f + 1
      BY <1>3, <1>6, <2>1
    <3> QED
      BY <1>2, <3>1
  <2>4. Kept(d, w, n, cut)
    BY <1>4, <2>2, <2>3 DEF Kept
  <2> QED
    BY <1>1, <1>6, <2>1, <2>4 DEF FirstFresh
<1> QED
  BY <1>5, <1>6

(* One more alert and its hit.                                             *)
LEMMA AppendKeeps ==
  ASSUME NEW h \in Seq(Nat), NEW w \in Seq(Events), NEW m, NEW cut, NEW e \in Events,
         Kept(h, w, m, cut)
  PROVE  Append(h, e.ts) \in Seq(Nat) /\ Kept(Append(h, e.ts), Append(w, e), m, cut)
<1>1. m \in 0..Len(w) /\ Len(h) = Len(w) - m /\ Len(w) \in Nat /\ Len(h) \in Nat
      /\ e.ts \in Nat
  BY EventTypes DEF Kept
<1>2. PICK g \in Seq(Nat) : /\ g = Append(h, e.ts) /\ Len(g) = Len(h) + 1
                            /\ g[Len(h) + 1] = e.ts
                            /\ \A k \in 1..Len(h) : g[k] = h[k]
  <2>1. /\ Append(h, e.ts) \in Seq(Nat) /\ Len(Append(h, e.ts)) = Len(h) + 1
        /\ Append(h, e.ts)[Len(h) + 1] = e.ts
        /\ \A k \in 1..Len(h) : Append(h, e.ts)[k] = h[k]
    BY <1>1, AppendProperties
  <2> QED
    BY <2>1
<1>3. PICK v \in Seq(Events) : /\ v = Append(w, e) /\ Len(v) = Len(w) + 1
                               /\ v[Len(w) + 1] = e
                               /\ \A k \in 1..Len(w) : v[k] = w[k]
  <2>1. /\ Append(w, e) \in Seq(Events) /\ Len(Append(w, e)) = Len(w) + 1
        /\ Append(w, e)[Len(w) + 1] = e
        /\ \A k \in 1..Len(w) : Append(w, e)[k] = w[k]
    BY AppendProperties
  <2> QED
    BY <2>1
<1>4. ASSUME NEW k \in 1..Len(g) PROVE g[k] = v[m + k].ts
  <2>1. CASE k = Len(h) + 1
    BY <1>1, <1>2, <1>3, <2>1
  <2>2. CASE k # Len(h) + 1
    <3>1. k \in 1..Len(h)
      BY <1>1, <1>2, <2>2
    <3>2. m + k \in 1..Len(w)
      BY <1>1, <3>1
    <3> QED
      BY <1>2, <1>3, <3>1, <3>2 DEF Kept
  <2> QED
    BY <2>1, <2>2
<1>5. ASSUME NEW k \in 1..m PROVE v[k].ts < cut
  <2>1. k \in 1..Len(w)
    BY <1>1
  <2> QED
    BY <1>3, <2>1 DEF Kept
<1>6. m \in 0..Len(v) /\ Len(g) = Len(v) - m
  BY <1>1, <1>2, <1>3
<1> QED
  BY <1>2, <1>3, <1>4, <1>5, <1>6 DEF Kept

-----------------------------------------------------------------------------
(* p tells where the items stood that the sort moved.                      *)
Sorts(p, s) ==
  /\ p \in [1..Len(s) -> 1..Len(s)]
  /\ \A i \in 1..Len(s) : \E k \in 1..Len(s) : p[k] = i
  /\ \A k, l \in 1..Len(s) : k < l => p[k] # p[l] /\ Score(s[p[k]]) <= Score(s[p[l]])
  /\ StableSort(s) = [k \in 1..Len(s) |-> s[p[k]]]

LEMMA SortPermutes ==
  ASSUME NEW s \in Seq(Items)
  PROVE  \E p : Sorts(p, s)
<1> DEFINE n == Len(s)
           B == {b \in (1..n) \X (1..n) :
                   \/ Above(s[b[1]], s[b[2]])
                   \/ b[1] < b[2] /\ ~Above(s[b[2]], s[b[1]])}
           Before(j, i) == \/ Above(s[j], s[i])
                           \/ j < i /\ ~Above(s[i], s[j])
           rank(i) == Cardinality({j \in DOMAIN s : Before(j, i)}) + 1
<1>1. n \in Nat /\ DOMAIN s = 1..n
  OBVIOUS
<1>2. \A i \in 1..n : Score(s[i]) \in Int
  BY ScoreType
<1>8. ASSUME NEW i \in 1..n, NEW j \in 1..n PROVE <<j, i>> \in B <=> Before(j, i)
  <2>1. <<j, i>> \in (1..n) \X (1..n)
    OBVIOUS
  <2> HIDE DEF n
  <2> QED
    BY <2>1
<1>3. \A i, j \in 1..n :
         <<j, i>> \in B <=> (Score(s[j]) < Score(s[i])
                             \/ (j < i /\ ~(Score(s[i]) < Score(s[j]))))
  <2>1. ASSUME NEW i \in 1..n, NEW j \in 1..n
        PROVE  Before(j, i) <=> (Score(s[j]) < Score(s[i])
                                 \/ (j < i /\ ~(Score(s[i]) < Score(s[j]))))
    BY DEF Above
  <2> HIDE DEF B, n, Before
  <2> QED
    BY <1>8, <2>1
<1>4. TotalOrder(B, n)
  <2> DEFINE v == [i \in 1..n |-> Score(s[i])]
  <2> HIDE DEF B, n
  <2>1. v \in [1..n -> Int] /\ \A i \in 1..n : v[i] = Score(s[i])
    BY <1>2
  <2> HIDE DEF v
  <2>2. ASSUME NEW i \in 1..n, NEW j \in 1..n
        PROVE  <<j, i>> \in B <=> (v[j] < v[i] \/ (j < i /\ ~(v[i] < v[j])))
    <3>1. v[i] = Score(s[i]) /\ v[j] = Score(s[j])
      BY <2>1
    <3> QED
      BY <1>3, <3>1
  <2>3. \A i \in 1..n : i \in Int /\ v[i] \in Int
    BY <1>1, <2>1
  <2>4. \A i \in 1..n : <<i, i>> \notin B
    BY <2>2, <2>3
  <2>5. ASSUME NEW i \in 1..n, NEW j \in 1..n, NEW k \in 1..n,
               <<i, j>> \in B, <<j, k>> \in B
        PROVE  <<i, k>> \in B
    <3>1. v[i] < v[j] \/ (i < j /\ ~(v[j] < v[i]))
      BY <2>2, <2>5
    <3>2. v[j] < v[k] \/ (j < k /\ ~(v[k] < v[j]))
      BY <2>2, <2>5
    <3>3. v[i] < v[k] \/ (i < k /\ ~(v[k] < v[i]))
      BY <2>3, <3>1, <3>2
    <3> QED
      BY <2>2, <3>3
  <2>6. \A i, j \in 1..n : i # j => <<i, j>> \in B \/ <<j, i>> \in B
    BY <2>2, <2>3
  <2> QED
    BY <2>4, <2>5, <2>6 DEF TotalOrder
<1>5. PICK p : InRankOrder(p, B, n)
  <2> HIDE DEF B, n
  <2> QED
    BY <1>1, <1>4, RankOrderExists
<1>6. ASSUME NEW k \in 1..n, NEW l \in 1..n, k < l
      PROVE  p[k] # p[l] /\ Score(s[p[k]]) <= Score(s[p[l]])
  <2>1. PICK x \in 1..n, y \in 1..n : x = p[k] /\ y = p[l] /\ <<x, y>> \in B
    <3> HIDE DEF B, n
    <3> QED
      BY <1>5, <1>6 DEF InRankOrder
  <2>2. Score(s[x]) \in Int /\ Score(s[y]) \in Int
    BY <1>2
  <2>3. Score(s[x]) < Score(s[y]) \/ (x < y /\ ~(Score(s[y]) < Score(s[x])))
    BY <1>3, <2>1
  <2>4. x # y /\ Score(s[x]) <= Score(s[y])
    <3> HIDE DEF n
    <3> QED
      BY <1>1, <2>2, <2>3
  <2> QED
    BY <2>1, <2>4
<1>7. StableSort(s) = [k \in 1..n |-> s[p[k]]]
  <2>1. ASSUME NEW i \in 1..n PROVE rank(i) = RankIn(B, n, i)
    <3> HIDE DEF B
    <3>1. {j \in 1..n : <<j, i>> \in B} = {j \in DOMAIN s : Before(j, i)}
      <4> HIDE DEF Before
      <4> QED
        BY <1>1, <1>8
    <3> QED
      BY <3>1 DEF RankIn
  <2>2. StableSort(s) = [k \in DOMAIN s |-> s[CHOOSE i \in DOMAIN s : rank(i) = k]]
    BY DEF StableSort
  <2> HIDE DEF rank, B, n
  <2>3. ASSUME NEW k \in 1..n PROVE (CHOOSE i \in DOMAIN s : rank(i) = k) = p[k]
    <3>1. \A i \in 1..n : rank(i) = k <=> p[k] = i
      BY <1>5, <2>1 DEF InRankOrder
    <3>2. p[k] \in 1..n
      BY <1>5 DEF InRankOrder
    <3> QED
      BY <1>1, <3>1, <3>2
  <2> QED
    BY <1>1, <2>2, <2>3
<1> QED
  BY <1>5, <1>6, <1>7 DEF Sorts, InRankOrder

-----------------------------------------------------------------------------
(* The alerts of a pair.                                                   *)
Of(pair) == {e \in Events : e.pair = pair}

(* What the invariant says of an item x after the alerts s were counted:   *)
(* its hits are the last ones of its alerts, those that were dropped are   *)
(* older than cut, and its priority is that of the latest.                 *)
OldGone(x, s, cut) == \E m : Kept(x.hits, Filter(s, Of(x.pair)), m, cut)

LatestPrio(x, s) ==
  LET w == Filter(s, Of(x.pair))
  IN  w # <<>> /\ x.prio = w[Len(w)].prio

TypeOK ==
  /\ now \in Nat
  /\ pc \in [Threads -> {"off", "read", "update", "print", "exited", "accept",
                         "request", "send"}]
  /\ pc["main"] = "update" => event \in Events
  /\ data \in Seq(Items)
  /\ seen \in Seq(Events)

(* No alert is of a later time than those that follow it.                  *)
SeenInOrder ==
  /\ \A n \in 1..Len(seen) : /\ seen[n].ts <= now
                             /\ seen[n].ts <= seen[Len(seen)].ts
                             /\ pc["main"] = "update" => seen[n].ts <= event.ts
  /\ pc["main"] = "update" => event.ts <= now

OneItemEach ==
  /\ \A n \in 1..Len(seen) : \E i \in 1..Len(data) : data[i].pair = seen[n].pair
  /\ \A i, j \in 1..Len(data) : data[i].pair = data[j].pair => i = j

ItemsKeepFresh ==
  \A i \in 1..Len(data) :
    /\ OldGone(data[i], seen, seen[Len(seen)].ts - timespan_seconds)
    /\ LatestPrio(data[i], seen)

DataInOrder ==
  \A i, j \in 1..Len(data) : i < j => Score(data[i]) <= Score(data[j])

(* The list is the one create_out makes of the items as they are.          *)
OutOfData == out = OutOf(data, Len(seen))

IInv ==
  /\ TypeOK /\ SeenInOrder /\ OneItemEach /\ ItemsKeepFresh
  /\ DataInOrder /\ OutOfData

LEMMA InitInv == Init => IInv
<1> SUFFICES ASSUME Init PROVE IInv
  OBVIOUS
<1>1. Len(data) = 0 /\ Len(seen) = 0 /\ data \in Seq(Items) /\ seen \in Seq(Events)
  BY DEF Init
<1>2. TypeOK
  BY <1>1 DEF Init, TypeOK, Threads
<1>3. SeenInOrder /\ OneItemEach /\ ItemsKeepFresh /\ DataInOrder
  BY <1>1 DEF Init, SeenInOrder, OneItemEach, ItemsKeepFresh, DataInOrder
<1>4. OutOfData
  <2>1. Min2(Len(data), print_max_items) = 0
    BY <1>1, ConstantsAreNumbers DEF Min2
  <2>2. OutOf(data, Len(seen)) = [upto |-> 0, rows |-> <<>>, total |-> 0]
    BY <1>1, <2>1 DEF OutOf
  <2> QED
    BY <2>2 DEF Init, OutOfData
<1> QED
  BY <1>2, <1>3, <1>4 DEF IInv

(* Steps that leave the items, the list and the alerts alone.              *)
LEMMA QuietStep ==
  ASSUME IInv, TypeOK', SeenInOrder', UNCHANGED <<data, out, seen>>
  PROVE  IInv'
  BY DEF IInv, OneItemEach, ItemsKeepFresh, DataInOrder, OutOfData

LEMMA TickInv == IInv /\ Tick => IInv'
<1> SUFFICES ASSUME IInv, Tick PROVE IInv'
  OBVIOUS
<1>1. TypeOK'
  BY DEF IInv, TypeOK, Tick
<1>2. SeenInOrder'
  <2>1. ASSUME NEW n \in 1..Len(seen) PROVE seen[n].ts \in Nat
    BY EventTypes DEF IInv, TypeOK
  <2>2. pc["main"] = "update" => event.ts \in Nat
    BY EventTypes DEF IInv, TypeOK
  <2> QED
    BY <2>1, <2>2 DEF IInv, TypeOK, SeenInOrder, Tick
<1> QED
  BY <1>1, <1>2, QuietStep DEF Tick

LEMMA ReadEventInv == IInv /\ ReadEvent => IInv'
<1> SUFFICES ASSUME IInv, ReadEvent PROVE IInv'
  OBVIOUS
<1>1. event' \in Events /\ event'.ts = now
  BY DEF IInv, TypeOK, ReadEvent, Events
<1>2. pc' = [pc EXCEPT !["main"] = "update"] /\ UNCHANGED <<now, data, out, seen>>
  BY DEF ReadEvent, GoTo
<1>3. TypeOK'
  <2>1. pc' \in [Threads -> {"off", "read", "update", "print", "exited", "accept",
                            "request", "send"}]
    BY <1>2 DEF IInv, TypeOK
  <2> QED
    BY <1>1, <1>2, <2>1 DEF IInv, TypeOK
<1>4. SeenInOrder'
  BY <1>1, <1>2 DEF IInv, TypeOK, SeenInOrder
<1> QED
  BY <1>2, <1>3, <1>4, QuietStep

LEMMA MoveInv ==
  ASSUME IInv, NEW t \in Threads,
         NEW q \in {"read", "exited", "accept", "request", "send"},
         pc' = [pc EXCEPT ![t] = q], UNCHANGED <<now, event, data, out, seen>>
  PROVE  IInv'
<1>1. TypeOK'
  BY DEF IInv, TypeOK, Threads
<1>2. SeenInOrder'
  BY DEF IInv, TypeOK, SeenInOrder, Threads
<1> QED
  BY <1>1, <1>2, QuietStep

LEMMA MovesInv ==
  IInv /\ (ReadEnds \/ PrintData \/ Accept \/ RequestFails \/ BeginSend \/ EndSend) => IInv'
  BY MoveInv DEF ReadEnds, PrintData, Accept, RequestFails, BeginSend, EndSend, GoTo, Threads

-----------------------------------------------------------------------------
(* find_item: 0 if no item is of the pair, else the position of one.       *)
LEMMA IndexOfFinds ==
  ASSUME NEW pair, data \in Seq(Items)
  PROVE  \E i \in 0..Len(data) :
           /\ i = IndexOf(pair)
           /\ i = 0 => \A j \in 1..Len(data) : data[j].pair # pair
           /\ i # 0 => data[i].pair = pair
<1> DEFINE I == {i \in 1..Len(data) : data[i].pair = pair}
<1>1. IndexOf(pair) = IF I # {} THEN Min(I) ELSE 0
  BY DEF IndexOf, SelectInSeq
<1>2. CASE I = {}
  BY <1>1, <1>2
<1>3. CASE I # {}
  <2>1. I \in SUBSET Nat
    OBVIOUS
  <2>2. Min(I) \in I
    <3> HIDE DEF I
    <3>1. \E x \in I : \A y \in I : x <= y
      BY <1>3, <2>1, LeastExists
    <3> QED
      BY <3>1 DEF Min
  <2>3. PICK m \in 1..Len(data) : m = Min(I) /\ data[m].pair = pair
    BY <2>2
  <2> HIDE DEF I
  <2>4. IndexOf(pair) = m /\ m # 0 /\ m \in 0..Len(data)
    BY <1>1, <1>3, <2>3
  <2> QED
    BY <2>3, <2>4
<1> QED
  BY <1>2, <1>3

-----------------------------------------------------------------------------
(* An item after main counted an alert e that is not its own, and one that *)
(* it is: h is its list of hits, with or without the old ones dropped.     *)
LEMMA OtherKeeps ==
  ASSUME NEW x, NEW y, NEW s \in Seq(Events), NEW e \in Events, NEW cut,
         x.pair # e.pair, y.pair = x.pair, y.prio = x.prio, LatestPrio(x, s),
         OldGone(y, s, cut)
  PROVE  OldGone(y, Append(s, e), cut) /\ LatestPrio(y, Append(s, e))
<1>1. Filter(Append(s, e), Of(y.pair)) = Filter(s, Of(x.pair))
  <2>1. e \notin Of(x.pair)
    BY DEF Of
  <2> QED
    BY <2>1, FilterAppend
<1> QED
  BY <1>1 DEF OldGone, LatestPrio

LEMMA HitKeeps ==
  ASSUME NEW x \in Items, NEW y, NEW s \in Seq(Events), NEW e \in Events, NEW cut,
         x.pair = e.pair, y.pair = x.pair, y.prio = e.prio,
         y.hits = Append(x.hits, e.ts), OldGone(x, s, cut)
  PROVE  /\ y.hits \in Seq(Nat)
         /\ OldGone(y, Append(s, e), cut) /\ LatestPrio(y, Append(s, e))
<1>1. PICK w \in Seq(Events) : w = Filter(s, Of(x.pair))
  BY FilterType
<1>2. Filter(Append(s, e), Of(y.pair)) = Append(w, e)
  <2>1. e \in Of(x.pair)
    BY DEF Of
  <2> QED
    BY <1>1, <2>1, FilterAppend
<1>3. PICK m : Kept(x.hits, w, m, cut)
  BY <1>1 DEF OldGone
<1>4. PICK h \in Seq(Nat) : h = x.hits
  BY DEF Items
<1>5. Append(h, e.ts) \in Seq(Nat) /\ Kept(Append(h, e.ts), Append(w, e), m, cut)
  BY <1>3, <1>4, AppendKeeps
<1>6. Append(w, e) # <<>> /\ Append(w, e)[Len(Append(w, e))] = e
  <2>1. /\ Append(w, e) # <<>> /\ Len(Append(w, e)) = Len(w) + 1
        /\ Append(w, e)[Len(w) + 1] = e
    BY AppendProperties
  <2> QED
    BY <2>1
<1> QED
  BY <1>2, <1>4, <1>5, <1>6 DEF OldGone, LatestPrio

(* With a later cut, an item lacks no more.                                *)
LEMMA LaterCut ==
  ASSUME NEW x, NEW s \in Seq(Events), NEW cut \in Int, NEW later \in Int,
         cut <= later, OldGone(x, s, cut)
  PROVE  OldGone(x, s, later)
<1>1. PICK w \in Seq(Events) : w = Filter(s, Of(x.pair))
  BY FilterType
<1>2. PICK m : Kept(x.hits, w, m, cut)
  BY <1>1 DEF OldGone
<1>3. ASSUME NEW k \in 1..m PROVE w[k].ts < later
  <2>1. k \in 1..Len(w) /\ w[k].ts < cut
    BY <1>2 DEF Kept
  <2>2. w[k].ts \in Nat
    BY <2>1, EventTypes
  <2> QED
    BY <2>1, <2>2
<1>4. Kept(x.hits, w, m, later)
  BY <1>2, <1>3 DEF Kept
<1> QED
  BY <1>1, <1>4 DEF OldGone

(* remove_hit_count_before does nothing worse to an item than to drop its  *)
(* old hits.                                                               *)
LEMMA RemoveKeeps ==
  ASSUME NEW items \in Seq(Items), NEW s \in Seq(Events), NEW cut \in Int,
         \A i \in 1..Len(items) : OldGone(items[i], s, cut),
         NEW R, R = RemoveHitCountBefore(items, cut)
  PROVE  /\ R \in Seq(Items) /\ Len(R) = Len(items)
         /\ \A i \in 1..Len(items) : /\ R[i].pair = items[i].pair
                                     /\ R[i].prio = items[i].prio
                                     /\ OldGone(R[i], s, cut)
<1> DEFINE N == Len(items)
           dropped(x) == [x EXCEPT !.hits = DropBefore(@, cut)]
<1>1. N \in Nat /\ DOMAIN items = 1..N
  OBVIOUS
<1>2. PICK K : R = [i \in DOMAIN items |-> IF K = 0 \/ i <= K THEN dropped(items[i]) ELSE items[i]]
  BY DEF RemoveHitCountBefore
<1>3. ASSUME NEW i \in 1..N
      PROVE  /\ dropped(items[i]) \in Items
             /\ dropped(items[i]).pair = items[i].pair
             /\ dropped(items[i]).prio = items[i].prio
             /\ OldGone(dropped(items[i]), s, cut)
  <2>1. PICK x \in Items : x = items[i]
    OBVIOUS
  <2>2. PICK w \in Seq(Events) : w = Filter(s, Of(x.pair))
    BY FilterType
  <2>3. PICK m : Kept(x.hits, w, m, cut)
    BY <2>1, <2>2 DEF OldGone
  <2>4. PICK h \in Seq(Nat) : h = x.hits
    BY DEF Items
  <2>5. DropBefore(h, cut) \in Seq(Nat) /\ \E k : Kept(DropBefore(h, cut), w, k, cut)
    BY <2>3, <2>4, DropKeeps
  <2>6. PICK y : y = dropped(x)
    OBVIOUS
  <2>7. y \in Items /\ y.pair = x.pair /\ y.prio = x.prio /\ y.hits = DropBefore(h, cut)
    BY <2>4, <2>5, <2>6 DEF Items
  <2>8. OldGone(y, s, cut)
    BY <2>2, <2>5, <2>7 DEF OldGone
  <2> QED
    BY <2>1, <2>6, <2>7, <2>8
<1> HIDE DEF dropped
<1>4. ASSUME NEW i \in 1..N
      PROVE  /\ R[i] \in Items /\ R[i].pair = items[i].pair /\ R[i].prio = items[i].prio
             /\ OldGone(R[i], s, cut)
  <2>1. R[i] = dropped(items[i]) \/ R[i] = items[i]
    BY <1>1, <1>2
  <2> QED
    BY <1>3, <2>1
<1>5. R \in Seq(Items) /\ Len(R) = N
  <2>1. DOMAIN R = 1..N /\ R = [i \in 1..N |-> R[i]]
    BY <1>1, <1>2
  <2> HIDE DEF N
  <2> QED
    BY <1>1, <1>4, <2>1
<1> QED
  BY <1>4, <1>5

(* Main's critical section.                                                *)
LEMMA UpdateInv == IInv /\ Update => IInv'
<1> SUFFICES ASSUME IInv, Update PROVE IInv'
  OBVIOUS
<1> DEFINE cut == event.ts - timespan_seconds
           N   == Len(data)
           W   == WithItem
           R   == RemoveHitCountBefore(W, cut)
           A   == AddHit(R)
<1>1. /\ data \in Seq(Items) /\ seen \in Seq(Events) /\ event \in Events
      /\ pc["main"] = "update" /\ N \in Nat /\ DOMAIN data = 1..N
      /\ event.ts \in Nat /\ cut \in Int /\ now \in Nat /\ event.ts <= now
  BY EventTypes, ConstantsAreNumbers DEF IInv, TypeOK, SeenInOrder, Update
<1>2. /\ seen' = Append(seen, event) /\ data' = StableSort(A)
      /\ out' = OutOf(data', Len(seen'))
      /\ UNCHANGED <<now, event, update_data_mutex>>
      /\ pc' = [pc EXCEPT !["main"] = IF IsServer THEN "read" ELSE "print"]
  BY DEF Update, GoTo
<1>3. /\ seen' \in Seq(Events) /\ Len(seen') = Len(seen) + 1 /\ Len(seen) \in Nat
      /\ seen'[Len(seen) + 1] = event
      /\ \A n \in 1..Len(seen) : seen'[n] = seen[n]
  BY <1>1, <1>2, AppendProperties
<1>4. ASSUME NEW i \in 1..N PROVE OldGone(data[i], seen, cut) /\ LatestPrio(data[i], seen)
  <2>1. PICK old : /\ old = seen[Len(seen)].ts - timespan_seconds
                   /\ OldGone(data[i], seen, old) /\ LatestPrio(data[i], seen)
    BY DEF IInv, ItemsKeepFresh
  <2>2. Len(seen) \in 1..Len(seen)
    <3>1. PICK w \in Seq(Events) : w = Filter(seen, Of(data[i].pair)) /\ w # <<>>
      BY <1>1, <2>1, FilterType DEF LatestPrio
    <3>2. PICK e : Embeds(e, w, seen, Of(data[i].pair))
      BY <1>1, <3>1, FilterEmbeds
    <3>3. 1 \in 1..Len(w)
      BY <3>1
    <3>4. e[1] \in 1..Len(seen)
      BY <3>2, <3>3 DEF Embeds
    <3> QED
      BY <1>3, <3>4
  <2>3. seen[Len(seen)].ts \in Nat /\ seen[Len(seen)].ts <= event.ts
    BY <1>1, <2>2, EventTypes DEF IInv, SeenInOrder
  <2>4. old \in Int /\ old <= cut
    BY <1>1, <2>1, <2>3, ConstantsAreNumbers
  <2> HIDE DEF cut
  <2> QED
    BY <1>1, <2>1, <2>4, LaterCut
<1>5. PICK i \in 0..N :
             /\ i = IndexOf(event.pair)
             /\ i = 0 => \A j \in 1..N : data[j].pair # event.pair
             /\ i # 0 => data[i].pair = event.pair
  BY <1>1, IndexOfFinds
<1> DEFINE k == IF i = 0 THEN N + 1 ELSE i
           M == IF i = 0 THEN N + 1 ELSE N
<1>6. /\ W \in Seq(Items) /\ Len(W) = M /\ k \in 1..M /\ M \in Nat
      /\ W[k].pair = event.pair /\ W[k].prio = event.prio /\ OldGone(W[k], seen, cut)
      /\ \A j \in 1..M : j # k => j \in 1..N /\ W[j] = data[j]
      /\ \A j \in 1..N : j # k => j \in 1..M
  <2>1. CASE i = 0
    <3>1. PICK x : x = NewItem /\ x = [pair |-> event.pair, prio |-> event.prio, hits |-> <<>>]
      BY DEF NewItem
    <3>2. event.pair \in Pairs /\ event.prio \in Prios /\ <<>> \in Seq(Nat)
      BY <1>1, EventTypes
    <3>3. x \in Items /\ x.pair = event.pair /\ x.prio = event.prio /\ x.hits = <<>>
      BY <3>1, <3>2 DEF Items
    <3>4. W = Append(data, x)
      BY <1>5, <2>1, <3>1 DEF WithItem
    <3>5. /\ Append(data, x) \in Seq(Items) /\ Len(Append(data, x)) = N + 1
          /\ Append(data, x)[N + 1] = x
          /\ \A j \in 1..N : Append(data, x)[j] = data[j]
      BY <1>1, <3>3, AppendProperties
    <3>6. OldGone(x, seen, cut)
      <4>1. ASSUME NEW n \in 1..Len(seen) PROVE seen[n] \in Of(x.pair) <=> n >= Len(seen) + 1
        <5>1. PICK j \in 1..N : data[j].pair = seen[n].pair
          BY DEF IInv, OneItemEach
        <5>2. seen[n].pair # event.pair
          BY <1>5, <2>1, <5>1
        <5> QED
          BY <1>3, <3>3, <5>2 DEF Of
      <4>2. Len(seen) + 1 \in 1..Len(seen) + 1
        BY <1>3
      <4>3. Filter(seen, Of(x.pair)) = SubSeq(seen, Len(seen) + 1, Len(seen))
        BY <1>1, <4>1, <4>2, FilterSuffix
      <4>4. SubSeq(seen, Len(seen) + 1, Len(seen)) = <<>>
        BY <1>3, SubSeqEmpty
      <4>5. Kept(<<>>, <<>>, 0, cut)
        BY DEF Kept
      <4> QED
        BY <3>3, <4>3, <4>4, <4>5 DEF OldGone
    <3> HIDE DEF N, W
    <3> QED
      BY <1>1, <2>1, <3>3, <3>4, <3>5, <3>6
  <2>2. CASE i # 0
    <3>1. W = [data EXCEPT ![i].prio = event.prio] /\ i \in 1..N /\ M = N /\ k = i
      BY <1>5, <2>2 DEF WithItem
    <3>2. PICK x \in Items : x = data[i]
      <4> HIDE DEF W, k, M
      <4>1. data[i] \in Items
        BY <1>1, <3>1
      <4> QED
        BY <4>1
    <3>3. event.prio \in Prios
      BY <1>1, EventTypes
    <3>4. PICK y : y = [x EXCEPT !.prio = event.prio]
      OBVIOUS
    <3>5. y \in Items /\ y.pair = x.pair /\ y.prio = event.prio /\ y.hits = x.hits
      BY <3>3, <3>4 DEF Items
    <3>6. W = [data EXCEPT ![i] = y]
      BY <1>1, <3>1, <3>2, <3>4
    <3>7. OldGone(y, seen, cut)
      BY <1>4, <3>1, <3>2, <3>5 DEF OldGone
    <3> HIDE DEF W, k, M
    <3> QED
      BY <1>1, <1>5, <2>2, <3>1, <3>2, <3>5, <3>6, <3>7
  <2> QED
    BY <2>1, <2>2
<1> HIDE DEF W, R, A, k, M
<1>7. ASSUME NEW j \in 1..M PROVE OldGone(W[j], seen, cut)
  BY <1>4, <1>6
<1>8. /\ R \in Seq(Items) /\ Len(R) = M
      /\ \A j \in 1..M : /\ R[j].pair = W[j].pair /\ R[j].prio = W[j].prio
                         /\ OldGone(R[j], seen, cut)
  <2> HIDE DEF cut
  <2>1. R = RemoveHitCountBefore(W, cut)
    BY DEF R
  <2> QED
    BY <1>1, <1>6, <1>7, <2>1, RemoveKeeps
<1>9. ASSUME NEW j \in 1..M, j # k PROVE W[j].pair # event.pair
  <2>1. j \in 1..N /\ W[j] = data[j]
    BY <1>6, <1>9
  <2>2. CASE i = 0
    BY <1>5, <2>1, <2>2
  <2>3. CASE i # 0
    <3>1. i \in 1..N /\ i # j
      BY <1>9, <2>3 DEF k
    <3> QED
      BY <1>5, <2>1, <3>1 DEF IInv, OneItemEach
  <2> QED
    BY <2>2, <2>3
<1>10. ASSUME NEW j \in 1..M
       PROVE  /\ A[j] \in Items /\ A[j].pair = W[j].pair /\ A[j].prio = W[j].prio
              /\ OldGone(A[j], seen', cut) /\ LatestPrio(A[j], seen')
  <2>1. PICK x \in Items : x = R[j]
    BY <1>8
  <2>2. x.pair = W[j].pair /\ x.prio = W[j].prio /\ OldGone(x, seen, cut)
    BY <1>8, <2>1
  <2>3. A[j] = IF x.pair = event.pair THEN [x EXCEPT !.hits = Append(@, event.ts)] ELSE x
    BY <1>8, <2>1 DEF A, AddHit
  <2>4. CASE j = k
    <3>1. x.pair = event.pair /\ x.prio = event.prio
      BY <1>6, <2>2, <2>4
    <3>2. PICK y : y = A[j] /\ y = [x EXCEPT !.hits = Append(@, event.ts)]
      BY <2>3, <3>1
    <3>3. y.pair = x.pair /\ y.prio = event.prio /\ y.hits = Append(x.hits, event.ts)
      BY <3>1, <3>2 DEF Items
    <3>4. /\ y.hits \in Seq(Nat)
          /\ OldGone(y, Append(seen, event), cut) /\ LatestPrio(y, Append(seen, event))
      <4> HIDE DEF cut
      <4> QED
        BY <1>1, <2>2, <3>1, <3>3, HitKeeps
    <3>5. y \in Items
      BY <3>2, <3>4 DEF Items
    <3> QED
      BY <1>2, <2>2, <3>1, <3>2, <3>3, <3>4, <3>5
  <2>5. CASE j # k
    <3>1. x.pair # event.pair /\ A[j] = x /\ j \in 1..N /\ W[j] = data[j]
      BY <1>6, <1>9, <2>2, <2>3, <2>5
    <3>2. LatestPrio(data[j], seen) /\ data[j].pair # event.pair
          /\ x.pair = data[j].pair /\ x.prio = data[j].prio
      BY <1>4, <2>2, <3>1
    <3>3. OldGone(x, Append(seen, event), cut) /\ LatestPrio(x, Append(seen, event))
      <4> HIDE DEF cut
      <4> QED
        BY <1>1, <2>2, <3>2, OtherKeeps
    <3> QED
      BY <1>2, <2>2, <3>1, <3>3
  <2> QED
    BY <2>4, <2>5
<1>11. A \in Seq(Items) /\ Len(A) = M
  <2>1. DOMAIN A = 1..M /\ A = [j \in 1..M |-> A[j]]
    BY <1>6, <1>8 DEF A, AddHit
  <2> QED
    BY <1>6, <1>10, <2>1
<1>12. PICK p : Sorts(p, A)
  BY <1>11, SortPermutes
<1>13. /\ p \in [1..M -> 1..M]
       /\ \A j \in 1..M : \E l \in 1..M : p[l] = j
       /\ \A j, l \in 1..M : j < l => p[j] # p[l] /\ Score(A[p[j]]) <= Score(A[p[l]])
       /\ data' = [j \in 1..M |-> A[p[j]]]
  BY <1>2, <1>11, <1>12 DEF Sorts
<1>14. ASSUME NEW j \in 1..M PROVE p[j] \in 1..M /\ data'[j] = A[p[j]]
  BY <1>13
<1>15. data' \in Seq(Items) /\ Len(data') = M
  <2>1. \A j \in 1..M : A[p[j]] \in Items
    BY <1>10, <1>14
  <2>2. data' \in [1..M -> Items] /\ M \in Nat
    BY <1>6, <1>13, <2>1
  <2> QED
    BY <2>2
<1>16. pc'["main"] # "update"
       /\ pc' \in [Threads -> {"off", "read", "update", "print", "exited", "accept",
                               "request", "send"}]
  BY <1>2 DEF IInv, TypeOK, Threads
<1>17. TypeOK'
  BY <1>1, <1>2, <1>3, <1>15, <1>16 DEF TypeOK
<1>18. SeenInOrder'
  <2>1. ASSUME NEW n \in 1..Len(seen')
        PROVE  seen'[n].ts <= now /\ seen'[n].ts <= seen'[Len(seen')].ts
    <3>1. CASE n = Len(seen) + 1
      BY <1>1, <1>3, <3>1
    <3>2. CASE n # Len(seen) + 1
      <4>1. n \in 1..Len(seen) /\ seen'[n] = seen[n]
        BY <1>3, <3>2
      <4> QED
        BY <1>1, <1>3, <4>1 DEF IInv, SeenInOrder
    <3> QED
      BY <3>1, <3>2
  <2> QED
    BY <1>2, <1>16, <2>1 DEF SeenInOrder
<1>19. OneItemEach'
  <2>1. ASSUME NEW n \in 1..Len(seen') PROVE \E l \in 1..M : data'[l].pair = seen'[n].pair
    <3>1. PICK j \in 1..M : W[j].pair = seen'[n].pair
      <4>1. CASE n = Len(seen) + 1
        BY <1>3, <1>6, <4>1
      <4>2. CASE n # Len(seen) + 1
        <5>1. n \in 1..Len(seen) /\ seen'[n] = seen[n]
          BY <1>3, <4>2
        <5>2. PICK j \in 1..N : data[j].pair = seen[n].pair
          BY <5>1 DEF IInv, OneItemEach
        <5>3. CASE j = k
          <6>1. data[j].pair = event.pair
            BY <1>1, <1>5, <5>3 DEF k
          <6> QED
            BY <1>6, <5>1, <5>2, <6>1
        <5>4. CASE j # k
          BY <1>6, <5>1, <5>2, <5>4
        <5> QED
          BY <5>3, <5>4
      <4> QED
        BY <4>1, <4>2
    <3>2. PICK l \in 1..M : p[l] = j
      BY <1>13
    <3> QED
      BY <1>10, <1>14, <3>1, <3>2
  <2>2. ASSUME NEW j \in 1..M, NEW l \in 1..M, W[j].pair = W[l].pair PROVE j = l
    <3>1. CASE j = k \/ l = k
      BY <1>6, <1>9, <2>2, <3>1
    <3>2. CASE j # k /\ l # k
      <4>1. j \in 1..N /\ l \in 1..N /\ data[j].pair = data[l].pair
        BY <1>6, <2>2, <3>2
      <4> QED
        BY <4>1 DEF IInv, OneItemEach
    <3> QED
      BY <3>1, <3>2
  <2>3. ASSUME NEW j \in 1..M, NEW l \in 1..M, data'[j].pair = data'[l].pair PROVE j = l
    <3>1. p[j] = p[l]
      BY <1>10, <1>14, <2>2, <2>3
    <3> QED
      BY <1>6, <1>13, <3>1
  <2> QED
    BY <1>15, <2>1, <2>3 DEF OneItemEach
<1>20. ItemsKeepFresh'
  <2>1. seen'[Len(seen')].ts - timespan_seconds = cut
    BY <1>3
  <2>2. \A j \in 1..M : OldGone(data'[j], seen', cut) /\ LatestPrio(data'[j], seen')
    BY <1>10, <1>14
  <2> HIDE DEF cut
  <2> QED
    BY <1>15, <2>1, <2>2 DEF ItemsKeepFresh
<1>21. DataInOrder'
  <2>1. \A j, l \in 1..M : j < l => Score(data'[j]) <= Score(data'[l])
    BY <1>13, <1>14
  <2> QED
    BY <1>15, <2>1 DEF DataInOrder, Score, SumHits
<1>22. OutOfData'
  BY <1>2 DEF OutOfData, OutOf, SumHits
<1> QED
  BY <1>17, <1>18, <1>19, <1>20, <1>21, <1>22 DEF IInv

-----------------------------------------------------------------------------
LEMMA StutterInv == IInv /\ UNCHANGED vars => IInv'
<1> SUFFICES ASSUME IInv, UNCHANGED vars PROVE IInv'
  OBVIOUS
<1>1. TypeOK' /\ SeenInOrder'
  BY DEF vars, IInv, TypeOK, SeenInOrder
<1> QED
  BY <1>1, QuietStep DEF vars

THEOREM Invariance == Spec => []IInv
<1>1. IInv /\ [Next]_vars => IInv'
  BY TickInv, ReadEventInv, UpdateInv, MovesInv, StutterInv DEF Next, Exited
<1> QED
  BY <1>1, InitInv, PTL DEF Spec

-----------------------------------------------------------------------------
(* What is left of the times of alerts is their end, and holds at least    *)
(* what a cleaning of all of them would leave.                             *)
LEMMA KeptIsSuffix ==
  ASSUME NEW h \in Seq(Nat), NEW w \in Seq(Events), NEW m, NEW cut \in Int,
         Kept(h, w, m, cut), NEW times, times = [n \in DOMAIN w |-> w[n].ts]
  PROVE  IsSuffix(h, times) /\ IsSuffix(DropBefore(times, cut), h)
<1>1. /\ m \in 0..Len(w) /\ Len(h) = Len(w) - m /\ Len(w) \in Nat /\ Len(h) \in Nat
      /\ \A k \in 1..Len(h) : h[k] = w[m + k].ts
  <2>1. Len(w) \in Nat /\ Len(h) \in Nat
    OBVIOUS
  <2> QED
    BY <2>1 DEF Kept
<1>2. \A n \in 1..Len(w) : w[n].ts \in Nat
  BY EventTypes
<1>3. /\ times \in Seq(Nat) /\ Len(times) = Len(w)
      /\ \A n \in 1..Len(w) : times[n] = w[n].ts
  BY <1>1, <1>2
<1>4. ASSUME NEW k \in 1..Len(h) PROVE h[k] = times[m + k]
  <2>1. m + k \in 1..Len(w)
    BY <1>1
  <2> QED
    BY <1>1, <1>3, <2>1
<1>5. IsSuffix(h, times)
  BY <1>1, <1>3, <1>4, SuffixByPosition
<1>6. PICK f : FirstFresh(f, times, cut)
  BY <1>3, FirstFreshExists
<1>7. f \in 0..Len(w)
  BY <1>3, <1>6 DEF FirstFresh
<1>8. CASE f = 0
  <2>1. DropBefore(times, cut) = <<>>
    BY <1>6, <1>8 DEF FirstFresh
  <2>2. /\ <<>> \in Seq(Nat) /\ Len(h) \in 0..Len(h) /\ Len(<<>>) = Len(h) - Len(h)
        /\ \A k \in 1..Len(<<>>) : <<>>[k] = h[Len(h) + k]
    BY <1>1
  <2>3. IsSuffix(<<>>, h)
    BY <2>2, SuffixByPosition
  <2> QED
    BY <1>5, <2>1, <2>3
<1>9. CASE f # 0
  <2>1. DropBefore(times, cut) = SubSeq(times, f, Len(times)) /\ times[f] >= cut
    BY <1>6, <1>9 DEF FirstFresh
  <2>2. f > m
    <3>1. SUFFICES ASSUME f <= m PROVE FALSE
      BY <1>1, <1>7
    <3>2. f \in 1..m /\ f \in 1..Len(w)
      BY <1>1, <1>7, <1>9, <3>1
    <3>3. w[f].ts < cut /\ times[f] = w[f].ts /\ w[f].ts \in Nat
      BY <1>2, <1>3, <3>2 DEF Kept
    <3> QED
      BY <2>1, <3>3
  <2>3. PICK d \in Seq(Nat) : /\ d = SubSeq(times, f, Len(times))
                              /\ Len(d) = Len(w) - f + 1
                              /\ \A k \in 1..Len(d) : d[k] = times[f + k - 1]
    <3>1. f \in Int /\ Len(times) \in Int /\ f <= Len(times)
          /\ \A k \in f..Len(times) : times[k] \in Nat
      BY <1>1, <1>2, <1>3, <1>7, <1>9
    <3>2. PICK g \in Nat : g = Len(times)
      BY <1>1, <1>3
    <3> DEFINE Times == Nat
    <3>3. f \in Int /\ g \in Int /\ f <= g /\ \A k \in f..g : times[k] \in Times
      BY <3>1, <3>2
    <3> HIDE DEF Times
    <3>4. /\ SubSeq(times, f, g) \in Seq(Times)
          /\ Len(SubSeq(times, f, g)) = g - f + 1
          /\ \A k \in 1..g - f + 1 : SubSeq(times, f, g)[k] = times[f + k - 1]
      BY <3>3, SubSeqProperties
    <3> QED
      BY <1>3, <3>2, <3>4 DEF Times
  <2>4. PICK n \in 0..Len(h) : n = f - m - 1
    BY <1>1, <1>7, <2>2
  <2>5. Len(d) = Len(h) - n
    BY <1>1, <1>7, <2>3, <2>4
  <2>6. ASSUME NEW k \in 1..Len(d) PROVE d[k] = h[n + k]
    <3>1. k \in 1..Len(h) - n
      BY <2>5
    <3>2. n \in Nat /\ k \in Nat /\ m \in Nat /\ f \in Nat /\ Len(h) \in Nat
      BY <1>1, <1>7, <3>1
    <3>3. n + k \in 1..Len(h) /\ m + (n + k) = f + k - 1
      BY <2>4, <3>1, <3>2
    <3>4. d[k] = times[f + k - 1] /\ h[n + k] = times[m + (n + k)]
      BY <1>4, <2>3, <3>3
    <3> QED
      BY <3>3, <3>4
  <2>7. IsSuffix(d, h)
    BY <2>5, <2>6, SuffixByPosition
  <2> QED
    BY <1>5, <2>1, <2>3, <2>7
<1> QED
  BY <1>8, <1>9

(* No hit of the timespan is lost and none is counted twice, although      *)
(* remove_hit_count_before walks over all items and stops early, and the   *)
(* items are sorted each time.                                             *)
THEOREM HitsNotLost == Spec => []HitsAccountedFor
<1>1. ASSUME IInv PROVE HitsAccountedFor
  <2>1. /\ data \in Seq(Items) /\ seen \in Seq(Events)
        /\ DOMAIN data = 1..Len(data) /\ DOMAIN seen = 1..Len(seen)
    BY <1>1 DEF IInv, TypeOK
  <2>2. ASSUME NEW i \in 1..Len(data)
        PROVE  LET alerts == AlertsOf(data[i].pair)
                   times  == [n \in DOMAIN alerts |-> alerts[n].ts]
               IN  /\ alerts # <<>> /\ data[i].prio = alerts[Len(alerts)].prio
                   /\ IsSuffix(data[i].hits, times)
                   /\ IsSuffix(DropBefore(times, seen[Len(seen)].ts - timespan_seconds),
                               data[i].hits)
    <3>1. PICK cut : cut = seen[Len(seen)].ts - timespan_seconds
      OBVIOUS
    <3>2. PICK w \in Seq(Events) : w = AlertsOf(data[i].pair)
      BY <2>1, FilterType DEF AlertsOf
    <3>3. Filter(seen, Of(data[i].pair)) = w
      BY <3>2 DEF AlertsOf, Of
    <3>4. w # <<>> /\ data[i].prio = w[Len(w)].prio
      BY <1>1, <3>3 DEF IInv, ItemsKeepFresh, LatestPrio
    <3>5. PICK m : Kept(data[i].hits, w, m, cut)
      BY <1>1, <3>1, <3>3 DEF IInv, ItemsKeepFresh, OldGone
    <3>6. PICK h \in Seq(Nat) : h = data[i].hits
      <4>1. data[i] \in Items
        BY <2>1
      <4> QED
        BY <4>1 DEF Items
    <3>7. cut \in Int
      <4>1. PICK e : Embeds(e, w, seen, Of(data[i].pair))
        BY <2>1, <3>3, FilterEmbeds
      <4>2. 1 \in 1..Len(w)
        BY <3>4
      <4>3. e[1] \in 1..Len(seen)
        BY <4>1, <4>2 DEF Embeds
      <4>4. Len(seen) \in 1..Len(seen)
        BY <2>1, <4>3
      <4>5. seen[Len(seen)].ts \in Nat
        BY <2>1, <4>4, EventTypes
      <4> QED
        BY <3>1, <4>5, ConstantsAreNumbers
    <3>8. PICK times : times = [n \in DOMAIN w |-> w[n].ts]
      OBVIOUS
    <3>9. IsSuffix(h, times) /\ IsSuffix(DropBefore(times, cut), h)
      BY <3>5, <3>6, <3>7, <3>8, KeptIsSuffix
    <3> QED
      BY <3>1, <3>2, <3>4, <3>6, <3>8, <3>9
  <2>3. \A n \in 1..Len(seen) : \E i \in 1..Len(data) : data[i].pair = seen[n].pair
    BY <1>1 DEF IInv, OneItemEach
  <2>4. \A i, j \in 1..Len(data) : data[j].pair = data[i].pair => i = j
    BY <1>1 DEF IInv, OneItemEach
  <2> QED
    BY <2>1, <2>2, <2>3, <2>4 DEF HitsAccountedFor
<1> QED
  BY <1>1, Invariance, PTL

-----------------------------------------------------------------------------
(* The items are as many as the pairs that were seen.                      *)
LEMMA ItemsArePairs ==
  ASSUME IInv
  PROVE  Len(data) = Cardinality({seen[n].pair : n \in DOMAIN seen})
<1> DEFINE S == {seen[n].pair : n \in DOMAIN seen}
           N == Len(data)
           f == [i \in 1..N |-> data[i].pair]
<1>1. /\ data \in Seq(Items) /\ seen \in Seq(Events) /\ N \in Nat
      /\ DOMAIN seen = 1..Len(seen)
  BY DEF IInv, TypeOK
<1>2. ASSUME NEW i \in 1..N PROVE data[i].pair \in S
  <2>1. PICK w : w = Filter(seen, Of(data[i].pair)) /\ w # <<>> /\ w \in Seq(Events)
    BY <1>1, FilterType DEF IInv, ItemsKeepFresh, LatestPrio
  <2>2. PICK e : Embeds(e, w, seen, Of(data[i].pair))
    BY <1>1, <2>1, FilterEmbeds
  <2>3. 1 \in 1..Len(w)
    BY <2>1
  <2>4. e[1] \in 1..Len(seen) /\ seen[e[1]] \in Of(data[i].pair)
    BY <2>2, <2>3 DEF Embeds
  <2> QED
    BY <1>1, <2>4 DEF Of
<1>3. f \in Bijection(1..N, S)
  <2>1. f \in [1..N -> S]
    <3> HIDE DEF S, N
    <3> QED
      BY <1>2
  <2>2. \A i, j \in 1..N : f[i] = f[j] => i = j
    BY DEF IInv, OneItemEach
  <2>3. \A s \in S : \E i \in 1..N : f[i] = s
    BY <1>1 DEF IInv, OneItemEach
  <2> HIDE DEF f, S, N
  <2> QED
    BY <2>1, <2>2, <2>3 DEF Bijection, Injection, Surjection, IsInjective
<1>4. IsFiniteSet(1..N) /\ Cardinality(1..N) = N
  <2> HIDE DEF N
  <2> QED
    BY <1>1, FS_Interval
<1>5. Cardinality(S) = N
  <2> HIDE DEF f, S, N
  <2>1. \E g : g \in Bijection(1..N, S)
    BY <1>3
  <2> QED
    BY <1>4, <2>1, FS_Bijection DEF ExistsBijection
<1> QED
  BY <1>5

(* The list is made of the items as they are, is in order, and leaves out  *)
(* no pair that belongs above one that is shown.                           *)
THEOREM ListIsCurrent == Spec => []OutIsCurrent
<1>1. ASSUME IInv PROVE OutIsCurrent
  <2> DEFINE N     == Len(data)
             shown == Min2(N, print_max_items)
  <2>1. /\ data \in Seq(Items) /\ seen \in Seq(Events) /\ N \in Nat
        /\ DOMAIN data = 1..N /\ DOMAIN seen = 1..Len(seen)
        /\ shown \in Nat /\ shown <= N
    BY <1>1, ConstantsAreNumbers DEF IInv, TypeOK, Min2
  <2>2. /\ out.upto = Len(seen) /\ out.total = N
        /\ out.rows = [k \in 1..shown |->
                         [pair |-> data[k].pair, prio |-> data[k].prio,
                          hits |-> SumHits(data[k])]]
    BY <1>1 DEF IInv, OutOfData, OutOf
  <2>3. /\ DOMAIN out.rows = 1..shown /\ Len(out.rows) = shown
        /\ \A k \in 1..shown : out.rows[k].pair = data[k].pair
    BY <2>1, <2>2
  <2>4. ASSUME NEW i \in 1..N PROVE ScoreNow(data[i].pair) = Score(data[i])
    <3>1. (CHOOSE j \in DOMAIN data : data[j].pair = data[i].pair) = i
      <4>1. \A j \in 1..N : data[j].pair = data[i].pair <=> j = i
        BY <1>1 DEF IInv, OneItemEach
      <4> HIDE DEF N
      <4> QED
        BY <2>1, <4>1
    <3>2. PICK w : w = AlertsOf(data[i].pair) /\ data[i].prio = w[Len(w)].prio
      BY <1>1 DEF IInv, ItemsKeepFresh, LatestPrio, AlertsOf, Of
    <3> QED
      BY <2>1, <3>1, <3>2 DEF ScoreNow, Score, SumHits
  <2> HIDE DEF N, shown
  <2>5. \A i, j \in 1..N : i < j => Score(data[i]) <= Score(data[j])
    BY <1>1 DEF IInv, DataInOrder, N
  <2>6. ASSUME NEW k \in 1..shown, NEW l \in 1..shown, k < l
        PROVE  /\ out.rows[k].pair # out.rows[l].pair
               /\ ScoreNow(out.rows[k].pair) <= ScoreNow(out.rows[l].pair)
    <3>1. k \in 1..N /\ l \in 1..N /\ k # l
      BY <2>1, <2>6
    <3>2. data[k].pair # data[l].pair
      BY <1>1, <3>1 DEF IInv, OneItemEach, N
    <3> QED
      BY <2>3, <2>4, <2>5, <2>6, <3>1, <3>2
  <2>7. ASSUME NEW k \in 1..shown, NEW n \in 1..Len(seen)
        PROVE  \/ \E l \in 1..shown : out.rows[l].pair = seen[n].pair
               \/ ScoreNow(out.rows[k].pair) <= ScoreNow(seen[n].pair)
    <3>1. PICK i \in 1..N : data[i].pair = seen[n].pair
      BY <1>1 DEF IInv, OneItemEach, N
    <3>2. CASE i \in 1..shown
      BY <2>3, <3>1, <3>2
    <3>3. CASE i \notin 1..shown
      <4>1. k \in 1..N /\ k < i
        BY <2>1, <3>3
      <4> QED
        BY <2>3, <2>4, <2>5, <3>1, <4>1
    <3> QED
      BY <3>2, <3>3
  <2>8. out.total = Cardinality({seen[n].pair : n \in DOMAIN seen})
    BY <1>1, <2>2, ItemsArePairs DEF N
  <2>9. Len(out.rows) = Min2(out.total, print_max_items)
    BY <2>2, <2>3 DEF shown
  <2> QED
    BY <2>1, <2>2, <2>3, <2>6, <2>7, <2>8, <2>9 DEF OutIsCurrent
<1> QED
  BY <1>1, Invariance, PTL

(* While the accept thread walks the rows and sends them, main does not    *)
(* free them to make a new list.                                           *)
THEOREM ListKeptWhileSent == Spec => ListStaysWhileSent
<1>1. [Next]_vars => [update_data_mutex = "server" => out' = out]_vars
  BY DEF Next, vars, Tick, ReadEvent, ReadEnds, Update, PrintData, Accept, RequestFails,
         BeginSend, EndSend, Exited, NoThread
<1> QED
  BY <1>1, PTL DEF Spec, ListStaysWhileSent
=============================================================================
