---------------------------- MODULE TreeTxn_proofs ----------------------------
(***************************************************************************)
(* Proofs about the B+tree, for every table, every size of keys, data and  *)
(* pages, and any number of changes in a transaction.                      *)
(*                                                                         *)
(* That no page of the committed tree is written to is a matter of what    *)
(* the code writes to, not of what is in the tree: every page it changes   *)
(* is one it was given, one on the path that was touched on the way down,  *)
(* or one it has touched since.  Cow says which pages these are, and every *)
(* operator of LmdbTree is shown to keep it (Onward) or to write to no     *)
(* others (Kept).                                                          *)
(***************************************************************************)
EXTENDS TreeTxn, SeqLemmas_proofs

(* A transaction's record; a sequence of anything.                          *)
Fields == {"pg", "root", "depth", "entries", "leafs", "branches", "overflows",
           "dirty", "loose", "freed", "full", "new", "path"}
IsTree(t) == DOMAIN t = Fields /\ t = [f \in Fields |-> t[f]]

IsSeq(s) == Len(s) \in Nat /\ s = [i \in 1..Len(s) |-> s[i]]

(* The pages of P are as they were, and what is to be written to lies       *)
(* beyond them.                                                             *)
Cow(t, P) ==
  /\ IsTree(t) /\ IsSeq(t.pg)
  /\ Len(P) <= Len(t.pg)
  /\ \A g \in 1..Len(P) : t.pg[g] = P[g]
  /\ t.dirty \subseteq Len(P) + 1..Len(t.pg)
  /\ t.loose \in Seq(t.dirty)
  /\ t.path \in Seq(t.dirty)

(* What was writable stays so, and the path does not get shorter.           *)
Onward(t, u, P) ==
  /\ Cow(u, P)
  /\ t.dirty \subseteq u.dirty
  /\ Len(t.path) <= Len(u.path)

(* Only pages of the transaction have been written to.                      *)
Kept(t, u) ==
  /\ IsTree(u)
  /\ u.dirty = t.dirty /\ u.loose = t.loose /\ u.path = t.path
  /\ DOMAIN u.pg = DOMAIN t.pg /\ u.pg = [g \in DOMAIN t.pg |-> u.pg[g]]
  /\ \A g \in DOMAIN t.pg : g \notin t.dirty => u.pg[g] = t.pg[g]

(* A function on the first n numbers is a sequence.                         *)
LEMMA SeqOfLength ==
  ASSUME NEW n \in Nat, NEW s, DOMAIN s = 1..n, s = [i \in 1..n |-> s[i]]
  PROVE  IsSeq(s) /\ Len(s) = n
<1>1. Len(s) = n
  OBVIOUS
<1> QED
  BY <1>1 DEF IsSeq

(* Writing to the pages of the transaction does no harm.                    *)
LEMMA KeptOnward ==
  ASSUME NEW P, Len(P) \in Nat, NEW t, Cow(t, P), NEW u, Kept(t, u)
  PROVE  Onward(t, u, P)
<1>1. DOMAIN t.pg = 1..Len(t.pg) /\ Len(t.pg) \in Nat
  BY DEF Cow, IsSeq
<1>2. DOMAIN u.pg = 1..Len(t.pg) /\ u.pg = [g \in 1..Len(t.pg) |-> u.pg[g]]
  BY <1>1 DEF Kept
<1>3. IsSeq(u.pg) /\ Len(u.pg) = Len(t.pg)
  BY <1>1, <1>2, SeqOfLength
<1>4. ASSUME NEW g \in 1..Len(P) PROVE u.pg[g] = P[g]
  <2>1. g \in 1..Len(t.pg) /\ g \notin Len(P) + 1..Len(t.pg)
    BY <1>1 DEF Cow
  <2> QED
    BY <1>1, <2>1 DEF Kept, Cow
<1>5. IsTree(u) /\ u.dirty = t.dirty /\ u.loose = t.loose /\ u.path = t.path
  BY DEF Kept
<1>6. t.path \in Seq(t.dirty) => Len(t.path) <= Len(t.path)
  OBVIOUS
<1> QED
  BY <1>3, <1>4, <1>5, <1>6 DEF Onward, Cow

(* A sequence of anything, with one more at its end or at its front.        *)
LEMMA SeqAppend ==
  ASSUME NEW s, IsSeq(s), NEW e
  PROVE  /\ IsSeq(Append(s, e)) /\ Len(Append(s, e)) = Len(s) + 1
         /\ Append(s, e)[Len(s) + 1] = e
         /\ \A i \in 1..Len(s) : Append(s, e)[i] = s[i]
<1> DEFINE R == {s[i] : i \in 1..Len(s)} \cup {e}
<1>1. s \in Seq(R) /\ e \in R
  BY DEF IsSeq
<1> HIDE DEF R
<1>2. Append(s, e) \in Seq(R)
  BY <1>1
<1>3. /\ Len(Append(s, e)) = Len(s) + 1
      /\ Append(s, e)[Len(s) + 1] = e
      /\ \A i \in 1..Len(s) : Append(s, e)[i] = s[i]
  BY <1>1, AppendProperties
<1>4. IsSeq(Append(s, e))
  BY <1>2, <1>3, LenProperties DEF IsSeq
<1> QED
  BY <1>3, <1>4

(* A page that is given out is one the transaction may write to             *)
(* (mdb_page_alloc, mdb_page_new).                                          *)
LEMMA PageAllocCow ==
  ASSUME NEW P, Len(P) \in Nat, NEW t, Cow(t, P)
  PROVE  /\ Onward(t, PageAlloc(t), P)
         /\ PageAlloc(t).new \in PageAlloc(t).dirty
         /\ PageAlloc(t).path = t.path
<1> DEFINE a == PageAlloc(t)
<1>0. /\ IsTree(t) /\ IsSeq(t.pg) /\ Len(t.pg) \in Nat
      /\ t.loose \in Seq(t.dirty) /\ t.path \in Seq(t.dirty)
      /\ t.dirty \subseteq Len(P) + 1..Len(t.pg)
      /\ Len(P) <= Len(t.pg)
      /\ \A g \in 1..Len(P) : t.pg[g] = P[g]
  BY DEF Cow, IsSeq
<1>p. Len(t.path) <= Len(t.path)
  BY <1>0
<1>1. CASE t.loose # <<>>
  <2>1. Head(t.loose) \in t.dirty /\ Tail(t.loose) \in Seq(t.dirty)
    BY <1>0, <1>1, HeadTailProperties
  <2>2. a = [t EXCEPT !.new = Head(t.loose), !.loose = Tail(t.loose)]
    BY <1>1 DEF PageAlloc
  <2> HIDE DEF a
  <2>3. /\ IsTree(a) /\ a.pg = t.pg /\ a.dirty = t.dirty /\ a.path = t.path
        /\ a.loose = Tail(t.loose) /\ a.new = Head(t.loose)
    BY <1>0, <2>2 DEF IsTree, Fields
  <2> QED
    BY <1>0, <1>p, <2>1, <2>3 DEF Onward, Cow, a
<1>2. CASE t.loose = <<>>
  <2> DEFINE e == [kind |-> "leaf", nodes |-> <<>>]
             g == Len(t.pg) + 1
  <2>2. a = [t EXCEPT !.new = g, !.dirty = t.dirty \cup {g}, !.pg = Append(t.pg, e)]
    BY <1>2 DEF PageAlloc
  <2> HIDE DEF a, e, g
  <2>3. /\ IsTree(a) /\ a.pg = Append(t.pg, e) /\ a.dirty = t.dirty \cup {g}
        /\ a.path = t.path /\ a.loose = t.loose /\ a.new = g
    BY <1>0, <2>2 DEF IsTree, Fields
  <2>4. /\ IsSeq(a.pg) /\ Len(a.pg) = Len(t.pg) + 1
        /\ \A i \in 1..Len(t.pg) : a.pg[i] = t.pg[i]
    BY <1>0, <2>3, SeqAppend
  <2>5. a.dirty \subseteq Len(P) + 1..Len(a.pg)
    BY <1>0, <2>3, <2>4 DEF g
  <2>6. ASSUME NEW i \in 1..Len(P) PROVE a.pg[i] = P[i]
    <3>1. i \in 1..Len(t.pg)
      BY <1>0
    <3> QED
      BY <1>0, <2>4, <3>1
  <2>7. a.path \in Seq(a.dirty) /\ a.loose \in Seq(a.dirty)
    BY <1>0, <2>3
  <2>8. Len(P) <= Len(a.pg)
    BY <1>0, <2>4
  <2>9. Onward(t, a, P)
    BY <1>p, <2>3, <2>4, <2>5, <2>6, <2>7, <2>8 DEF Onward, Cow
  <2> QED
    BY <2>3, <2>9 DEF a
<1> QED
  BY <1>1, <1>2

(* One step after another.                                                  *)
LEMMA OnwardTrans ==
  ASSUME NEW P, NEW t, NEW u, NEW w, Cow(t, P), Onward(t, u, P), Onward(u, w, P)
  PROVE  Onward(t, w, P)
<1>1. Len(t.path) \in Nat /\ Len(u.path) \in Nat /\ Len(w.path) \in Nat
  BY DEF Onward, Cow
<1> QED
  BY <1>1 DEF Onward

LEMMA PageNewCow ==
  ASSUME NEW P, Len(P) \in Nat, NEW t, Cow(t, P), NEW kind
  PROVE  /\ Onward(t, PageNew(t, kind), P)
         /\ PageNew(t, kind).new \in PageNew(t, kind).dirty
         /\ PageNew(t, kind).path = t.path
<1> DEFINE a == PageAlloc(t)
           b == PageNew(t, kind)
<1>1. Onward(t, a, P) /\ a.new \in a.dirty /\ a.path = t.path /\ Cow(a, P)
  BY PageAllocCow DEF Onward
<1>2. Kept(a, b) /\ b.new = a.new
  BY <1>1 DEF PageNew, Kept, Cow, IsTree, Fields, IsSeq
<1>3. Onward(a, b, P)
  BY <1>1, <1>2, KeptOnward
<1>4. Onward(t, b, P)
  BY <1>1, <1>3, OnwardTrans
<1> QED
  BY <1>1, <1>2, <1>4 DEF Kept


(* A page of an earlier transaction is copied before it is written to, and  *)
(* its parent may be written to (mdb_page_touch).                           *)
LEMMA RelinkKept ==
  ASSUME NEW P, NEW t, Cow(t, P), NEW parent, parent \in t.dirty \cup {NoPage}, NEW g, NEW copy
  PROVE  Kept(t, Relink(t, parent, g, copy)) /\ Relink(t, parent, g, copy).new = t.new
BY DEF Relink, Kept, Cow, IsTree, Fields, IsSeq

LEMMA PageTouchCow ==
  ASSUME NEW P, Len(P) \in Nat, NEW t, Cow(t, P), NEW parent, parent \in t.dirty \cup {NoPage}, NEW g
  PROVE  /\ Onward(t, PageTouch(t, parent, g), P)
         /\ PageTouch(t, parent, g).new \in PageTouch(t, parent, g).dirty
         /\ PageTouch(t, parent, g).path = t.path
<1> DEFINE u == PageTouch(t, parent, g)
<1>1. CASE g \in t.dirty
  <2>1. u = [t EXCEPT !.new = g]
    BY <1>1 DEF PageTouch
  <2> HIDE DEF u
  <2>2. Kept(t, u) /\ u.new = g
    BY <2>1 DEF Kept, Cow, IsTree, Fields, IsSeq
  <2> QED
    BY <1>1, <2>2, KeptOnward DEF Kept, u
<1>2. CASE g \notin t.dirty
  <2> DEFINE a == PageAlloc(t)
             b == [a EXCEPT !.pg[a.new] = t.pg[g], !.freed = @ \cup {g}]
  <2>1. u = Relink(b, parent, g, a.new)
    BY <1>2 DEF PageTouch
  <2>2. Onward(t, a, P) /\ a.new \in a.dirty /\ a.path = t.path /\ Cow(a, P)
    BY PageAllocCow DEF Onward
  <2> HIDE DEF a, u
  <2>3. Kept(a, b) /\ b.new = a.new
    BY <2>2 DEF Kept, Cow, IsTree, Fields, IsSeq
  <2> HIDE DEF b
  <2>4. Onward(a, b, P) /\ Cow(b, P)
    BY <2>2, <2>3, KeptOnward DEF Onward
  <2>5. Onward(t, b, P)
    BY <2>2, <2>4, OnwardTrans
  <2>6. parent \in b.dirty \cup {NoPage}
    BY <2>5 DEF Onward
  <2>7. Kept(b, u) /\ u.new = b.new
    BY <2>1, <2>4, <2>6, RelinkKept
  <2>8. Onward(b, u, P)
    BY <2>4, <2>7, KeptOnward
  <2>9. Onward(t, u, P)
    BY <2>5, <2>8, OnwardTrans
  <2> QED
    BY <2>2, <2>3, <2>7, <2>9 DEF Kept, u
<1> QED
  BY <1>1, <1>2

(* Down to the leaf of a key, every page of the path is one of the          *)
(* transaction (mdb_cursor_touch).                                          *)
LEMMA FollowCow ==
  ASSUME NEW P, NEW t, Cow(t, P), t.new \in t.dirty
  PROVE  Cow(Follow(t), P) /\ Len(Follow(t).path) = Len(t.path) + 1
<1>1. /\ IsTree(Follow(t)) /\ Follow(t).pg = t.pg /\ Follow(t).dirty = t.dirty
      /\ Follow(t).loose = t.loose /\ Follow(t).path = Append(t.path, t.new)
  BY DEF Follow, Cow, IsTree, Fields
<1>2. Append(t.path, t.new) \in Seq(t.dirty) /\ Len(Append(t.path, t.new)) = Len(t.path) + 1
  <2>1. t.path \in Seq(t.dirty)
    BY DEF Cow
  <2> QED
    BY <2>1, AppendProperties
<1> QED
  BY <1>1, <1>2 DEF Cow

(* A path has been walked.                                                  *)
OnPath(t, P) == Cow(t, P) /\ Len(t.path) >= 1

LEMMA PathPages ==
  ASSUME NEW P, NEW t, Cow(t, P), NEW l \in 1..Len(t.path)
  PROVE  t.path[l] \in t.dirty
<1>1. t.path \in Seq(t.dirty)
  BY DEF Cow
<1> QED
  BY <1>1, ElementOfSeq

LEMMA TouchRootCow ==
  ASSUME NEW P, Len(P) \in Nat, NEW t, Cow(t, P)
  PROVE  OnPath(TouchRoot(t), P)
<1> DEFINE b == [t EXCEPT !.path = <<>>]
           u == PageTouch(b, NoPage, t.root)
<1>1. /\ IsTree(b) /\ b.pg = t.pg /\ b.dirty = t.dirty
      /\ b.loose = t.loose /\ b.path = <<>>
  BY DEF Cow, IsTree, Fields
<1>2. Cow(b, P)
  BY <1>1 DEF Cow
<1> HIDE DEF b
<1>3. Cow(u, P) /\ u.new \in u.dirty /\ u.path = <<>>
  BY <1>1, <1>2, PageTouchCow DEF Onward
<1> HIDE DEF u
<1>4. Cow(Follow(u), P) /\ Len(Follow(u).path) = Len(u.path) + 1
  BY <1>3, FollowCow
<1>5. Len(u.path) = 0
  BY <1>3
<1>6. TouchRoot(t) = Follow(u)
  BY DEF TouchRoot, b, u
<1> QED
  BY <1>4, <1>5, <1>6 DEF OnPath

LEMMA TouchNextCow ==
  ASSUME NEW P, Len(P) \in Nat, NEW t, OnPath(t, P), NEW key
  PROVE  OnPath(TouchNext(t, key), P)
<1> DEFINE g == t.path[Len(t.path)]
           h == t.pg[g].nodes[ChildIndex(t.pg[g], key)].page
           u == PageTouch(t, g, h)
<1>1. Len(t.path) \in 1..Len(t.path)
  BY DEF OnPath, Cow
<1>2. g \in t.dirty /\ Cow(t, P)
  BY <1>1, PathPages DEF OnPath
<1>3. CASE t.pg[g].kind = "leaf"
  BY <1>3 DEF TouchNext, TouchChild
<1>4. CASE t.pg[g].kind # "leaf"
  <2>1. TouchNext(t, key) = Follow(u)
    BY <1>4 DEF TouchNext, TouchChild
  <2> HIDE DEF g, h
  <2>2. Cow(u, P) /\ u.new \in u.dirty /\ u.path = t.path
    BY <1>2, PageTouchCow DEF Onward
  <2>3. Cow(Follow(u), P) /\ Len(Follow(u).path) = Len(t.path) + 1
    BY <2>2, FollowCow
  <2> QED
    BY <1>1, <2>1, <2>3 DEF OnPath
<1> QED
  BY <1>3, <1>4

TouchSteps(f, t, key, m) ==
  f = [n \in 0..m |-> IF n = 0 THEN TouchRoot(t) ELSE TouchNext(f[n - 1], key)]

(* The path is well-defined: its levels come one after another.             *)
LEMMA TouchStepsExist ==
  ASSUME NEW N \in Nat, NEW t, NEW key
  PROVE  \E f : TouchSteps(f, t, key, N)
<1> DEFINE Good(m) == \E f : TouchSteps(f, t, key, m)
           Bad == {m \in 0..N : ~Good(m)}
<1>1. Good(0)
  <2>1. TouchSteps([n \in 0..0 |-> TouchRoot(t)], t, key, 0)
    BY DEF TouchSteps
  <2> QED
    BY <2>1
<1>2. ASSUME NEW m \in 1..N, Good(m - 1) PROVE Good(m)
  <2>1. PICK f : TouchSteps(f, t, key, m - 1)
    BY <1>2
  <2> DEFINE g == [n \in 0..m |-> IF n = m THEN TouchNext(f[m - 1], key) ELSE f[n]]
  <2>2. ASSUME NEW n \in 0..m
        PROVE  g[n] = IF n = 0 THEN TouchRoot(t) ELSE TouchNext(g[n - 1], key)
    <3>1. CASE n = m
      <4>1. m - 1 \in 0..m /\ m - 1 # m /\ m # 0
        OBVIOUS
      <4> QED
        BY <3>1, <4>1
    <3>2. CASE n # m
      <4>1. n \in 0..m - 1 /\ (n # 0 => n - 1 \in 0..m /\ n - 1 # m)
        BY <3>2
      <4> QED
        BY <2>1, <3>2, <4>1 DEF TouchSteps
    <3> QED
      BY <3>1, <3>2
  <2>3. TouchSteps(g, t, key, m)
    BY <2>2 DEF TouchSteps
  <2> QED
    BY <2>3
<1> HIDE DEF Good
<1>3. Bad = {}
  <2> SUFFICES ASSUME Bad # {} PROVE FALSE
    OBVIOUS
  <2>1. PICK m \in Bad : \A k \in Bad : m <= k
    <3>1. Bad \in SUBSET Nat /\ Bad # {}
      OBVIOUS
    <3> HIDE DEF Bad
    <3> QED
      BY <3>1, LeastExists
  <2>2. m \in 1..N /\ m - 1 \in 0..N
    BY <1>1
  <2>3. Good(m - 1)
    BY <2>1, <2>2
  <2> QED
    BY <1>2, <2>2, <2>3
<1>4. Good(N)
  BY <1>3
<1> QED
  BY <1>4 DEF Good

LEMMA TouchDownCow ==
  ASSUME NEW P, Len(P) \in Nat, NEW t, Cow(t, P), NEW key
  PROVE  OnPath(TouchDown(t, key), P)
<1> DEFINE N == Len(t.pg)
           F == CHOOSE f : TouchSteps(f, t, key, N)
           Bad == {n \in 0..N : ~OnPath(F[n], P)}
<1>1. N \in Nat
  BY DEF Cow, IsSeq
<1>2. TouchSteps(F, t, key, N)
  BY <1>1, TouchStepsExist
<1>3. TouchDown(t, key) = F[N]
  BY DEF TouchDown, TouchSteps
<1> HIDE DEF F, N
<1>4. F[0] = TouchRoot(t) /\ \A n \in 1..N : F[n] = TouchNext(F[n - 1], key)
  BY <1>1, <1>2 DEF TouchSteps
<1>5. Bad = {}
  <2> SUFFICES ASSUME Bad # {} PROVE FALSE
    OBVIOUS
  <2>1. PICK m \in Bad : \A k \in Bad : m <= k
    <3>1. Bad \in SUBSET Nat /\ Bad # {}
      BY <1>1
    <3> HIDE DEF Bad
    <3> QED
      BY <3>1, LeastExists
  <2>2. m \in 0..N /\ ~OnPath(F[m], P)
    OBVIOUS
  <2>3. m # 0
    BY <1>4, <2>2, TouchRootCow
  <2>4. m - 1 \in 0..N /\ m \in 1..N /\ ~(m <= m - 1)
    BY <1>1, <2>2, <2>3
  <2>5. OnPath(F[m - 1], P)
    BY <2>1, <2>4
  <2>6. OnPath(TouchNext(F[m - 1], key), P)
    BY <2>5, TouchNextCow
  <2> QED
    BY <1>4, <2>2, <2>4, <2>6
<1> QED
  BY <1>1, <1>3, <1>5

(* A step that writes to pages of the transaction, after other steps.       *)
LEMMA KeptOnwardFrom ==
  ASSUME NEW P, Len(P) \in Nat, NEW t, Cow(t, P), NEW u, Onward(t, u, P), NEW w, Kept(u, w)
  PROVE  Onward(t, w, P)
<1>1. Cow(u, P)
  BY DEF Onward
<1>2. Onward(u, w, P)
  BY <1>1, KeptOnward
<1> QED
  BY <1>2, OnwardTrans

LEMMA OnwardSelf ==
  ASSUME NEW P, NEW t, Cow(t, P) PROVE Onward(t, t, P)
<1>1. Len(t.path) \in Nat
  BY DEF Cow
<1> QED
  BY <1>1 DEF Onward

LEMMA SeqPrepend ==
  ASSUME NEW s, IsSeq(s), NEW e
  PROVE  /\ IsSeq(<<e>> \o s) /\ Len(<<e>> \o s) = Len(s) + 1
         /\ (<<e>> \o s)[1] = e
         /\ \A i \in 2..Len(s) + 1 : (<<e>> \o s)[i] = s[i - 1]
<1> DEFINE R == {s[i] : i \in 1..Len(s)} \cup {e}
<1>1. s \in Seq(R) /\ e \in R /\ Len(s) \in Nat
  BY DEF IsSeq
<1> HIDE DEF R
<1>2. <<e>> \in Seq(R) /\ Len(<<e>>) = 1 /\ <<e>>[1] = e
  BY <1>1
<1>3. /\ <<e>> \o s \in Seq(R)
      /\ Len(<<e>> \o s) = Len(<<e>>) + Len(s)
      /\ \A i \in 1 .. Len(<<e>>) + Len(s) :
           (<<e>> \o s)[i] = IF i <= Len(<<e>>) THEN <<e>>[i] ELSE s[i - Len(<<e>>)]
  BY <1>1, <1>2, ConcatProperties
<1>4. IsSeq(<<e>> \o s)
  BY <1>3, LenProperties DEF IsSeq
<1> QED
  BY <1>1, <1>2, <1>3, <1>4

LEMMA SeqOfOne ==
  ASSUME NEW S, NEW e \in S PROVE <<e>> \in Seq(S) /\ Len(<<e>>) = 1
OBVIOUS

(* The root gets a parent (mdb_page_split).                                 *)
LEMMA GrowRootCow ==
  ASSUME NEW P, Len(P) \in Nat, NEW t, Cow(t, P)
  PROVE  Onward(t, GrowRoot(t), P) /\ Len(GrowRoot(t).path) = Len(t.path) + 1
<1> DEFINE a == PageNew(t, "branch")
           u == GrowRoot(t)
<1>1. Onward(t, a, P) /\ a.new \in a.dirty /\ a.path = t.path /\ Cow(a, P)
  BY PageNewCow DEF Onward
<1>2. u = [a EXCEPT !.pg[a.new].nodes = <<Branch(NullKey, t.root)>>,
                    !.root = a.new, !.depth = @ + 1, !.path = <<a.new>> \o @]
  BY DEF GrowRoot
<1> HIDE DEF a, u
<1>3. /\ IsTree(u) /\ u.dirty = a.dirty /\ u.loose = a.loose /\ u.path = <<a.new>> \o a.path
      /\ u.pg = [a.pg EXCEPT ![a.new] = [a.pg[a.new] EXCEPT !.nodes = <<Branch(NullKey, t.root)>>]]
  BY <1>1, <1>2 DEF Cow, IsTree, Fields
<1> DEFINE b == [u EXCEPT !.path = a.path]
<1>4. Kept(a, b)
  BY <1>1, <1>3 DEF Kept, Cow, IsTree, Fields, IsSeq
<1>5. Cow(b, P)
  BY <1>1, <1>4, KeptOnward DEF Onward
<1>6. b.pg = u.pg /\ b.dirty = u.dirty /\ b.loose = u.loose
  BY <1>3 DEF IsTree, Fields
<1> HIDE DEF b
<1>7. a.path \in Seq(a.dirty) /\ Len(a.path) \in Nat
  BY <1>1 DEF Cow
<1>8. <<a.new>> \in Seq(a.dirty) /\ Len(<<a.new>>) = 1
  BY <1>1, SeqOfOne
<1>9. u.path \in Seq(u.dirty) /\ Len(u.path) = Len(a.path) + 1
  <2>1. /\ <<a.new>> \o a.path \in Seq(a.dirty)
        /\ Len(<<a.new>> \o a.path) = Len(<<a.new>>) + Len(a.path)
    BY <1>7, <1>8, ConcatProperties
  <2> QED
    BY <1>3, <1>7, <1>8, <2>1
<1>10. Cow(u, P)
  BY <1>3, <1>5, <1>6, <1>9 DEF Cow
<1> QED
  BY <1>1, <1>3, <1>7, <1>9, <1>10 DEF Onward, u

(* Splits under way: where the node goes, and the pages that are still to   *)
(* get their nodes.                                                         *)
Todo(u) ==
  /\ IsSeq(u.todo)
  /\ \A k \in 1..Len(u.todo) : u.todo[k].g \in u.t.dirty /\ u.todo[k].right \in u.t.dirty
Splitting(t, u, P) ==
  /\ Onward(t, u.t, P)
  /\ u.l \in 1..Len(u.t.path)
  /\ u.g \in u.t.dirty
  /\ Todo(u)

(* One page is split, and a place for the right one is looked for on the    *)
(* level above (mdb_page_split).                                            *)
LEMMA HangCow ==
  ASSUME NEW P, Len(P) \in Nat, NEW t, Cow(t, P), NEW u, Splitting(t, u, P),
         NEW a, Onward(u.t, a, P), NEW l \in 2..Len(a.path), NEW right \in a.dirty,
         NEW all, NEW split
  PROVE  Splitting(t, Hang(u, a, right, l, all, split), P)
<1> DEFINE d == [g |-> u.g, right |-> right, i |-> u.i, all |-> all, split |-> split]
           w == Hang(u, a, right, l, all, split)
<1>1. /\ w.t = a /\ w.l = l - 1 /\ w.g = a.path[l - 1] /\ w.todo = <<d>> \o u.todo
      /\ d.g = u.g /\ d.right = right
  BY DEF Hang
<1> HIDE DEF d, w
<1>2. Onward(t, a, P) /\ Cow(a, P) /\ u.t.dirty \subseteq a.dirty
  BY OnwardTrans DEF Onward, Splitting
<1>3. Len(a.path) \in Nat
  BY <1>2 DEF Cow
<1>4. l - 1 \in 1..Len(a.path)
  BY <1>3
<1>5. w.g \in a.dirty
  BY <1>1, <1>2, <1>4, PathPages
<1>6. IsSeq(u.todo) /\ Len(u.todo) \in Nat
  BY DEF Splitting, Todo, IsSeq
<1>7. /\ IsSeq(w.todo) /\ Len(w.todo) = Len(u.todo) + 1 /\ w.todo[1] = d
      /\ \A i \in 2..Len(u.todo) + 1 : w.todo[i] = u.todo[i - 1]
  BY <1>1, <1>6, SeqPrepend
<1>8. ASSUME NEW k \in 1..Len(w.todo)
      PROVE  w.todo[k].g \in a.dirty /\ w.todo[k].right \in a.dirty
  <2>1. CASE k = 1
    BY <1>1, <1>2, <1>7, <2>1 DEF Splitting
  <2>2. CASE k # 1
    <3>1. k \in 2..Len(u.todo) + 1 /\ k - 1 \in 1..Len(u.todo)
      BY <1>6, <1>7, <2>2
    <3> QED
      BY <1>2, <1>7, <3>1 DEF Splitting, Todo
  <2> QED
    BY <2>1, <2>2
<1> QED
  BY <1>1, <1>2, <1>4, <1>5, <1>7, <1>8 DEF Splitting, Todo, w

LEMMA PageSplitCow ==
  ASSUME NEW P, Len(P) \in Nat, NEW t, Cow(t, P), NEW u, Splitting(t, u, P)
  PROVE  Splitting(t, PageSplit(u), P)
<1> DEFINE kind == u.t.pg[u.g].kind
           a == PageNew(u.t, kind)
           all == InsertAt(u.t.pg[u.g].nodes, u.i, u.node)
           b == IF u.l = 1 THEN GrowRoot(a) ELSE a
           l == IF u.l = 1 THEN 2 ELSE u.l
           split == SplitIndex(kind, all, u.i)
<1>1. PageSplit(u) = Hang(u, b, a.new, l, all, split)
  BY DEF PageSplit, SplitWith, SplitAt
<1>2. Cow(u.t, P) /\ u.l \in 1..Len(u.t.path)
  BY DEF Splitting, Onward
<1>3. Onward(u.t, a, P) /\ a.new \in a.dirty /\ a.path = u.t.path /\ Cow(a, P)
  BY <1>2, PageNewCow DEF Onward
<1> HIDE DEF a, all, split
<1>4. Len(a.path) \in Nat
  BY <1>3 DEF Cow
<1>5. Onward(u.t, b, P) /\ l \in 2..Len(b.path) /\ a.new \in b.dirty
  <2>1. CASE u.l = 1
    <3>1. Onward(a, GrowRoot(a), P) /\ Len(GrowRoot(a).path) = Len(a.path) + 1
      BY <1>3, GrowRootCow
    <3>2. Onward(u.t, GrowRoot(a), P)
      BY <1>2, <1>3, <3>1, OnwardTrans
    <3> QED
      BY <1>2, <1>3, <1>4, <2>1, <3>1, <3>2 DEF Onward
  <2>2. CASE u.l # 1
    BY <1>2, <1>3, <1>4, <2>2
  <2> QED
    BY <2>1, <2>2
<1> HIDE DEF b, l
<1> QED
  BY <1>1, <1>5, HangCow

SplitSteps(f, v, m) ==
  f = [n \in 0..m |-> IF n = 0 THEN v ELSE IF HasRoom(f[n - 1]) THEN f[n - 1] ELSE PageSplit(f[n - 1])]

(* Splits up the path, one after another.                                   *)
LEMMA SplitStepsExist ==
  ASSUME NEW N \in Nat, NEW v
  PROVE  \E f : SplitSteps(f, v, N)
<1> DEFINE Good(m) == \E f : SplitSteps(f, v, m)
           Bad == {m \in 0..N : ~Good(m)}
<1>1. Good(0)
  <2>1. SplitSteps([n \in 0..0 |-> v], v, 0)
    BY DEF SplitSteps
  <2> QED
    BY <2>1
<1>2. ASSUME NEW m \in 1..N, Good(m - 1) PROVE Good(m)
  <2>1. PICK f : SplitSteps(f, v, m - 1)
    BY <1>2
  <2> DEFINE g == [n \in 0..m |-> IF n = m THEN IF HasRoom(f[m - 1]) THEN f[m - 1] ELSE PageSplit(f[m - 1]) ELSE f[n]]
  <2>2. ASSUME NEW n \in 0..m
        PROVE  g[n] = IF n = 0 THEN v ELSE IF HasRoom(g[n - 1]) THEN g[n - 1] ELSE PageSplit(g[n - 1])
    <3>1. CASE n = m
      <4>1. m - 1 \in 0..m /\ m - 1 # m /\ m # 0
        OBVIOUS
      <4> QED
        BY <3>1, <4>1
    <3>2. CASE n # m
      <4>1. n \in 0..m - 1 /\ (n # 0 => n - 1 \in 0..m /\ n - 1 # m)
        BY <3>2
      <4> QED
        BY <2>1, <3>2, <4>1 DEF SplitSteps
    <3> QED
      BY <3>1, <3>2
  <2>3. SplitSteps(g, v, m)
    BY <2>2 DEF SplitSteps
  <2> QED
    BY <2>3
<1> HIDE DEF Good
<1>3. Bad = {}
  <2> SUFFICES ASSUME Bad # {} PROVE FALSE
    OBVIOUS
  <2>1. PICK m \in Bad : \A k \in Bad : m <= k
    <3>1. Bad \in SUBSET Nat /\ Bad # {}
      OBVIOUS
    <3> HIDE DEF Bad
    <3> QED
      BY <3>1, LeastExists
  <2>2. m \in 1..N /\ m - 1 \in 0..N
    BY <1>1
  <2>3. Good(m - 1)
    BY <2>1, <2>2
  <2> QED
    BY <1>2, <2>2, <2>3
<1>4. Good(N)
  BY <1>3
<1> QED
  BY <1>4 DEF Good


LEMMA SplitUpCow ==
  ASSUME NEW P, Len(P) \in Nat, NEW t, Cow(t, P),
         NEW l \in 1..Len(t.path), NEW g \in t.dirty, NEW i, NEW node
  PROVE  Splitting(t, SplitUp(t, l, g, i, node), P)
<1> DEFINE v == [t |-> t, l |-> l, g |-> g, i |-> i, node |-> node, todo |-> <<>>]
           F == CHOOSE f : SplitSteps(f, v, l)
           Bad == {n \in 0..l : ~Splitting(t, F[n], P)}
<1>1. l \in Nat
  <2>1. Len(t.path) \in Nat
    BY DEF Cow
  <2> QED
    BY <2>1
<1>v. Splitting(t, v, P)
  <2>1. Onward(t, t, P)
    BY OnwardSelf
  <2>2. IsSeq(<<>>) /\ Len(<<>>) = 0
    BY DEF IsSeq
  <2>3. v.t = t /\ v.l = l /\ v.g = g /\ v.todo = <<>>
    OBVIOUS
  <2> HIDE DEF v
  <2> QED
    BY <2>1, <2>2, <2>3 DEF Splitting, Todo
<1>3. SplitUp(t, l, g, i, node) = F[l]
  BY DEF SplitUp, SplitSteps
<1> HIDE DEF v
<1>2. SplitSteps(F, v, l)
  BY <1>1, SplitStepsExist
<1> HIDE DEF F
<1>4. F[0] = v /\ \A n \in 1..l : F[n] = IF HasRoom(F[n - 1]) THEN F[n - 1] ELSE PageSplit(F[n - 1])
  BY <1>1, <1>2 DEF SplitSteps
<1>5. Bad = {}
  <2> SUFFICES ASSUME Bad # {} PROVE FALSE
    OBVIOUS
  <2>1. PICK m \in Bad : \A k \in Bad : m <= k
    <3>1. Bad \in SUBSET Nat /\ Bad # {}
      BY <1>1
    <3> HIDE DEF Bad
    <3> QED
      BY <3>1, LeastExists
  <2>2. m \in 0..l /\ ~Splitting(t, F[m], P)
    OBVIOUS
  <2>3. m # 0
    BY <1>4, <1>v, <2>2
  <2>4. m - 1 \in 0..l /\ m \in 1..l /\ ~(m <= m - 1)
    BY <1>1, <2>2, <2>3
  <2>5. Splitting(t, F[m - 1], P)
    BY <2>1, <2>4
  <2>6. Splitting(t, PageSplit(F[m - 1]), P)
    BY <2>5, PageSplitCow
  <2> QED
    BY <1>4, <2>2, <2>4, <2>5, <2>6
<1> QED
  BY <1>1, <1>3, <1>5

(* Nodes are added to pages of the transaction (mdb_node_add).              *)
LEMMA StoredCow ==
  ASSUME NEW P, Len(P) \in Nat, NEW t, Cow(t, P), NEW kind, NEW node
  PROVE  Onward(t, Stored(t, kind, node).t, P) /\ Stored(t, kind, node).t.path = t.path
<1> DEFINE a == PageNew(t, "overflow")
           b == [a EXCEPT !.pg[a.new].nodes = <<node>>]
           u == Stored(t, kind, node).t
<1>1. u = t \/ u = b
  BY DEF Stored
<1>2. Onward(t, t, P)
  BY OnwardSelf
<1>3. Onward(t, a, P) /\ a.new \in a.dirty /\ a.path = t.path /\ Cow(a, P)
  BY PageNewCow DEF Onward
<1> HIDE DEF a, u
<1>4. Kept(a, b)
  BY <1>3 DEF Kept, Cow, IsTree, Fields, IsSeq
<1>5. Onward(t, b, P) /\ b.path = t.path
  BY <1>3, <1>4, KeptOnwardFrom DEF Kept
<1> HIDE DEF b
<1> QED
  BY <1>1, <1>2, <1>5 DEF u

LEMMA NodeAddCow ==
  ASSUME NEW P, Len(P) \in Nat, NEW t, Cow(t, P), NEW g \in t.dirty, NEW i, NEW node
  PROVE  Onward(t, NodeAdd(t, g, i, node), P)
<1> DEFINE s == Stored(t, t.pg[g].kind, node)
           a == [t EXCEPT !.full = TRUE]
           b == [s.t EXCEPT !.pg[g].nodes = InsertAt(@, i, s.node)]
<1>1. NodeAdd(t, g, i, node) = a \/ NodeAdd(t, g, i, node) = b
  BY DEF NodeAdd
<1>2. Kept(t, a)
  BY DEF Kept, Cow, IsTree, Fields, IsSeq
<1>3. Onward(t, s.t, P)
  BY StoredCow
<1>4. Cow(s.t, P) /\ g \in s.t.dirty
  BY <1>3 DEF Onward
<1> HIDE DEF s, a
<1>5. Kept(s.t, b)
  BY <1>4 DEF Kept, Cow, IsTree, Fields, IsSeq
<1> HIDE DEF b
<1> QED
  BY <1>1, <1>2, <1>3, <1>5, KeptOnward, KeptOnwardFrom

(* The nodes of a split page go to two pages of the transaction             *)
(* (mdb_page_split).                                                        *)
LEMMA WriteTwo ==
  ASSUME NEW P, Len(P) \in Nat, NEW t, Cow(t, P),
         NEW g \in t.dirty, NEW h \in t.dirty, NEW x, NEW y, NEW full
  PROVE  Onward(t, [t EXCEPT !.pg[g].nodes = x, !.pg[h].nodes = y, !.full = full], P)
<1> DEFINE a == [t EXCEPT !.pg[g].nodes = x]
           b == [a EXCEPT !.pg[h].nodes = y, !.full = full]
<1>1. Kept(t, a)
  BY DEF Kept, Cow, IsTree, Fields, IsSeq
<1>2. [t EXCEPT !.pg[g].nodes = x, !.pg[h].nodes = y, !.full = full] = b
  OBVIOUS
<1> HIDE DEF a
<1>3. Onward(t, a, P)
  BY <1>1, KeptOnward
<1>4. Cow(a, P) /\ h \in a.dirty
  BY <1>3 DEF Onward
<1>5. Kept(a, b)
  BY <1>4 DEF Kept, Cow, IsTree, Fields, IsSeq
<1> QED
  BY <1>2, <1>3, <1>5, KeptOnwardFrom

LEMMA DealCow ==
  ASSUME NEW P, Len(P) \in Nat, NEW t, Cow(t, P), NEW d, d.g \in t.dirty, d.right \in t.dirty
  PROVE  Onward(t, Deal(t, d), P)
<1> DEFINE s == Stored(t, t.pg[d.g].kind, d.all[d.i])
           all == [d.all EXCEPT ![d.i] = s.node]
           kind == s.t.pg[d.g].kind
           left == Filed(kind, SubSeq(all, 1, d.split - 1))
           moved == Filed(kind, SubSeq(all, d.split, Len(all)))
           b == [s.t EXCEPT !.pg[d.g].nodes = left, !.pg[d.right].nodes = moved,
                 !.full = @ \/ SizeOf(kind, left) > Cap \/ SizeOf(kind, moved) > Cap]
<1>1. Deal(t, d) = b
  BY DEF Deal, DealStored, Dealt
<1>3. Onward(t, s.t, P)
  BY StoredCow
<1>4. Cow(s.t, P) /\ d.g \in s.t.dirty /\ d.right \in s.t.dirty
  BY <1>3 DEF Onward
<1> DEFINE full == s.t.full \/ SizeOf(kind, left) > Cap \/ SizeOf(kind, moved) > Cap
<1> HIDE DEF s, left, moved, kind
<1>5. Onward(s.t, b, P)
  <2>1. b = [s.t EXCEPT !.pg[d.g].nodes = left, !.pg[d.right].nodes = moved, !.full = full]
    OBVIOUS
  <2> HIDE DEF full, b
  <2> QED
    BY <1>4, <2>1, WriteTwo
<1> HIDE DEF b
<1> QED
  BY <1>1, <1>3, <1>5, OnwardTrans

DealSteps(f, u, b, m) ==
  f = [n \in 0..m |-> IF n = 0 THEN b ELSE Deal(f[n - 1], u.todo[n])]

(* All the splits are dealt out, the upper ones first.                      *)
LEMMA DealStepsExist ==
  ASSUME NEW N \in Nat, NEW u, NEW b
  PROVE  \E f : DealSteps(f, u, b, N)
<1> DEFINE Good(m) == \E f : DealSteps(f, u, b, m)
           Bad == {m \in 0..N : ~Good(m)}
<1>1. Good(0)
  <2>1. DealSteps([n \in 0..0 |-> b], u, b, 0)
    BY DEF DealSteps
  <2> QED
    BY <2>1
<1>2. ASSUME NEW m \in 1..N, Good(m - 1) PROVE Good(m)
  <2>1. PICK f : DealSteps(f, u, b, m - 1)
    BY <1>2
  <2> DEFINE g == [n \in 0..m |-> IF n = m THEN Deal(f[m - 1], u.todo[m]) ELSE f[n]]
  <2>2. ASSUME NEW n \in 0..m
        PROVE  g[n] = IF n = 0 THEN b ELSE Deal(g[n - 1], u.todo[n])
    <3>1. CASE n = m
      <4>1. m - 1 \in 0..m /\ m - 1 # m /\ m # 0
        OBVIOUS
      <4> QED
        BY <3>1, <4>1
    <3>2. CASE n # m
      <4>1. n \in 0..m - 1 /\ (n # 0 => n - 1 \in 0..m /\ n - 1 # m)
        BY <3>2
      <4> QED
        BY <2>1, <3>2, <4>1 DEF DealSteps
    <3> QED
      BY <3>1, <3>2
  <2>3. DealSteps(g, u, b, m)
    BY <2>2 DEF DealSteps
  <2> QED
    BY <2>3
<1> HIDE DEF Good
<1>3. Bad = {}
  <2> SUFFICES ASSUME Bad # {} PROVE FALSE
    OBVIOUS
  <2>1. PICK m \in Bad : \A k \in Bad : m <= k
    <3>1. Bad \in SUBSET Nat /\ Bad # {}
      OBVIOUS
    <3> HIDE DEF Bad
    <3> QED
      BY <3>1, LeastExists
  <2>2. m \in 1..N /\ m - 1 \in 0..N
    BY <1>1
  <2>3. Good(m - 1)
    BY <2>1, <2>2
  <2> QED
    BY <1>2, <2>2, <2>3
<1>4. Good(N)
  BY <1>3
<1> QED
  BY <1>4 DEF Good


LEMMA DealOutCow ==
  ASSUME NEW P, Len(P) \in Nat, NEW t, Cow(t, P), NEW u, Splitting(t, u, P)
  PROVE  Onward(t, DealOut(u), P)
<1> DEFINE b == NodeAdd(u.t, u.g, u.i, u.node)
           N == Len(u.todo)
           F == CHOOSE f : DealSteps(f, u, b, N)
           Bad == {n \in 0..N : ~Onward(u.t, F[n], P)}
<1>1. N \in Nat
  BY DEF Splitting, Todo, IsSeq
<1>c. Cow(u.t, P) /\ Onward(t, u.t, P)
  BY DEF Splitting, Onward
<1>b. Onward(u.t, b, P)
  BY <1>c, NodeAddCow DEF Splitting
<1>3. DealOut(u) = F[N]
  BY DEF DealOut, DealSteps
<1> HIDE DEF b, N
<1>2. DealSteps(F, u, b, N)
  BY <1>1, DealStepsExist
<1> HIDE DEF F
<1>4. F[0] = b /\ \A n \in 1..N : F[n] = Deal(F[n - 1], u.todo[n])
  BY <1>1, <1>2 DEF DealSteps
<1>5. Bad = {}
  <2> SUFFICES ASSUME Bad # {} PROVE FALSE
    OBVIOUS
  <2>1. PICK m \in Bad : \A k \in Bad : m <= k
    <3>1. Bad \in SUBSET Nat /\ Bad # {}
      BY <1>1
    <3> HIDE DEF Bad
    <3> QED
      BY <3>1, LeastExists
  <2>2. m \in 0..N /\ ~Onward(u.t, F[m], P)
    OBVIOUS
  <2>3. m # 0
    BY <1>4, <1>b, <2>2
  <2>4. m - 1 \in 0..N /\ m \in 1..N /\ ~(m <= m - 1)
    BY <1>1, <2>2, <2>3
  <2>5. Onward(u.t, F[m - 1], P)
    BY <2>1, <2>4
  <2>6. u.todo[m].g \in u.t.dirty /\ u.todo[m].right \in u.t.dirty
    BY <2>4 DEF Splitting, Todo, N
  <2>7. Cow(F[m - 1], P) /\ u.todo[m].g \in F[m - 1].dirty /\ u.todo[m].right \in F[m - 1].dirty
    BY <2>5, <2>6 DEF Onward
  <2>8. Onward(F[m - 1], Deal(F[m - 1], u.todo[m]), P)
    BY <2>7, DealCow
  <2>9. Onward(u.t, F[m], P)
    BY <1>c, <1>4, <2>4, <2>5, <2>8, OnwardTrans
  <2> QED
    BY <2>2, <2>9
<1>6. Onward(u.t, F[N], P)
  BY <1>1, <1>5
<1> QED
  BY <1>3, <1>6, <1>c, OnwardTrans

(* A node finds its place, however many pages are split for it.             *)
LEMMA PlaceCow ==
  ASSUME NEW P, Len(P) \in Nat, NEW t, Cow(t, P),
         NEW l \in 1..Len(t.path), NEW g \in t.dirty, NEW i, NEW node
  PROVE  Onward(t, Place(t, l, g, i, node), P)
BY SplitUpCow, DealOutCow DEF Place

(* A node is removed, or gets another key (mdb_node_del, mdb_update_key).   *)
LEMMA NodeDelCow ==
  ASSUME NEW P, Len(P) \in Nat, NEW t, Cow(t, P), NEW g \in t.dirty, NEW i
  PROVE  Onward(t, NodeDel(t, g, i), P)
<1>1. Kept(t, NodeDel(t, g, i))
  BY DEF NodeDel, Kept, Cow, IsTree, Fields, IsSeq
<1> QED
  BY <1>1, KeptOnward

(* The levels of the path are still there after a step.                     *)
LEMMA OnwardLevel ==
  ASSUME NEW P, NEW t, Cow(t, P), NEW u, Onward(t, u, P)
  PROVE  /\ Cow(u, P) /\ t.dirty \subseteq u.dirty
         /\ \A l : l \in 1..Len(t.path) => l \in 1..Len(u.path)
<1>1. Len(t.path) \in Nat /\ Len(u.path) \in Nat
  BY DEF Onward, Cow
<1> QED
  BY <1>1 DEF Onward

LEMMA UpdateKeyCow ==
  ASSUME NEW P, Len(P) \in Nat, NEW t, Cow(t, P),
         NEW l \in 1..Len(t.path), NEW g \in t.dirty, NEW i, NEW key
  PROVE  Onward(t, UpdateKey(t, l, g, i, key), P)
<1> DEFINE a == NodeDel(t, g, i)
           node == Branch(key, t.pg[g].nodes[i].page)
           b == Place(a, l, g, i, node)
           c == [t EXCEPT !.pg[g].nodes[i].key = key]
<1>1. UpdateKey(t, l, g, i, key) = b \/ UpdateKey(t, l, g, i, key) = c
  BY DEF UpdateKey
<1>2. Kept(t, c)
  BY DEF Kept, Cow, IsTree, Fields, IsSeq
<1>3. Onward(t, a, P)
  BY NodeDelCow
<1> HIDE DEF a, node, c
<1>4. Cow(a, P) /\ l \in 1..Len(a.path) /\ g \in a.dirty
  BY <1>3, OnwardLevel
<1>5. Onward(a, b, P)
  BY <1>4, PlaceCow
<1>6. Onward(t, b, P)
  BY <1>3, <1>5, OnwardTrans
<1> QED
  BY <1>1, <1>2, <1>6, KeptOnward

(* A level of the path that has another one above it.                       *)
LEMMA LevelAbove ==
  ASSUME NEW P, NEW t, Cow(t, P), NEW l \in 2..Len(t.path)
  PROVE  /\ l \in 1..Len(t.path) /\ l - 1 \in 1..Len(t.path)
         /\ t.path[l] \in t.dirty /\ t.path[l - 1] \in t.dirty
<1>1. Len(t.path) \in Nat
  BY DEF Cow
<1>2. l \in 1..Len(t.path) /\ l - 1 \in 1..Len(t.path)
  BY <1>1
<1> QED
  BY <1>2, PathPages

(* A node moves to a neighbour, with the keys that change for it            *)
(* (mdb_node_move).                                                         *)
LEMMA SeparateAnewCow ==
  ASSUME NEW P, Len(P) \in Nat, NEW t, Cow(t, P), NEW l \in 2..Len(t.path), NEW g \in t.dirty
  PROVE  Onward(t, SeparateAnew(t, l, g), P)
<1> DEFINE parent == t.path[l - 1]
           i == Slot(t, parent, g)
           key == t.pg[g].nodes[1].key
           a == Separate(t, l, g)
<1>1. l \in 1..Len(t.path) /\ l - 1 \in 1..Len(t.path) /\ parent \in t.dirty
  BY LevelAbove
<1>2. a = t \/ a = UpdateKey(t, l - 1, parent, i, key)
  BY DEF Separate
<1> HIDE DEF a, parent, key, i
<1>3. Onward(t, a, P)
  BY <1>1, <1>2, OnwardSelf, UpdateKeyCow
<1>4. Cow(a, P) /\ l \in 1..Len(a.path) /\ g \in a.dirty
  BY <1>1, <1>3, OnwardLevel
<1>5. DropFirstKey(a, l, g) = a \/ DropFirstKey(a, l, g) = UpdateKey(a, l, g, 1, NullKey)
  BY DEF DropFirstKey
<1>6. Onward(a, DropFirstKey(a, l, g), P)
  BY <1>4, <1>5, OnwardSelf, UpdateKeyCow
<1> QED
  BY <1>3, <1>6, OnwardTrans DEF SeparateAnew, a

LEMMA MoveNodeCow ==
  ASSUME NEW P, Len(P) \in Nat, NEW t, Cow(t, P), NEW l \in 1..Len(t.path),
         NEW src \in t.dirty, NEW si, NEW dst \in t.dirty, NEW di, NEW node
  PROVE  Onward(t, MoveNode(t, l, src, si, dst, di, node), P)
<1> DEFINE c == IF di = 1 /\ t.pg[dst].kind = "branch"
                THEN UpdateKey(t, l, dst, 1, LowestKey(t, dst)) ELSE t
           b == NodeAdd(c, dst, di, node)
<1>1. Onward(t, c, P)
  BY OnwardSelf, UpdateKeyCow
<1>2. MoveNode(t, l, src, si, dst, di, node) = NodeDel(b, src, si)
  BY DEF MoveNode
<1> HIDE DEF c
<1>3. Cow(c, P) /\ dst \in c.dirty
  BY <1>1 DEF Onward
<1>4. Onward(c, b, P)
  BY <1>3, NodeAddCow
<1> HIDE DEF b
<1>5. Onward(t, b, P) /\ Cow(b, P) /\ src \in b.dirty
  BY <1>1, <1>4, OnwardTrans DEF Onward
<1>6. Onward(b, NodeDel(b, src, si), P)
  BY <1>5, NodeDelCow
<1> QED
  BY <1>2, <1>5, <1>6, OnwardTrans

LEMMA MoveAtCow ==
  ASSUME NEW P, Len(P) \in Nat, NEW t, Cow(t, P), NEW l \in 1..Len(t.path),
         NEW src \in t.dirty, NEW si, NEW dst \in t.dirty, NEW di
  PROVE  Onward(t, MoveAt(t, l, src, si, dst, di), P)
BY MoveNodeCow DEF MoveAt

LEMMA MoveBetweenCow ==
  ASSUME NEW P, Len(P) \in Nat, NEW t, Cow(t, P), NEW l \in 2..Len(t.path),
         NEW src \in t.dirty, NEW dst \in t.dirty, NEW fromleft
  PROVE  Onward(t, MoveBetween(t, l, src, dst, fromleft), P)
<1>1. ASSUME NEW si, NEW di, NEW g \in t.dirty
      PROVE  Onward(t, SeparateAnew(MoveAt(t, l, src, si, dst, di), l, g), P)
  <2> DEFINE a == MoveAt(t, l, src, si, dst, di)
  <2>1. l \in 1..Len(t.path)
    BY LevelAbove
  <2>2. Onward(t, a, P)
    BY <2>1, MoveAtCow
  <2> HIDE DEF a
  <2>3. Cow(a, P) /\ g \in a.dirty /\ l \in 1..Len(a.path) /\ l >= 2
    BY <2>1, <2>2, OnwardLevel
  <2>4. l \in 2..Len(a.path)
    BY <2>3
  <2>5. Onward(a, SeparateAnew(a, l, g), P)
    BY <2>3, <2>4, SeparateAnewCow
  <2> QED
    BY <2>2, <2>5, OnwardTrans DEF a
<1> QED
  BY <1>1 DEF MoveBetween

LEMMA NodeMoveCow ==
  ASSUME NEW P, Len(P) \in Nat, NEW t, Cow(t, P), NEW l \in 2..Len(t.path),
         NEW source, NEW fromleft
  PROVE  Onward(t, NodeMove(t, l, source, fromleft), P)
<1> DEFINE a == PageTouch(t, t.path[l - 1], source)
           b == PageTouch(a, a.path[l - 1], a.path[l])
<1>1. t.path[l - 1] \in t.dirty
  BY LevelAbove
<1>2. Onward(t, a, P) /\ a.new \in a.dirty /\ a.path = t.path
  BY <1>1, PageTouchCow
<1>3. NodeMove(t, l, source, fromleft) = MoveBetween(b, l, a.new, b.new, fromleft)
  BY DEF NodeMove, TouchSource, TouchDest
<1> HIDE DEF a
<1>4. Cow(a, P) /\ l \in 2..Len(a.path)
  BY <1>2 DEF Onward
<1>5. a.path[l - 1] \in a.dirty
  BY <1>4, LevelAbove
<1>6. Onward(a, b, P) /\ b.new \in b.dirty /\ b.path = a.path
  BY <1>4, <1>5, PageTouchCow
<1> HIDE DEF b
<1>7. Onward(t, b, P) /\ Cow(b, P) /\ a.new \in b.dirty /\ l \in 2..Len(b.path)
  BY <1>2, <1>4, <1>6, OnwardTrans DEF Onward
<1>8. Onward(b, MoveBetween(b, l, a.new, b.new, fromleft), P)
  BY <1>6, <1>7, MoveBetweenCow
<1> QED
  BY <1>3, <1>7, <1>8, OnwardTrans

(* A page that is given up is not written to (mdb_page_loose).              *)
LEMMA PageLooseCow ==
  ASSUME NEW P, Len(P) \in Nat, NEW t, Cow(t, P), NEW g
  PROVE  Onward(t, PageLoose(t, g), P)
<1> DEFINE u == PageLoose(t, g)
<1>1. CASE g \in t.dirty
  <2>1. u = [t EXCEPT !.loose = <<g>> \o @]
    BY <1>1 DEF PageLoose
  <2> HIDE DEF u
  <2>2. /\ IsTree(u) /\ u.pg = t.pg /\ u.dirty = t.dirty /\ u.path = t.path
        /\ u.loose = <<g>> \o t.loose
    BY <2>1 DEF Cow, IsTree, Fields
  <2>3. t.loose \in Seq(t.dirty) /\ <<g>> \in Seq(t.dirty)
    BY <1>1, SeqOfOne DEF Cow
  <2>4. <<g>> \o t.loose \in Seq(t.dirty)
    BY <2>3, ConcatProperties
  <2>5. Cow(u, P)
    BY <2>2, <2>4 DEF Cow
  <2>6. Len(t.path) \in Nat
    BY DEF Cow
  <2> QED
    BY <2>2, <2>5, <2>6 DEF Onward, u
<1>2. CASE g \notin t.dirty
  <2>1. Kept(t, u)
    BY <1>2 DEF PageLoose, Kept, Cow, IsTree, Fields, IsSeq
  <2> QED
    BY <2>1, KeptOnward
<1> QED
  BY <1>1, <1>2

(* Two pages become one (mdb_page_merge).                                   *)
LEMMA PageMergeCow ==
  ASSUME NEW P, Len(P) \in Nat, NEW t, Cow(t, P), NEW l \in 2..Len(t.path), NEW src, NEW dest
  PROVE  Onward(t, PageMerge(t, l, src, dest), P)
<1> DEFINE a == PageTouch(t, t.path[l - 1], dest)
           dst == a.new
           both == a.pg[dst].nodes \o [i \in 1..Len(a.pg[src].nodes) |->
                                    [a.pg[src].nodes[i] EXCEPT !.key = KeyAt(a, src, i)]]
           kind == a.pg[src].kind
           full == a.full \/ SizeOf(kind, both) > Cap
           leafs == a.leafs - (IF kind = "leaf" THEN 1 ELSE 0)
           branches == a.branches - (IF kind = "branch" THEN 1 ELSE 0)
           b == [a EXCEPT !.pg[dst].nodes = both, !.full = full, !.leafs = leafs, !.branches = branches]
           c == NodeDel(b, a.path[l - 1], Slot(a, a.path[l - 1], src))
<1>1. t.path[l - 1] \in t.dirty
  BY LevelAbove
<1>2. Onward(t, a, P) /\ a.new \in a.dirty /\ a.path = t.path
  BY <1>1, PageTouchCow
<1>3. PageMerge(t, l, src, dest) = PageLoose(c, src)
  BY DEF PageMerge, MergeTouched, MergeInto
<1> HIDE DEF a, both, full, leafs, branches
<1>4. Cow(a, P) /\ l \in 2..Len(a.path)
  BY <1>2 DEF Onward
<1>5. a.path[l - 1] \in a.dirty
  BY <1>4, LevelAbove
<1>6. Kept(a, b)
  BY <1>2, <1>4 DEF Kept, Cow, IsTree, Fields, IsSeq
<1>7. Onward(t, b, P) /\ b.dirty = a.dirty
  BY <1>2, <1>6, KeptOnwardFrom DEF Kept
<1> HIDE DEF b
<1>8. Cow(b, P) /\ a.path[l - 1] \in b.dirty
  BY <1>5, <1>7 DEF Onward
<1>9. Onward(b, c, P)
  BY <1>8, NodeDelCow
<1> HIDE DEF c
<1>10. Onward(t, c, P) /\ Cow(c, P)
  BY <1>7, <1>9, OnwardTrans DEF Onward
<1>11. Onward(c, PageLoose(c, src), P)
  BY <1>10, PageLooseCow
<1> QED
  BY <1>3, <1>10, <1>11, OnwardTrans

(* The root shrinks, and the levels are balanced from the leaf up           *)
(* (mdb_rebalance).                                                         *)
LEMMA RebalanceRootCow ==
  ASSUME NEW P, Len(P) \in Nat, NEW t, Cow(t, P)
  PROVE  Onward(t, RebalanceRoot(t), P)
<1> DEFINE nodes == t.pg[t.root].nodes
           a == [t EXCEPT !.root = NoPage, !.depth = 0, !.leafs = 0, !.freed = @ \cup {t.root}]
           b == [t EXCEPT !.root = nodes[1].page, !.depth = @ - 1, !.branches = @ - 1,
                    !.freed = @ \cup {t.root}]
<1>1. RebalanceRoot(t) \in {a, b, t}
  BY DEF RebalanceRoot
<1>2. Kept(t, a) /\ Kept(t, b)
  BY DEF Kept, Cow, IsTree, Fields, IsSeq
<1> HIDE DEF a, b
<1> QED
  BY <1>1, <1>2, KeptOnward, OnwardSelf

(* Rebalancing under way: the level it has come to.                         *)
Balancing(t, r, P) == Onward(t, r.t, P) /\ r.l \in 0..Len(r.t.path)

LEMMA RebalanceLevelCow ==
  ASSUME NEW P, Len(P) \in Nat, NEW t, Cow(t, P), NEW r, Balancing(t, r, P)
  PROVE  Balancing(t, RebalanceLevel(r), P)
<1> DEFINE w == RebalanceLevel(r)
<1>1. Cow(r.t, P) /\ Onward(t, r.t, P) /\ Len(r.t.path) \in Nat
  BY DEF Balancing, Onward, Cow
<1> SUFFICES Balancing(t, w, P)
  OBVIOUS
<1>2. ASSUME Onward(r.t, w.t, P), w.l = 0
      PROVE  Balancing(t, w, P)
  <2>1. Onward(t, w.t, P) /\ Len(w.t.path) \in Nat
    BY <1>1, <1>2, OnwardTrans DEF Onward, Cow
  <2> QED
    BY <1>2, <2>1 DEF Balancing
<1>3. ASSUME NEW src, NEW dest, r.l \in 2..Len(r.t.path),
             w.t = PageMerge(r.t, r.l, src, dest), w.l = r.l - 1
      PROVE  Balancing(t, w, P)
  <2>1. Onward(r.t, w.t, P)
    BY <1>1, <1>3, PageMergeCow
  <2>2. Onward(t, w.t, P) /\ Len(w.t.path) \in Nat /\ Len(r.t.path) <= Len(w.t.path)
    BY <1>1, <2>1, OnwardTrans DEF Onward, Cow
  <2> QED
    BY <1>1, <1>3, <2>2 DEF Balancing
<1>4. CASE r.l = 0
  BY <1>4 DEF RebalanceLevel
<1>5. CASE r.l = 1
  <2>1. w = [t |-> r.t, l |-> 0] \/ w = [t |-> RebalanceRoot(r.t), l |-> 0]
    BY <1>5 DEF RebalanceLevel
  <2> HIDE DEF w
  <2>2. (w.t = r.t \/ w.t = RebalanceRoot(r.t)) /\ w.l = 0
    BY <2>1
  <2>3. Onward(r.t, w.t, P)
    BY <1>1, <2>2, OnwardSelf, RebalanceRootCow
  <2> QED
    BY <1>2, <2>2, <2>3
<1>6. CASE r.l \notin {0, 1}
  <2>1. r.l \in 2..Len(r.t.path)
    BY <1>1, <1>6 DEF Balancing
  <2>2. \/ w = [t |-> r.t, l |-> 0]
        \/ \E n, f : w = [t |-> NodeMove(r.t, r.l, n, f), l |-> 0]
        \/ \E src, dest : w = [t |-> PageMerge(r.t, r.l, src, dest), l |-> r.l - 1]
    <3> DEFINE g == r.t.path[r.l]
               parent == r.t.path[r.l - 1]
               fromleft == Slot(r.t, parent, g) # 1
               neighbour == r.t.pg[parent].nodes[Slot(r.t, parent, g) + (IF fromleft THEN -1 ELSE 1)].page
    <3>1. \/ w = [t |-> r.t, l |-> 0]
          \/ w = [t |-> NodeMove(r.t, r.l, neighbour, fromleft), l |-> 0]
          \/ w = [t |-> PageMerge(r.t, r.l, g, neighbour), l |-> r.l - 1]
          \/ w = [t |-> PageMerge(r.t, r.l, neighbour, g), l |-> r.l - 1]
      BY <1>6 DEF RebalanceLevel
    <3> HIDE DEF w, g, fromleft, neighbour
    <3> QED
      BY <3>1
  <2> HIDE DEF w
  <2>3. CASE w = [t |-> r.t, l |-> 0]
    <3>1. w.t = r.t /\ w.l = 0
      BY <2>3
    <3> QED
      BY <1>1, <1>2, <3>1, OnwardSelf
  <2>4. ASSUME NEW n, NEW f, w = [t |-> NodeMove(r.t, r.l, n, f), l |-> 0]
        PROVE  Balancing(t, w, P)
    <3>1. w.t = NodeMove(r.t, r.l, n, f) /\ w.l = 0
      BY <2>4
    <3>2. Onward(r.t, w.t, P)
      BY <1>1, <2>1, <3>1, NodeMoveCow
    <3> QED
      BY <1>2, <3>1, <3>2
  <2>5. ASSUME NEW src, NEW dest, w = [t |-> PageMerge(r.t, r.l, src, dest), l |-> r.l - 1]
        PROVE  Balancing(t, w, P)
    <3>1. w.t = PageMerge(r.t, r.l, src, dest) /\ w.l = r.l - 1
      BY <2>5
    <3> QED
      BY <1>3, <2>1, <3>1
  <2> QED
    BY <2>2, <2>3, <2>4, <2>5
<1> QED
  BY <1>4, <1>5, <1>6

BalanceSteps(f, v, m) ==
  f = [n \in 0..m |-> IF n = 0 THEN v ELSE RebalanceLevel(f[n - 1])]

(* Level after level.                                                       *)
LEMMA BalanceStepsExist ==
  ASSUME NEW N \in Nat, NEW v
  PROVE  \E f : BalanceSteps(f, v, N)
<1> DEFINE Good(m) == \E f : BalanceSteps(f, v, m)
           Bad == {m \in 0..N : ~Good(m)}
<1>1. Good(0)
  <2>1. BalanceSteps([n \in 0..0 |-> v], v, 0)
    BY DEF BalanceSteps
  <2> QED
    BY <2>1
<1>2. ASSUME NEW m \in 1..N, Good(m - 1) PROVE Good(m)
  <2>1. PICK f : BalanceSteps(f, v, m - 1)
    BY <1>2
  <2> DEFINE g == [n \in 0..m |-> IF n = m THEN RebalanceLevel(f[m - 1]) ELSE f[n]]
  <2>2. ASSUME NEW n \in 0..m
        PROVE  g[n] = IF n = 0 THEN v ELSE RebalanceLevel(g[n - 1])
    <3>1. CASE n = m
      <4>1. m - 1 \in 0..m /\ m - 1 # m /\ m # 0
        OBVIOUS
      <4> QED
        BY <3>1, <4>1
    <3>2. CASE n # m
      <4>1. n \in 0..m - 1 /\ (n # 0 => n - 1 \in 0..m /\ n - 1 # m)
        BY <3>2
      <4> QED
        BY <2>1, <3>2, <4>1 DEF BalanceSteps
    <3> QED
      BY <3>1, <3>2
  <2>3. BalanceSteps(g, v, m)
    BY <2>2 DEF BalanceSteps
  <2> QED
    BY <2>3
<1> HIDE DEF Good
<1>3. Bad = {}
  <2> SUFFICES ASSUME Bad # {} PROVE FALSE
    OBVIOUS
  <2>1. PICK m \in Bad : \A k \in Bad : m <= k
    <3>1. Bad \in SUBSET Nat /\ Bad # {}
      OBVIOUS
    <3> HIDE DEF Bad
    <3> QED
      BY <3>1, LeastExists
  <2>2. m \in 1..N /\ m - 1 \in 0..N
    BY <1>1
  <2>3. Good(m - 1)
    BY <2>1, <2>2
  <2> QED
    BY <1>2, <2>2, <2>3
<1>4. Good(N)
  BY <1>3
<1> QED
  BY <1>4 DEF Good


LEMMA RebalanceCow ==
  ASSUME NEW P, Len(P) \in Nat, NEW t, Cow(t, P), NEW l \in 1..Len(t.path)
  PROVE  Onward(t, Rebalance(t, l), P)
<1> DEFINE v == [t |-> t, l |-> l]
           F == CHOOSE f : BalanceSteps(f, v, l)
           Bad == {n \in 0..l : ~Balancing(t, F[n], P)}
<1>1. l \in Nat /\ l \in 0..Len(t.path)
  <2>1. Len(t.path) \in Nat
    BY DEF Cow
  <2> QED
    BY <2>1
<1>v. Balancing(t, v, P)
  <2>1. Onward(t, t, P)
    BY OnwardSelf
  <2>2. v.t = t /\ v.l = l
    OBVIOUS
  <2> HIDE DEF v
  <2> QED
    BY <1>1, <2>1, <2>2 DEF Balancing
<1>3. Rebalance(t, l) = F[l].t
  BY DEF Rebalance, BalanceSteps
<1> HIDE DEF v
<1>2. BalanceSteps(F, v, l)
  BY <1>1, BalanceStepsExist
<1> HIDE DEF F
<1>4. F[0] = v /\ \A n \in 1..l : F[n] = RebalanceLevel(F[n - 1])
  BY <1>1, <1>2 DEF BalanceSteps
<1>5. Bad = {}
  <2> SUFFICES ASSUME Bad # {} PROVE FALSE
    OBVIOUS
  <2>1. PICK m \in Bad : \A k \in Bad : m <= k
    <3>1. Bad \in SUBSET Nat /\ Bad # {}
      BY <1>1
    <3> HIDE DEF Bad
    <3> QED
      BY <3>1, LeastExists
  <2>2. m \in 0..l /\ ~Balancing(t, F[m], P)
    OBVIOUS
  <2>3. m # 0
    BY <1>4, <1>v, <2>2
  <2>4. m - 1 \in 0..l /\ m \in 1..l /\ ~(m <= m - 1)
    BY <1>1, <2>2, <2>3
  <2>5. Balancing(t, F[m - 1], P)
    BY <2>1, <2>4
  <2>6. Balancing(t, RebalanceLevel(F[m - 1]), P)
    BY <2>5, RebalanceLevelCow
  <2> QED
    BY <1>4, <2>2, <2>4, <2>6
<1> QED
  BY <1>1, <1>3, <1>5 DEF Balancing

(* The first page of a tree, and an entry that is overwritten or added      *)
(* (mdb_cursor_put).                                                        *)
LEMMA FirstLeafCow ==
  ASSUME NEW P, Len(P) \in Nat, NEW t, Cow(t, P)
  PROVE  OnPath(FirstLeaf(t), P)
<1> DEFINE a == PageNew(t, "leaf")
           u == FirstLeaf(t)
<1>1. Onward(t, a, P) /\ a.new \in a.dirty /\ Cow(a, P)
  BY PageNewCow DEF Onward
<1>2. u = [a EXCEPT !.root = a.new, !.depth = 1, !.path = <<a.new>>]
  BY DEF FirstLeaf
<1> HIDE DEF a, u
<1>3. /\ IsTree(u) /\ u.pg = a.pg /\ u.dirty = a.dirty /\ u.loose = a.loose
      /\ u.path = <<a.new>>
  BY <1>1, <1>2 DEF Cow, IsTree, Fields
<1>4. <<a.new>> \in Seq(a.dirty) /\ Len(<<a.new>>) = 1
  BY <1>1, SeqOfOne
<1>5. Cow(u, P)
  BY <1>1, <1>3, <1>4 DEF Cow
<1> QED
  BY <1>3, <1>4, <1>5 DEF OnPath, u

LEMMA OvpageFreeCow ==
  ASSUME NEW P, Len(P) \in Nat, NEW t, Cow(t, P), NEW g
  PROVE  Onward(t, OvpageFree(t, g), P)
<1>1. OvpageFree(t, g) = t \/ Kept(t, OvpageFree(t, g))
  BY DEF OvpageFree, Kept, Cow, IsTree, Fields, IsSeq
<1> QED
  BY <1>1, KeptOnward, OnwardSelf

LEMMA OverwriteAtCow ==
  ASSUME NEW P, Len(P) \in Nat, NEW t, Cow(t, P),
         NEW l \in 1..Len(t.path), NEW g \in t.dirty, NEW i, NEW node
  PROVE  Onward(t, OverwriteAt(t, l, g, i, node), P)
<1> DEFINE h == t.pg[g].nodes[i].page
           a == [t EXCEPT !.pg[h].nodes = <<node>>]
           b == [t EXCEPT !.pg[g].nodes[i] = node]
           c == OvpageFree(t, h)
           d == NodeDel(c, g, i)
           e == Place(d, l, g, i, node)
           w == OverwriteAt(t, l, g, i, node)
<1>1. (w = a /\ h \in t.dirty) \/ w = b \/ w = e
  BY DEF OverwriteAt
<1>2. h \in t.dirty => Kept(t, a)
  BY DEF Kept, Cow, IsTree, Fields, IsSeq
<1>3. Kept(t, b)
  BY DEF Kept, Cow, IsTree, Fields, IsSeq
<1>4. Onward(t, c, P)
  BY OvpageFreeCow
<1> SUFFICES Onward(t, w, P)
  OBVIOUS
<1> HIDE DEF a, b, c, w, h
<1>5. Cow(c, P) /\ g \in c.dirty
  BY <1>4 DEF Onward
<1>6. Onward(c, d, P)
  BY <1>5, NodeDelCow
<1> HIDE DEF d
<1>7. Onward(t, d, P)
  BY <1>4, <1>6, OnwardTrans
<1>8. Cow(d, P) /\ l \in 1..Len(d.path) /\ g \in d.dirty
  BY <1>7, OnwardLevel
<1>9. Onward(d, e, P)
  BY <1>8, PlaceCow
<1> HIDE DEF e
<1>10. Onward(t, e, P)
  BY <1>7, <1>9, OnwardTrans
<1> QED
  BY <1>1, <1>2, <1>3, <1>10, KeptOnward

LEMMA PutAtCow ==
  ASSUME NEW P, Len(P) \in Nat, NEW t, Cow(t, P),
         NEW l \in 1..Len(t.path), NEW g \in t.dirty, NEW node
  PROVE  Onward(t, PutAt(t, l, g, node), P)
<1> DEFINE i == LeafSearch(t.pg[g], node.key).i
           a == [t EXCEPT !.entries = @ + 1]
<1>1. \/ PutAt(t, l, g, node) = OverwriteAt(t, l, g, i, node)
      \/ PutAt(t, l, g, node) = Place(a, l, g, i, node)
  BY DEF PutAt
<1>2. Kept(t, a)
  BY DEF Kept, Cow, IsTree, Fields, IsSeq
<1> HIDE DEF a, i
<1>3. Onward(t, a, P)
  BY <1>2, KeptOnward
<1>4. Cow(a, P) /\ l \in 1..Len(a.path) /\ g \in a.dirty
  BY <1>3, OnwardLevel
<1>5. Onward(t, Place(a, l, g, i, node), P)
  BY <1>3, <1>4, PlaceCow, OnwardTrans
<1> QED
  BY <1>1, <1>5, OverwriteAtCow

(* A call that puts or deletes, as a whole (mdb_put, mdb_del).              *)
LEMMA EndedCow ==
  ASSUME NEW P, NEW t, Cow(t, P)
  PROVE  Cow(Ended(t), P) /\ Ended(t).path = <<>>
<1>1. /\ IsTree(Ended(t)) /\ Ended(t).pg = t.pg /\ Ended(t).dirty = t.dirty
      /\ Ended(t).loose = t.loose /\ Ended(t).path = <<>>
  BY DEF Ended, Cow, IsTree, Fields
<1> QED
  BY <1>1 DEF Cow

LEMMA PathEnd ==
  ASSUME NEW P, NEW t, OnPath(t, P)
  PROVE  Cow(t, P) /\ Len(t.path) \in 1..Len(t.path) /\ t.path[Len(t.path)] \in t.dirty
<1>1. Len(t.path) \in 1..Len(t.path) /\ Cow(t, P)
  BY DEF OnPath, Cow
<1> QED
  BY <1>1, PathPages

LEMMA MdbPutCow ==
  ASSUME NEW P, Len(P) \in Nat, NEW t, Cow(t, P), NEW key, NEW data
  PROVE  Cow(MdbPut(t, key, data), P) /\ MdbPut(t, key, data).path = <<>>
<1> DEFINE a == IF t.root = NoPage THEN FirstLeaf(t) ELSE TouchDown(t, key)
           node == [key |-> key, data |-> data, page |-> NoPage]
           b == PutAt(a, Len(a.path), a.path[Len(a.path)], node)
<1>1. MdbPut(t, key, data) = Ended(b)
  BY DEF MdbPut, PutWhere
<1>2. OnPath(a, P)
  BY FirstLeafCow, TouchDownCow
<1> HIDE DEF a, node
<1>3. Onward(a, b, P)
  BY <1>2, PathEnd, PutAtCow
<1> HIDE DEF b
<1> QED
  BY <1>1, <1>3, EndedCow DEF Onward

LEMMA DelAtCow ==
  ASSUME NEW P, Len(P) \in Nat, NEW t, Cow(t, P),
         NEW l \in 1..Len(t.path), NEW g \in t.dirty, NEW i
  PROVE  Onward(t, DelAt(t, l, g, i), P)
<1> DEFINE a == OvpageFree(t, t.pg[g].nodes[i].page)
           b == NodeDel(a, g, i)
           c == [b EXCEPT !.entries = @ - 1]
<1>1. DelAt(t, l, g, i) = Rebalance(c, l)
  BY DEF DelAt
<1>2. Onward(t, a, P)
  BY OvpageFreeCow
<1> HIDE DEF a
<1>3. Cow(a, P) /\ g \in a.dirty
  BY <1>2 DEF Onward
<1>4. Onward(a, b, P)
  BY <1>3, NodeDelCow
<1> HIDE DEF b
<1>5. Onward(t, b, P) /\ Cow(b, P)
  BY <1>2, <1>4, OnwardTrans DEF Onward
<1>6. Kept(b, c)
  BY <1>5 DEF Kept, Cow, IsTree, Fields, IsSeq
<1> HIDE DEF c
<1>7. Onward(t, c, P)
  BY <1>5, <1>6, KeptOnwardFrom
<1>8. Cow(c, P) /\ l \in 1..Len(c.path)
  BY <1>7, OnwardLevel
<1>9. Onward(c, Rebalance(c, l), P)
  BY <1>8, RebalanceCow
<1> QED
  BY <1>1, <1>7, <1>9, OnwardTrans

LEMMA MdbDelCow ==
  ASSUME NEW P, Len(P) \in Nat, NEW t, Cow(t, P), NEW key
  PROVE  Cow(MdbDel(t, key), P) /\ MdbDel(t, key).path = <<>>
<1> DEFINE a == TouchDown(t, key)
           g == a.path[Len(a.path)]
           b == DelAt(a, Len(a.path), g, LeafSearch(a.pg[g], key).i)
<1>1. MdbDel(t, key) = Ended(b)
  BY DEF MdbDel, DelFound, DelWhere
<1>2. OnPath(a, P)
  BY TouchDownCow
<1> HIDE DEF a
<1>3. Onward(a, b, P)
  BY <1>2, PathEnd, DelAtCow
<1> HIDE DEF b
<1> QED
  BY <1>1, <1>3, EndedCow DEF Onward

-----------------------------------------------------------------------------
(* The tree of a commit, and the inductive invariant.                       *)
Committed(t) ==
  IsTree(t) /\ IsSeq(t.pg) /\ t.dirty = {} /\ t.loose = <<>> /\ t.path = <<>>

CowInv == Committed(base) /\ Cow(txn, base.pg) /\ txn.path = <<>>

(* A transaction begins with the committed tree, none of whose pages it may *)
(* write to, and a commit leaves such a tree.                               *)
LEMMA CommittedCow ==
  ASSUME NEW t, Committed(t) PROVE Cow(t, t.pg)
BY DEF Committed, Cow, IsSeq

LEMMA RenumberedCommitted ==
  ASSUME NEW P, NEW t, Cow(t, P), t.path = <<>> PROVE Committed(Renumbered(t))
<1> DEFINE n == Cardinality(InTree(t))
           u == Renumbered(t)
<1>1. n \in Nat
  <2>1. InTree(t) \subseteq 1..Len(t.pg) /\ Len(t.pg) \in Nat
    BY DEF InTree, Cow, IsSeq
  <2>2. IsFiniteSet(1..Len(t.pg))
    BY <2>1, FS_Interval
  <2> QED
    BY <2>1, <2>2, FS_Subset, FS_CardinalityType
<1> HIDE DEF n
<1>2. \E pg, root : u = [t EXCEPT !.pg = [i \in 1..n |-> pg[i]], !.root = root, !.new = NoPage,
                                  !.dirty = {}, !.loose = <<>>, !.freed = {}]
  <2> DEFINE order == Preorder(t)
             NewNumber(g) == IF g = NoPage THEN NoPage ELSE CHOOSE i \in 1..Len(order) : order[i] = g
             Page(page) == [page EXCEPT !.nodes =
                       [i \in 1..Len(@) |-> [@[i] EXCEPT !.page = NewNumber(@)]]]
             pg == [i \in 1..n |-> Page(t.pg[order[i]])]
             root == NewNumber(t.root)
  <2>1. u = [t EXCEPT !.pg = pg, !.root = root, !.new = NoPage,
                      !.dirty = {}, !.loose = <<>>, !.freed = {}]
    BY DEF Renumbered, n
  <2>2. pg = [i \in 1..n |-> pg[i]]
    OBVIOUS
  <2> HIDE DEF pg, root, u
  <2> QED
    BY <2>1, <2>2
<1> HIDE DEF u
<1>3. PICK pg, root : u = [t EXCEPT !.pg = [i \in 1..n |-> pg[i]], !.root = root, !.new = NoPage,
                                  !.dirty = {}, !.loose = <<>>, !.freed = {}]
  BY <1>2
<1>4. /\ IsTree(u) /\ u.pg = [i \in 1..n |-> pg[i]]
      /\ u.dirty = {} /\ u.loose = <<>> /\ u.path = <<>>
  BY <1>3 DEF Cow, IsTree, Fields
<1>5. IsSeq(u.pg)
  BY <1>1, <1>4, SeqOfLength
<1> QED
  BY <1>4, <1>5 DEF Committed, u

LEMMA InitCow == Init => CowInv
<1> SUFFICES ASSUME Init PROVE CowInv
  OBVIOUS
<1>1. Committed(EmptyTree)
  <2>1. DOMAIN EmptyTree = Fields
    BY DEF EmptyTree, Fields
  <2>2. EmptyTree = [f \in Fields |-> EmptyTree[f]]
    BY <2>1 DEF EmptyTree
  <2>3. /\ EmptyTree.pg = <<>> /\ EmptyTree.dirty = {} /\ EmptyTree.loose = <<>>
        /\ EmptyTree.path = <<>>
    BY DEF EmptyTree
  <2>4. IsSeq(<<>>)
    BY DEF IsSeq
  <2> QED
    BY <2>1, <2>2, <2>3, <2>4 DEF Committed, IsTree
<1>2. Cow(EmptyTree, EmptyTree.pg)
  BY <1>1, CommittedCow
<1> QED
  BY <1>1, <1>2 DEF CowInv, Init, Committed

LEMMA NextCow == CowInv /\ [Next]_vars => CowInv'
<1> SUFFICES ASSUME CowInv, [Next]_vars PROVE CowInv'
  OBVIOUS
<1>1. Committed(base) /\ Cow(txn, base.pg) /\ txn.path = <<>> /\ Len(base.pg) \in Nat
  BY DEF CowInv, Committed, IsSeq
<1>2. ASSUME NEW key, NEW data, Put(key, data) PROVE CowInv'
  <2>1. base' = base /\ txn' = MdbPut(txn, key, data)
    BY <1>2 DEF Put
  <2>2. Cow(MdbPut(txn, key, data), base.pg) /\ MdbPut(txn, key, data).path = <<>>
    BY <1>1, MdbPutCow
  <2> QED
    BY <1>1, <2>1, <2>2 DEF CowInv
<1>3. ASSUME NEW key, Del(key) PROVE CowInv'
  <2>1. base' = base /\ txn' = MdbDel(txn, key)
    BY <1>3 DEF Del
  <2>2. Cow(MdbDel(txn, key), base.pg) /\ MdbDel(txn, key).path = <<>>
    BY <1>1, MdbDelCow
  <2> QED
    BY <1>1, <2>1, <2>2 DEF CowInv
<1>4. CASE Commit
  <2>1. base' = Renumbered(txn) /\ txn' = base'
    BY <1>4 DEF Commit
  <2>2. Committed(Renumbered(txn))
    BY <1>1, RenumberedCommitted
  <2>3. Committed(base') /\ txn' = base'
    BY <2>1, <2>2
  <2> QED
    BY <2>3, CommittedCow DEF CowInv, Committed
<1>5. CASE Abort
  <2>1. base' = base /\ txn' = base
    BY <1>5 DEF Abort
  <2> QED
    BY <1>1, <2>1, CommittedCow DEF CowInv, Committed
<1>6. CASE UNCHANGED <<base, txn>>
  BY <1>1, <1>6 DEF CowInv
<1>7. ASSUME NEW op, NEW key, Walk(op, key) PROVE UNCHANGED <<base, txn>>
  BY <1>7 DEF Walk
<1>8. CASE UNCHANGED vars
  BY <1>6, <1>8 DEF vars
<1> QED
  BY <1>2, <1>3, <1>4, <1>5, <1>6, <1>7, <1>8 DEF Next

(* No page of the committed tree is written to, whatever is put and         *)
(* deleted: for every table and every size of its keys, its data and its    *)
(* pages (mdb_page_touch, mdb_cursor_touch, mdb_page_split, mdb_node_move,  *)
(* mdb_page_merge, mdb_cursor_put).                                         *)
THEOREM CommittedTreeKept == Spec => []CommittedPagesUntouched
<1>1. CowInv => CommittedPagesUntouched
  BY DEF CowInv, Cow, CommittedPagesUntouched
<1> QED
  BY <1>1, InitCow, NextCow, PTL DEF Spec

-----------------------------------------------------------------------------
(* Sequences of anything: what the operators on nodes of a page return.     *)
LEMMA SeqOver ==
  ASSUME NEW s, IsSeq(s), NEW R, \A i \in 1..Len(s) : s[i] \in R
  PROVE  s \in Seq(R)
<1>1. Len(s) \in Nat /\ s = [i \in 1..Len(s) |-> s[i]]
  BY DEF IsSeq
<1>2. [i \in 1..Len(s) |-> s[i]] \in [1..Len(s) -> R]
  OBVIOUS
<1>3. s \in [1..Len(s) -> R]
  BY <1>1, <1>2
<1> QED
  BY <1>1, <1>3, SeqDef

LEMMA SeqIsSeq ==
  ASSUME NEW R, NEW s \in Seq(R)
  PROVE  IsSeq(s)
<1>1. Len(s) \in Nat /\ s \in [1..Len(s) -> R]
  BY LenProperties
<1> QED
  BY <1>1 DEF IsSeq

LEMMA SeqsEqual ==
  ASSUME NEW s, NEW t, IsSeq(s), IsSeq(t), Len(s) = Len(t), \A i \in 1..Len(s) : s[i] = t[i]
  PROVE  s = t
<1>1. s = [i \in 1..Len(s) |-> s[i]] /\ t = [i \in 1..Len(s) |-> t[i]]
  BY DEF IsSeq
<1>2. [i \in 1..Len(s) |-> s[i]] = [i \in 1..Len(s) |-> t[i]]
  OBVIOUS
<1> QED
  BY <1>1, <1>2

LEMMA SeqConcat ==
  ASSUME NEW s, NEW t, IsSeq(s), IsSeq(t)
  PROVE  /\ IsSeq(s \o t) /\ Len(s \o t) = Len(s) + Len(t)
         /\ \A i \in 1..Len(s) : (s \o t)[i] = s[i]
         /\ \A i \in 1..Len(t) : (s \o t)[Len(s) + i] = t[i]
<1> DEFINE R == {s[i] : i \in 1..Len(s)} \cup {t[i] : i \in 1..Len(t)}
<1>1. s \in Seq(R) /\ t \in Seq(R)
  BY SeqOver
<1> HIDE DEF R
<1>2. Len(s) \in Nat /\ Len(t) \in Nat
  BY DEF IsSeq
<1>3. /\ s \o t \in Seq(R) /\ Len(s \o t) = Len(s) + Len(t)
      /\ \A i \in 1..Len(s) + Len(t) :
           (s \o t)[i] = IF i <= Len(s) THEN s[i] ELSE t[i - Len(s)]
  BY <1>1, ConcatProperties
<1>4. ASSUME NEW i \in 1..Len(s) PROVE (s \o t)[i] = s[i]
  BY <1>2, <1>3
<1>5. ASSUME NEW i \in 1..Len(t) PROVE (s \o t)[Len(s) + i] = t[i]
  <2>1. Len(s) + i \in 1..Len(s) + Len(t) /\ ~(Len(s) + i <= Len(s)) /\ Len(s) + i - Len(s) = i
    BY <1>2
  <2> QED
    BY <1>3, <2>1
<1> QED
  BY <1>3, <1>4, <1>5, SeqIsSeq

LEMMA SeqPart ==
  ASSUME NEW s, IsSeq(s), NEW m \in Nat, NEW n \in Nat, 1 <= m, n <= Len(s), m <= n + 1
  PROVE  /\ IsSeq(SubSeq(s, m, n)) /\ Len(SubSeq(s, m, n)) = n - m + 1
         /\ \A i \in 1..n - m + 1 : SubSeq(s, m, n)[i] = s[m + i - 1]
<1> DEFINE R == {s[i] : i \in 1..Len(s)}
<1>1. s \in Seq(R) /\ Len(s) \in Nat
  BY SeqOver DEF IsSeq
<1> HIDE DEF R
<1>2. \A i \in m..n : s[i] \in R
  BY <1>1, ElementOfSeq
<1>3. /\ SubSeq(s, m, n) \in Seq(R)
      /\ Len(SubSeq(s, m, n)) = IF m <= n THEN n - m + 1 ELSE 0
      /\ \A i \in 1..n - m + 1 : SubSeq(s, m, n)[i] = s[m + i - 1]
  <2>1. m \in Int /\ n \in Int
    OBVIOUS
  <2> QED
    BY <1>2, <2>1, SubSeqProperties
<1>4. IsSeq(SubSeq(s, m, n))
  BY <1>3, SeqIsSeq
<1>5. Len(SubSeq(s, m, n)) = n - m + 1
  BY <1>3
<1> QED
  BY <1>3, <1>4, <1>5

LEMMA SeqSingle ==
  ASSUME NEW e PROVE IsSeq(<<e>>) /\ Len(<<e>>) = 1 /\ <<e>>[1] = e
BY DEF IsSeq

(* InsertAt and RemoveAt, also as what they are put together of.            *)
LEMMA SeqInsert ==
  ASSUME NEW s, IsSeq(s), NEW i \in 1..Len(s) + 1, NEW e
  PROVE  /\ IsSeq(InsertAt(s, i, e)) /\ Len(InsertAt(s, i, e)) = Len(s) + 1
         /\ \A j \in 1..Len(s) + 1 :
              InsertAt(s, i, e)[j] = IF j < i THEN s[j] ELSE IF j = i THEN e ELSE s[j - 1]
<1> DEFINE A == SubSeq(s, 1, i - 1)
           B == SubSeq(s, i, Len(s))
           C == A \o <<e>>
<1>0. Len(s) \in Nat /\ i \in Nat /\ i - 1 \in Nat
  BY DEF IsSeq
<1>1. IsSeq(A) /\ Len(A) = i - 1 /\ \A j \in 1..i - 1 : A[j] = s[j]
  <2>1. IsSeq(A) /\ Len(A) = i - 1 - 1 + 1 /\ \A j \in 1..i - 1 - 1 + 1 : A[j] = s[1 + j - 1]
    BY <1>0, SeqPart
  <2> QED
    BY <1>0, <2>1
<1>2. IsSeq(B) /\ Len(B) = Len(s) - i + 1 /\ \A j \in 1..Len(s) - i + 1 : B[j] = s[i + j - 1]
  BY <1>0, SeqPart
<1> HIDE DEF A, B
<1>3. /\ IsSeq(C) /\ Len(C) = i
      /\ \A j \in 1..i - 1 : C[j] = s[j]
      /\ C[i] = e
  <2>1. IsSeq(<<e>>) /\ Len(<<e>>) = 1 /\ <<e>>[1] = e
    BY SeqSingle
  <2>2. /\ IsSeq(C) /\ Len(C) = Len(A) + Len(<<e>>)
        /\ \A j \in 1..Len(A) : C[j] = A[j]
        /\ \A j \in 1..Len(<<e>>) : C[Len(A) + j] = <<e>>[j]
    BY <1>1, <2>1, SeqConcat
  <2>3. C[Len(A) + 1] = e
    BY <2>1, <2>2
  <2> QED
    BY <1>0, <1>1, <2>1, <2>2, <2>3
<1> HIDE DEF C
<1>4. InsertAt(s, i, e) = C \o B
  BY DEF InsertAt, A, B, C
<1>5. /\ IsSeq(C \o B) /\ Len(C \o B) = Len(C) + Len(B)
      /\ \A j \in 1..Len(C) : (C \o B)[j] = C[j]
      /\ \A j \in 1..Len(B) : (C \o B)[Len(C) + j] = B[j]
  BY <1>2, <1>3, SeqConcat
<1>6. ASSUME NEW j \in 1..Len(s) + 1
      PROVE  (C \o B)[j] = IF j < i THEN s[j] ELSE IF j = i THEN e ELSE s[j - 1]
  <2>1. CASE j <= i
    BY <1>0, <1>3, <1>5, <2>1
  <2>2. CASE j > i
    <3>1. j - i \in 1..Len(B) /\ Len(C) + (j - i) = j
      BY <1>0, <1>2, <1>3, <2>2
    <3>2. (C \o B)[Len(C) + (j - i)] = B[j - i]
      BY <1>5, <3>1
    <3>3. B[j - i] = s[i + (j - i) - 1] /\ i + (j - i) - 1 = j - 1
      BY <1>0, <1>2, <3>1
    <3> QED
      BY <1>0, <2>2, <3>1, <3>2, <3>3
  <2>3. j <= i \/ j > i
    BY <1>0
  <2> QED
    BY <2>1, <2>2, <2>3
<1>7. Len(C) + Len(B) = Len(s) + 1
  BY <1>0, <1>2, <1>3
<1> QED
  BY <1>4, <1>5, <1>6, <1>7

LEMMA SeqRemove ==
  ASSUME NEW s, IsSeq(s), NEW i \in 1..Len(s)
  PROVE  /\ IsSeq(RemoveAt(s, i)) /\ Len(RemoveAt(s, i)) = Len(s) - 1
         /\ \A j \in 1..Len(s) - 1 :
              RemoveAt(s, i)[j] = IF j < i THEN s[j] ELSE s[j + 1]
<1> DEFINE A == SubSeq(s, 1, i - 1)
           B == SubSeq(s, i + 1, Len(s))
<1>0. Len(s) \in Nat /\ i \in Nat /\ i - 1 \in Nat
  BY DEF IsSeq
<1>1. IsSeq(A) /\ Len(A) = i - 1 /\ \A j \in 1..i - 1 : A[j] = s[j]
  <2>1. IsSeq(A) /\ Len(A) = i - 1 - 1 + 1 /\ \A j \in 1..i - 1 - 1 + 1 : A[j] = s[1 + j - 1]
    BY <1>0, SeqPart
  <2> QED
    BY <1>0, <2>1
<1>2. IsSeq(B) /\ Len(B) = Len(s) - i /\ \A j \in 1..Len(s) - i : B[j] = s[i + j]
  <2>1. /\ IsSeq(B) /\ Len(B) = Len(s) - (i + 1) + 1
        /\ \A j \in 1..Len(s) - (i + 1) + 1 : B[j] = s[i + 1 + j - 1]
    BY <1>0, SeqPart
  <2>2. Len(s) - (i + 1) + 1 = Len(s) - i /\ \A j \in 1..Len(s) - i : i + 1 + j - 1 = i + j
    BY <1>0
  <2> QED
    BY <2>1, <2>2
<1> HIDE DEF A, B
<1>4. RemoveAt(s, i) = A \o B
  BY DEF RemoveAt, A, B
<1>5. /\ IsSeq(A \o B) /\ Len(A \o B) = Len(A) + Len(B)
      /\ \A j \in 1..Len(A) : (A \o B)[j] = A[j]
      /\ \A j \in 1..Len(B) : (A \o B)[Len(A) + j] = B[j]
  <2>1. IsSeq(A) /\ IsSeq(B)
    BY <1>1, <1>2
  <2> QED
    BY <2>1, SeqConcat
<1>6. ASSUME NEW j \in 1..Len(s) - 1
      PROVE  (A \o B)[j] = IF j < i THEN s[j] ELSE s[j + 1]
  <2>1. CASE j < i
    BY <1>0, <1>1, <1>5, <2>1
  <2>2. CASE j >= i
    <3>1. j - (i - 1) \in 1..Len(B) /\ Len(A) + (j - (i - 1)) = j
      BY <1>0, <1>1, <1>2, <2>2
    <3>2. (A \o B)[Len(A) + (j - (i - 1))] = B[j - (i - 1)]
      BY <1>5, <3>1
    <3>3. B[j - (i - 1)] = s[i + (j - (i - 1))] /\ i + (j - (i - 1)) = j + 1
      BY <1>0, <1>2, <3>1
    <3> QED
      BY <1>0, <2>2, <3>1, <3>2, <3>3
  <2>3. j < i \/ j >= i
    BY <1>0
  <2> QED
    BY <2>1, <2>2, <2>3
<1>7. Len(A) + Len(B) = Len(s) - 1
  BY <1>0, <1>1, <1>2
<1> QED
  BY <1>4, <1>5, <1>6, <1>7

LEMMA SeqReplace ==
  ASSUME NEW s, IsSeq(s), NEW i \in 1..Len(s), NEW e
  PROVE  /\ IsSeq([s EXCEPT ![i] = e]) /\ Len([s EXCEPT ![i] = e]) = Len(s)
         /\ \A j \in 1..Len(s) : [s EXCEPT ![i] = e][j] = IF j = i THEN e ELSE s[j]
<1> DEFINE R == {s[j] : j \in 1..Len(s)} \cup {e}
<1>1. s \in Seq(R) /\ e \in R
  BY SeqOver
<1> HIDE DEF R
<1>2. /\ [s EXCEPT ![i] = e] \in Seq(R)
      /\ Len([s EXCEPT ![i] = e]) = Len(s)
      /\ \A j \in 1..Len(s) : [s EXCEPT ![i] = e][j] = IF j = i THEN e ELSE s[j]
  BY <1>1, ExceptSeq
<1> QED
  BY <1>2, SeqIsSeq

(* The same of a name for the new sequence.                                 *)
Replaced(s, i, e) == [s EXCEPT ![i] = e]
LEMMA SeqReplaced ==
  ASSUME NEW s, IsSeq(s), NEW i \in 1..Len(s), NEW e
  PROVE  /\ IsSeq(Replaced(s, i, e)) /\ Len(Replaced(s, i, e)) = Len(s)
         /\ \A j \in 1..Len(s) : Replaced(s, i, e)[j] = IF j = i THEN e ELSE s[j]
BY SeqReplace DEF Replaced

-----------------------------------------------------------------------------
(* Sizes.  A page holds what the nodes on it take up together.              *)
Sized(kind, s) == IsSeq(s) /\ \A i \in 1..Len(s) : NodeSize(kind, s[i]) \in Nat

SizeSums(f, kind, s) ==
  /\ f \in [0..Len(s) -> Nat]
  /\ f[0] = 0
  /\ \A n \in 1..Len(s) : f[n] = f[n - 1] + NodeSize(kind, s[n])
  /\ SizeOf(kind, s) = f[Len(s)]

LEMMA SizeSteps ==
  ASSUME NEW kind, NEW s, Sized(kind, s)
  PROVE  \E f : SizeSums(f, kind, s)
<1> DEFINE N == Len(s)
           G == [p \in (1..N) \X Nat |-> p[2] + NodeSize(kind, s[p[1]])]
           Body(f) == [n \in 0..N |-> IF n = 0 THEN 0 ELSE f[n - 1] + NodeSize(kind, s[n])]
           g == CHOOSE f : f = Body(f)
<1>1. N \in Nat /\ \A i \in 1..N : NodeSize(kind, s[i]) \in Nat
  BY DEF Sized, IsSeq
<1>2. G \in [(1..N) \X Nat -> Nat]
  BY <1>1
<1>3. \A n \in 1..N, m \in Nat : G[<<n, m>>] = m + NodeSize(kind, s[n])
  OBVIOUS
<1>4. SizeOf(kind, s) = g[N]
  BY DEF SizeOf
<1> HIDE DEF G, N
<1>5. PICK f : Recursion(f, N, Nat, 0, G)
  BY <1>1, <1>2, RecursionExists
<1>6. f \in [0..N -> Nat] /\ f[0] = 0 /\ \A n \in 1..N : f[n] = f[n - 1] + NodeSize(kind, s[n])
  <2>1. f \in [0..N -> Nat] /\ f[0] = 0 /\ \A n \in 1..N : f[n] = G[<<n, f[n - 1]>>]
    BY <1>5 DEF Recursion
  <2>2. ASSUME NEW n \in 1..N PROVE f[n] = f[n - 1] + NodeSize(kind, s[n])
    <3>1. n - 1 \in 0..N
      BY <1>1
    <3> QED
      BY <1>3, <2>1, <3>1
  <2> QED
    BY <2>1, <2>2
<1>7. f = Body(f)
  <2>1. ASSUME NEW n \in 0..N PROVE f[n] = Body(f)[n]
    BY <1>1, <1>6
  <2> QED
    BY <1>6, <2>1
<1>8. g = Body(g)
  BY <1>7
<1> HIDE DEF g
<1>9. SameSteps(f, g, N)
  <2>1. g[0] = 0
    BY <1>1, <1>8
  <2>2. ASSUME NEW n \in 1..N PROVE g[n] = g[n - 1] + NodeSize(kind, s[n])
    <3>1. n \in 0..N /\ n # 0
      BY <1>1
    <3>2. Body(g)[n] = g[n - 1] + NodeSize(kind, s[n])
      BY <3>1
    <3> HIDE DEF Body
    <3> QED
      BY <1>8, <3>2
  <2> QED
    BY <1>6, <2>1, <2>2 DEF SameSteps
<1>10. \A n \in 0..N : f[n] = g[n]
  BY <1>1, <1>9, RecursionUnique
<1>11. SizeOf(kind, s) = f[N]
  BY <1>1, <1>4, <1>10
<1> QED
  BY <1>6, <1>11 DEF SizeSums, N

LEMMA SizeInNat ==
  ASSUME NEW kind, NEW s, Sized(kind, s)
  PROVE  SizeOf(kind, s) \in Nat
<1>1. PICK f : SizeSums(f, kind, s)
  BY SizeSteps
<1> QED
  BY <1>1 DEF SizeSums, Sized, IsSeq

LEMMA SizeOfNone ==
  ASSUME NEW kind, NEW s, IsSeq(s), Len(s) = 0
  PROVE  SizeOf(kind, s) = 0
<1>1. Sized(kind, s)
  BY DEF Sized
<1>2. PICK f : SizeSums(f, kind, s)
  BY <1>1, SizeSteps
<1> QED
  BY <1>2 DEF SizeSums

LEMMA SizeOfOne ==
  ASSUME NEW kind, NEW e, NodeSize(kind, e) \in Nat
  PROVE  Sized(kind, <<e>>) /\ SizeOf(kind, <<e>>) = NodeSize(kind, e)
<1>1. IsSeq(<<e>>) /\ Len(<<e>>) = 1 /\ <<e>>[1] = e
  BY SeqSingle
<1>2. Sized(kind, <<e>>)
  BY <1>1 DEF Sized
<1>3. PICK f : SizeSums(f, kind, <<e>>)
  BY <1>2, SizeSteps
<1>4. f[1] = f[0] + NodeSize(kind, e)
  BY <1>1, <1>3 DEF SizeSums
<1> QED
  BY <1>1, <1>2, <1>3, <1>4 DEF SizeSums

LEMMA SizeOfConcat ==
  ASSUME NEW kind, NEW s, NEW t, Sized(kind, s), Sized(kind, t)
  PROVE  Sized(kind, s \o t) /\ SizeOf(kind, s \o t) = SizeOf(kind, s) + SizeOf(kind, t)
<1>0. IsSeq(s) /\ IsSeq(t) /\ Len(s) \in Nat /\ Len(t) \in Nat
  BY DEF Sized, IsSeq
<1>1. /\ IsSeq(s \o t) /\ Len(s \o t) = Len(s) + Len(t)
      /\ \A i \in 1..Len(s) : (s \o t)[i] = s[i]
      /\ \A i \in 1..Len(t) : (s \o t)[Len(s) + i] = t[i]
  BY <1>0, SeqConcat
<1>2. Sized(kind, s \o t)
  <2>1. ASSUME NEW i \in 1..Len(s \o t) PROVE NodeSize(kind, (s \o t)[i]) \in Nat
    <3>1. CASE i <= Len(s)
      BY <1>0, <1>1, <3>1 DEF Sized
    <3>2. CASE i > Len(s)
      <4>1. i - Len(s) \in 1..Len(t) /\ Len(s) + (i - Len(s)) = i
        BY <1>0, <1>1, <3>2
      <4>2. (s \o t)[Len(s) + (i - Len(s))] = t[i - Len(s)]
        BY <1>1, <4>1
      <4> QED
        BY <4>1, <4>2 DEF Sized
    <3>3. i <= Len(s) \/ i > Len(s)
      BY <1>0
    <3> QED
      BY <3>1, <3>2, <3>3
  <2> QED
    BY <1>1, <2>1 DEF Sized
<1>3. PICK f : SizeSums(f, kind, s)
  BY SizeSteps
<1>4. PICK g : SizeSums(g, kind, t)
  BY SizeSteps
<1>5. PICK h : SizeSums(h, kind, s \o t)
  BY <1>2, SizeSteps
<1>6. SameSteps(f, h, Len(s))
  <2>1. ASSUME NEW n \in 1..Len(s), f[n - 1] = h[n - 1] PROVE f[n] = h[n]
    <3>1. n \in 1..Len(s \o t)
      BY <1>0, <1>1
    <3>2. h[n] = h[n - 1] + NodeSize(kind, s[n])
      BY <1>1, <1>5, <3>1 DEF SizeSums
    <3> QED
      BY <1>3, <2>1, <3>2 DEF SizeSums
  <2> QED
    BY <1>3, <1>5, <2>1 DEF SameSteps, SizeSums
<1>7. f[Len(s)] = h[Len(s)]
  BY <1>0, <1>6, RecursionUnique
<1> DEFINE k == [n \in 0..Len(t) |-> h[Len(s) + n]]
           m == [n \in 0..Len(t) |-> f[Len(s)] + g[n]]
<1>8. SameSteps(k, m, Len(t))
  <2>1. k[0] = m[0]
    <3>1. f[Len(s)] \in Nat /\ g[0] = 0 /\ Len(s) + 0 = Len(s) /\ 0 \in 0..Len(t)
      BY <1>0, <1>3, <1>4 DEF SizeSums
    <3> QED
      BY <1>7, <3>1
  <2>2. ASSUME NEW n \in 1..Len(t), k[n - 1] = m[n - 1] PROVE k[n] = m[n]
    <3>1. /\ Len(s) + n \in 1..Len(s \o t) /\ n \in 0..Len(t) /\ n - 1 \in 0..Len(t)
          /\ Len(s) + n - 1 = Len(s) + (n - 1)
      BY <1>0, <1>1
    <3>2. h[Len(s) + n] = h[Len(s) + n - 1] + NodeSize(kind, t[n])
      BY <1>1, <1>5, <3>1 DEF SizeSums
    <3>3. g[n] = g[n - 1] + NodeSize(kind, t[n])
      BY <1>4 DEF SizeSums
    <3>4. g[n - 1] \in Nat /\ f[Len(s)] \in Nat /\ NodeSize(kind, t[n]) \in Nat
      <4>1. g[n - 1] \in Nat /\ f[Len(s)] \in Nat
        BY <1>0, <1>3, <1>4, <3>1 DEF SizeSums
      <4> QED
        BY <4>1 DEF Sized
    <3>5. h[Len(s) + (n - 1)] = f[Len(s)] + g[n - 1]
      BY <2>2, <3>1
    <3>6. h[Len(s) + n] = f[Len(s)] + g[n]
      BY <3>1, <3>2, <3>3, <3>4, <3>5
    <3> QED
      BY <3>1, <3>6
  <2> HIDE DEF k, m
  <2> QED
    BY <2>1, <2>2 DEF SameSteps
<1>9. k[Len(t)] = m[Len(t)]
  <2> HIDE DEF k, m
  <2> QED
    BY <1>0, <1>8, RecursionUnique
<1>10. h[Len(s) + Len(t)] = f[Len(s)] + g[Len(t)]
  BY <1>0, <1>9
<1> QED
  BY <1>1, <1>2, <1>3, <1>4, <1>5, <1>10 DEF SizeSums

LEMMA SizeOfPart ==
  ASSUME NEW kind, NEW s, Sized(kind, s), NEW m \in Nat, NEW n \in Nat, 1 <= m, n <= Len(s), m <= n + 1
  PROVE  Sized(kind, SubSeq(s, m, n))
<1>1. IsSeq(s) /\ Len(s) \in Nat
  BY DEF Sized, IsSeq
<1>2. /\ IsSeq(SubSeq(s, m, n)) /\ Len(SubSeq(s, m, n)) = n - m + 1
      /\ \A i \in 1..n - m + 1 : SubSeq(s, m, n)[i] = s[m + i - 1]
  BY <1>1, SeqPart
<1>3. \A i \in 1..n - m + 1 : m + i - 1 \in 1..Len(s)
  BY <1>1
<1> QED
  BY <1>2, <1>3 DEF Sized

(* A sequence cut in two.                                                   *)
LEMMA SizeOfCut ==
  ASSUME NEW kind, NEW s, Sized(kind, s), NEW m \in 0..Len(s)
  PROVE  /\ Sized(kind, SubSeq(s, 1, m)) /\ Sized(kind, SubSeq(s, m + 1, Len(s)))
         /\ SizeOf(kind, s) = SizeOf(kind, SubSeq(s, 1, m)) + SizeOf(kind, SubSeq(s, m + 1, Len(s)))
<1> DEFINE A == SubSeq(s, 1, m)
           B == SubSeq(s, m + 1, Len(s))
<1>1. IsSeq(s) /\ Len(s) \in Nat /\ m \in Nat
  BY DEF Sized, IsSeq
<1>2. IsSeq(A) /\ Len(A) = m /\ \A i \in 1..m : A[i] = s[i]
  <2>1. IsSeq(A) /\ Len(A) = m - 1 + 1 /\ \A i \in 1..m - 1 + 1 : A[i] = s[1 + i - 1]
    BY <1>1, SeqPart
  <2>2. m - 1 + 1 = m /\ \A i \in 1..m : 1 + i - 1 = i
    BY <1>1
  <2> QED
    BY <2>1, <2>2
<1>3. IsSeq(B) /\ Len(B) = Len(s) - m /\ \A i \in 1..Len(s) - m : B[i] = s[m + i]
  <2>1. /\ IsSeq(B) /\ Len(B) = Len(s) - (m + 1) + 1
        /\ \A i \in 1..Len(s) - (m + 1) + 1 : B[i] = s[m + 1 + i - 1]
    BY <1>1, SeqPart
  <2>2. Len(s) - (m + 1) + 1 = Len(s) - m /\ \A i \in 1..Len(s) - m : m + 1 + i - 1 = m + i
    BY <1>1
  <2> QED
    BY <2>1, <2>2
<1>4. Sized(kind, A) /\ Sized(kind, B)
  BY <1>1, SizeOfPart
<1> HIDE DEF A, B
<1>5. A \o B = s
  <2>1. /\ IsSeq(A \o B) /\ Len(A \o B) = Len(A) + Len(B)
        /\ \A i \in 1..Len(A) : (A \o B)[i] = A[i]
        /\ \A i \in 1..Len(B) : (A \o B)[Len(A) + i] = B[i]
    BY <1>2, <1>3, SeqConcat
  <2>2. ASSUME NEW i \in 1..Len(s) PROVE (A \o B)[i] = s[i]
    <3>1. CASE i <= m
      BY <1>1, <1>2, <2>1, <3>1
    <3>2. CASE i > m
      <4>1. i - m \in 1..Len(B) /\ Len(A) + (i - m) = i
        BY <1>1, <1>2, <1>3, <3>2
      <4>2. B[i - m] = s[m + (i - m)] /\ m + (i - m) = i
        BY <1>1, <1>3, <4>1
      <4> QED
        BY <2>1, <4>1, <4>2
    <3>3. i <= m \/ i > m
      BY <1>1
    <3> QED
      BY <3>1, <3>2, <3>3
  <2>3. Len(A) + Len(B) = Len(s)
    BY <1>1, <1>2, <1>3
  <2> QED
    BY <1>1, <2>1, <2>2, <2>3, SeqsEqual
<1>6. SizeOf(kind, A \o B) = SizeOf(kind, A) + SizeOf(kind, B)
  BY <1>4, SizeOfConcat
<1> QED
  BY <1>4, <1>5, <1>6 DEF A, B

LEMMA SizeOfInsert ==
  ASSUME NEW kind, NEW s, Sized(kind, s), NEW i \in 1..Len(s) + 1, NEW e, NodeSize(kind, e) \in Nat
  PROVE  /\ Sized(kind, InsertAt(s, i, e))
         /\ SizeOf(kind, InsertAt(s, i, e)) = SizeOf(kind, s) + NodeSize(kind, e)
<1> DEFINE A == SubSeq(s, 1, i - 1)
           B == SubSeq(s, i, Len(s))
<1>1. Len(s) \in Nat /\ i - 1 \in 0..Len(s) /\ i - 1 + 1 = i
  BY DEF Sized, IsSeq
<1>2. Sized(kind, A) /\ Sized(kind, B) /\ SizeOf(kind, s) = SizeOf(kind, A) + SizeOf(kind, B)
  <2>1. /\ Sized(kind, A) /\ Sized(kind, SubSeq(s, i - 1 + 1, Len(s)))
        /\ SizeOf(kind, s) = SizeOf(kind, A) + SizeOf(kind, SubSeq(s, i - 1 + 1, Len(s)))
    BY <1>1, SizeOfCut
  <2> QED
    BY <1>1, <2>1
<1> HIDE DEF A, B
<1>3. Sized(kind, <<e>>) /\ SizeOf(kind, <<e>>) = NodeSize(kind, e)
  BY SizeOfOne
<1>4. Sized(kind, A \o <<e>>) /\ SizeOf(kind, A \o <<e>>) = SizeOf(kind, A) + NodeSize(kind, e)
  BY <1>2, <1>3, SizeOfConcat
<1>5. /\ Sized(kind, (A \o <<e>>) \o B)
      /\ SizeOf(kind, (A \o <<e>>) \o B) = SizeOf(kind, A \o <<e>>) + SizeOf(kind, B)
  BY <1>2, <1>4, SizeOfConcat
<1>6. SizeOf(kind, A) \in Nat /\ SizeOf(kind, B) \in Nat
  BY <1>2, SizeInNat
<1> QED
  BY <1>2, <1>4, <1>5, <1>6 DEF InsertAt, A, B

(* A node taken out and put back is the same sequence.                      *)
LEMMA InsertRemoved ==
  ASSUME NEW s, IsSeq(s), NEW i \in 1..Len(s), NEW e
  PROVE  InsertAt(RemoveAt(s, i), i, e) = [s EXCEPT ![i] = e]
<1> DEFINE r == RemoveAt(s, i)
           u == InsertAt(r, i, e)
           v == [s EXCEPT ![i] = e]
<1>0. Len(s) \in Nat
  BY DEF IsSeq
<1>1. /\ IsSeq(r) /\ Len(r) = Len(s) - 1
      /\ \A j \in 1..Len(s) - 1 : r[j] = IF j < i THEN s[j] ELSE s[j + 1]
  BY SeqRemove
<1> HIDE DEF r
<1>2. i \in 1..Len(r) + 1
  BY <1>0, <1>1
<1>3. /\ IsSeq(u) /\ Len(u) = Len(r) + 1
      /\ \A j \in 1..Len(r) + 1 : u[j] = IF j < i THEN r[j] ELSE IF j = i THEN e ELSE r[j - 1]
  BY <1>1, <1>2, SeqInsert
<1>4. /\ IsSeq(v) /\ Len(v) = Len(s)
      /\ \A j \in 1..Len(s) : v[j] = IF j = i THEN e ELSE s[j]
  BY SeqReplace
<1> HIDE DEF u, v
<1>5. ASSUME NEW j \in 1..Len(s) PROVE u[j] = v[j]
  <2>1. CASE j < i
    <3>1. j \in 1..Len(s) - 1 /\ j \in 1..Len(r) + 1 /\ j # i
      BY <1>0, <1>1, <2>1
    <3> QED
      BY <1>1, <1>3, <1>4, <2>1, <3>1
  <2>2. CASE j = i
    BY <1>0, <1>1, <1>3, <1>4, <2>2
  <2>3. CASE j > i
    <3>1. /\ j - 1 \in 1..Len(s) - 1 /\ j \in 1..Len(r) + 1 /\ j # i /\ ~(j < i) /\ ~(j - 1 < i)
          /\ j - 1 + 1 = j
      BY <1>0, <1>1, <2>3
    <3> QED
      BY <1>1, <1>3, <1>4, <3>1
  <2>4. j < i \/ j = i \/ j > i
    BY <1>0
  <2> QED
    BY <2>1, <2>2, <2>3, <2>4
<1>6. Len(u) = Len(s)
  BY <1>0, <1>1, <1>3
<1>7. u = v
  BY <1>3, <1>4, <1>5, <1>6, SeqsEqual
<1> QED
  BY <1>7 DEF u, v, r

LEMMA SizeOfRemove ==
  ASSUME NEW kind, NEW s, Sized(kind, s), NEW i \in 1..Len(s)
  PROVE  /\ Sized(kind, RemoveAt(s, i))
         /\ SizeOf(kind, s) = SizeOf(kind, RemoveAt(s, i)) + NodeSize(kind, s[i])
<1> DEFINE r == RemoveAt(s, i)
<1>0. IsSeq(s) /\ Len(s) \in Nat /\ NodeSize(kind, s[i]) \in Nat
  BY DEF Sized, IsSeq
<1>1. /\ IsSeq(r) /\ Len(r) = Len(s) - 1
      /\ \A j \in 1..Len(s) - 1 : r[j] = IF j < i THEN s[j] ELSE s[j + 1]
  BY <1>0, SeqRemove
<1>2. InsertAt(r, i, s[i]) = s
  <2>1. InsertAt(r, i, s[i]) = [s EXCEPT ![i] = s[i]]
    BY <1>0, InsertRemoved
  <2>2. s = [j \in 1..Len(s) |-> s[j]]
    BY <1>0 DEF IsSeq
  <2> QED
    BY <2>1, <2>2
<1> HIDE DEF r
<1>3. Sized(kind, r)
  <2>1. \A j \in 1..Len(s) - 1 : j \in 1..Len(s) /\ j + 1 \in 1..Len(s)
    BY <1>0
  <2> QED
    BY <1>1, <2>1 DEF Sized
<1>4. i \in 1..Len(r) + 1
  BY <1>0, <1>1
<1>5. SizeOf(kind, InsertAt(r, i, s[i])) = SizeOf(kind, r) + NodeSize(kind, s[i])
  BY <1>0, <1>3, <1>4, SizeOfInsert
<1> QED
  BY <1>2, <1>3, <1>5 DEF r

LEMMA SizeOfReplace ==
  ASSUME NEW kind, NEW s, Sized(kind, s), NEW i \in 1..Len(s), NEW e, NodeSize(kind, e) \in Nat
  PROVE  /\ Sized(kind, [s EXCEPT ![i] = e])
         /\ SizeOf(kind, [s EXCEPT ![i] = e]) + NodeSize(kind, s[i]) = SizeOf(kind, s) + NodeSize(kind, e)
<1> DEFINE r == RemoveAt(s, i)
<1>0. IsSeq(s) /\ Len(s) \in Nat /\ NodeSize(kind, s[i]) \in Nat
  BY DEF Sized, IsSeq
<1>1. Sized(kind, r) /\ SizeOf(kind, s) = SizeOf(kind, r) + NodeSize(kind, s[i])
  BY SizeOfRemove
<1>2. InsertAt(r, i, e) = [s EXCEPT ![i] = e] /\ Len(r) = Len(s) - 1
  BY <1>0, InsertRemoved, SeqRemove
<1> HIDE DEF r
<1>3. i \in 1..Len(r) + 1
  BY <1>0, <1>2
<1>4. /\ Sized(kind, InsertAt(r, i, e))
      /\ SizeOf(kind, InsertAt(r, i, e)) = SizeOf(kind, r) + NodeSize(kind, e)
  BY <1>1, <1>3, SizeOfInsert
<1>5. SizeOf(kind, r) \in Nat
  BY <1>1, SizeInNat
<1> QED
  BY <1>0, <1>1, <1>2, <1>4, <1>5

-----------------------------------------------------------------------------
(* The binary search of mdb_node_search.  The nodes from first on are in    *)
(* order; those below low are below the key, those above high are above it, *)
(* and every turn leaves fewer in between.                                  *)
InOrder(nodes, first) ==
  /\ \A i \in first..Len(nodes) : nodes[i].key \in Nat
  /\ \A i, j \in first..Len(nodes) : i < j => nodes[i].key < nodes[j].key

Narrowed(s, nodes, key, first, n) ==
  /\ s = [low |-> s.low, high |-> s.high, exact |-> s.exact]
  /\ s.exact \in BOOLEAN
  /\ s.low \in first..Len(nodes) + 1
  /\ s.high \in first - 1..Len(nodes)
  /\ s.exact => s.low <= Len(nodes) /\ nodes[s.low].key = key
  /\ ~s.exact => /\ \A i \in first..Len(nodes) : i < s.low => nodes[i].key < key
                 /\ \A i \in first..Len(nodes) : i > s.high => key < nodes[i].key
                 /\ s.low <= s.high + 1
                 /\ s.high - s.low + 1 <= Len(nodes) - n

LEMMA HalveNarrows ==
  ASSUME NEW nodes, Len(nodes) \in Nat, NEW key \in Nat, NEW first \in Nat, 1 <= first,
         InOrder(nodes, first), NEW n \in Nat, n < Len(nodes), NEW s, Narrowed(s, nodes, key, first, n)
  PROVE  Narrowed(Halve(s, nodes, key), nodes, key, first, n + 1)
<1> DEFINE i == (s.low + s.high) \div 2
           h == Halve(s, nodes, key)
<1>1. CASE s.exact \/ s.low > s.high
  <2>1. h = s
    BY <1>1 DEF Halve
  <2>2. s.low \in Int /\ s.high \in Int
    BY DEF Narrowed
  <2>3. ~s.exact => s.high - s.low + 1 <= Len(nodes) - (n + 1)
    BY <1>1, <2>2
  <2> QED
    BY <2>1, <2>3 DEF Narrowed
<1>2. CASE ~s.exact /\ ~(s.low > s.high)
  <2>1. /\ i \in first..Len(nodes) /\ s.low <= i /\ i <= s.high
        /\ s.low \in Nat /\ s.high \in Nat /\ i \in Nat
    BY <1>2 DEF Narrowed
  <2>2. nodes[i].key \in Nat
    BY <2>1 DEF InOrder
  <2>3. CASE nodes[i].key = key
    <3>1. h = [s EXCEPT !.low = i, !.exact = TRUE]
      BY <1>2, <2>3 DEF Halve
    <3> HIDE DEF h, i
    <3>2. h = [low |-> i, high |-> s.high, exact |-> TRUE]
      BY <3>1 DEF Narrowed
    <3> QED
      BY <2>1, <2>3, <3>2 DEF Narrowed, h
  <2>4. CASE key > nodes[i].key
    <3>1. h = [s EXCEPT !.low = i + 1]
      BY <1>2, <2>2, <2>4 DEF Halve
    <3> HIDE DEF h, i
    <3>2. h = [low |-> i + 1, high |-> s.high, exact |-> FALSE]
      BY <1>2, <3>1 DEF Narrowed
    <3>3. \A j \in first..Len(nodes) : j < i + 1 => nodes[j].key < key
      <4>1. ASSUME NEW j \in first..Len(nodes), j < i + 1 PROVE nodes[j].key < key
        <5>1. j = i \/ (j < i /\ nodes[j].key < nodes[i].key)
          BY <2>1, <4>1 DEF InOrder
        <5>2. nodes[j].key \in Nat
          BY DEF InOrder
        <5> QED
          BY <2>2, <2>4, <5>1, <5>2
      <4> QED
        BY <4>1
    <3>4. /\ i + 1 \in first..Len(nodes) + 1 /\ i + 1 <= s.high + 1
          /\ s.high - (i + 1) + 1 <= Len(nodes) - (n + 1)
      BY <1>2, <2>1 DEF Narrowed
    <3> QED
      BY <1>2, <3>2, <3>3, <3>4 DEF Narrowed, h
  <2>5. CASE key < nodes[i].key
    <3>1. h = [s EXCEPT !.high = i - 1]
      BY <1>2, <2>2, <2>5 DEF Halve
    <3> HIDE DEF h, i
    <3>2. h = [low |-> s.low, high |-> i - 1, exact |-> FALSE]
      BY <1>2, <3>1 DEF Narrowed
    <3>3. \A j \in first..Len(nodes) : j > i - 1 => key < nodes[j].key
      <4>1. ASSUME NEW j \in first..Len(nodes), j > i - 1 PROVE key < nodes[j].key
        <5>1. j = i \/ (i < j /\ nodes[i].key < nodes[j].key)
          BY <2>1, <4>1 DEF InOrder
        <5>2. nodes[j].key \in Nat
          BY DEF InOrder
        <5> QED
          BY <2>2, <2>5, <5>1, <5>2
      <4> QED
        BY <4>1
    <3>4. /\ i - 1 \in first - 1..Len(nodes) /\ s.low <= i - 1 + 1
          /\ i - 1 - s.low + 1 <= Len(nodes) - (n + 1)
      BY <1>2, <2>1 DEF Narrowed
    <3> QED
      BY <1>2, <3>2, <3>3, <3>4 DEF Narrowed, h
  <2> QED
    BY <2>2, <2>3, <2>4, <2>5
<1> QED
  BY <1>1, <1>2

HalveSteps(f, nodes, key, start, m) ==
  f = [n \in 0..m |-> IF n = 0 THEN start ELSE Halve(f[n - 1], nodes, key)]

LEMMA HalveStepsExist ==
  ASSUME NEW N \in Nat, NEW nodes, NEW key, NEW start
  PROVE  \E f : HalveSteps(f, nodes, key, start, N)
<1> DEFINE Good(m) == \E f : HalveSteps(f, nodes, key, start, m)
           Bad == {m \in 0..N : ~Good(m)}
<1>1. Good(0)
  <2>1. HalveSteps([n \in 0..0 |-> start], nodes, key, start, 0)
    BY DEF HalveSteps
  <2> QED
    BY <2>1
<1>2. ASSUME NEW m \in 1..N, Good(m - 1) PROVE Good(m)
  <2>1. PICK f : HalveSteps(f, nodes, key, start, m - 1)
    BY <1>2
  <2> DEFINE g == [n \in 0..m |-> IF n = m THEN Halve(f[m - 1], nodes, key) ELSE f[n]]
  <2>2. ASSUME NEW n \in 0..m
        PROVE  g[n] = IF n = 0 THEN start ELSE Halve(g[n - 1], nodes, key)
    <3>1. CASE n = m
      <4>1. m - 1 \in 0..m /\ m - 1 # m /\ m # 0
        OBVIOUS
      <4> QED
        BY <3>1, <4>1
    <3>2. CASE n # m
      <4>1. n \in 0..m - 1 /\ (n # 0 => n - 1 \in 0..m /\ n - 1 # m)
        BY <3>2
      <4> QED
        BY <2>1, <3>2, <4>1 DEF HalveSteps
    <3> QED
      BY <3>1, <3>2
  <2>3. HalveSteps(g, nodes, key, start, m)
    BY <2>2 DEF HalveSteps
  <2> QED
    BY <2>3
<1> HIDE DEF Good
<1>3. Bad = {}
  <2> SUFFICES ASSUME Bad # {} PROVE FALSE
    OBVIOUS
  <2>1. PICK m \in Bad : \A k \in Bad : m <= k
    <3>1. Bad \in SUBSET Nat /\ Bad # {}
      OBVIOUS
    <3> HIDE DEF Bad
    <3> QED
      BY <3>1, LeastExists
  <2>2. m \in 1..N /\ m - 1 \in 0..N
    BY <1>1
  <2>3. Good(m - 1)
    BY <2>1, <2>2
  <2> QED
    BY <1>2, <2>2, <2>3
<1>4. Good(N)
  BY <1>3
<1> QED
  BY <1>4 DEF Good

(* The search stops at the first node that is not below the key             *)
(* (mdb_node_search).                                                       *)
THEOREM NodeSearchFinds ==
  ASSUME NEW nodes, Len(nodes) \in Nat, NEW key \in Nat, NEW first \in Nat,
         1 <= first, first <= Len(nodes) + 1, InOrder(nodes, first)
  PROVE  /\ NodeSearch(nodes, key, first).i \in first..Len(nodes) + 1
         /\ \A j \in first..Len(nodes) :
              nodes[j].key < key <=> j < NodeSearch(nodes, key, first).i
         /\ NodeSearch(nodes, key, first).exact
              <=> \E j \in first..Len(nodes) : nodes[j].key = key
         /\ NodeSearch(nodes, key, first).exact
              => /\ NodeSearch(nodes, key, first).i <= Len(nodes)
                 /\ nodes[NodeSearch(nodes, key, first).i].key = key
<1> DEFINE N == Len(nodes)
           start == [low |-> first, high |-> N, exact |-> FALSE]
           F == CHOOSE f : HalveSteps(f, nodes, key, start, N)
           Bad == {n \in 0..N : ~Narrowed(F[n], nodes, key, first, n)}
           s == F[N]
           r == NodeSearch(nodes, key, first)
<1>1. HalveSteps(F, nodes, key, start, N)
  BY HalveStepsExist
<1>2. r = [i |-> s.low, exact |-> s.exact]
  BY DEF NodeSearch, HalveSteps
<1> HIDE DEF F, start
<1>3. F[0] = start /\ \A n \in 1..N : F[n] = Halve(F[n - 1], nodes, key)
  BY <1>1 DEF HalveSteps
<1> USE DEF start
<1>4. Narrowed(F[0], nodes, key, first, 0)
  BY <1>3 DEF Narrowed, InOrder
<1> HIDE DEF start
<1>5. Bad = {}
  <2> SUFFICES ASSUME Bad # {} PROVE FALSE
    OBVIOUS
  <2>1. PICK m \in Bad : \A k \in Bad : m <= k
    <3>1. Bad \in SUBSET Nat /\ Bad # {}
      OBVIOUS
    <3> HIDE DEF Bad
    <3> QED
      BY <3>1, LeastExists
  <2>2. m \in 1..N /\ m - 1 \in 0..N /\ m - 1 \in Nat /\ ~(m <= m - 1) /\ m - 1 + 1 = m /\ m - 1 < N
    BY <1>4
  <2>3. Narrowed(F[m - 1], nodes, key, first, m - 1)
    BY <2>1, <2>2
  <2>4. Narrowed(Halve(F[m - 1], nodes, key), nodes, key, first, m - 1 + 1)
    BY <2>2, <2>3, HalveNarrows
  <2> QED
    BY <1>3, <2>2, <2>4
<1>6. Narrowed(s, nodes, key, first, N)
  BY <1>5
<1> HIDE DEF s, r
<1>7. r.i = s.low /\ r.exact = s.exact
  BY <1>2
<1>8. s.low \in first..N + 1 /\ s.high \in first - 1..N /\ s.exact \in BOOLEAN
  BY <1>6 DEF Narrowed
<1>9. CASE s.exact
  <2>1. s.low \in first..N /\ nodes[s.low].key = key
    BY <1>6, <1>8, <1>9 DEF Narrowed
  <2>2. ASSUME NEW j \in first..N PROVE nodes[j].key < key <=> j < s.low
    <3>1. j < s.low => nodes[j].key < nodes[s.low].key
      BY <2>1 DEF InOrder
    <3>2. s.low < j => nodes[s.low].key < nodes[j].key
      BY <2>1 DEF InOrder
    <3>3. nodes[j].key \in Nat /\ s.low \in Nat
      BY <2>1 DEF InOrder
    <3> QED
      BY <2>1, <3>1, <3>2, <3>3
  <2> QED
    BY <1>7, <1>8, <1>9, <2>1, <2>2 DEF r
<1>10. CASE ~s.exact
  <2>1. s.low = s.high + 1
    BY <1>6, <1>8, <1>10 DEF Narrowed
  <2>2. ASSUME NEW j \in first..N
        PROVE  /\ nodes[j].key < key <=> j < s.low
               /\ nodes[j].key # key
    <3>1. /\ j < s.low => nodes[j].key < key
          /\ j > s.high => key < nodes[j].key
          /\ nodes[j].key \in Nat
      BY <1>6, <1>10 DEF Narrowed, InOrder
    <3> QED
      BY <1>8, <2>1, <3>1
  <2> QED
    BY <1>7, <1>8, <1>10, <2>2 DEF r
<1> QED
  BY <1>8, <1>9, <1>10

-----------------------------------------------------------------------------
(* Where a page is split.                                                   *)
LEMMA GreatestExists ==
  ASSUME NEW n \in Nat, NEW S \in SUBSET (0..n), S # {}
  PROVE  \E x \in S : \A y \in S : y <= x
<1> DEFINE R == {k \in 0..n : n - k \in S}
<1>1. R \in SUBSET Nat
  OBVIOUS
<1>5. R # {}
  <2>1. PICK x \in S : TRUE
    OBVIOUS
  <2>2. n - x \in 0..n /\ n - (n - x) = x
    OBVIOUS
  <2>3. n - x \in R
    BY <2>2
  <2> QED
    BY <2>3
<1> HIDE DEF R
<1>2. PICK k \in R : \A j \in R : k <= j
  BY <1>1, <1>5, LeastExists
<1>3. n - k \in S /\ k \in 0..n
  BY DEF R
<1>4. ASSUME NEW y \in S PROVE y <= n - k
  <2>1. n - y \in 0..n /\ n - (n - y) = y
    OBVIOUS
  <2>2. n - y \in R
    BY <2>1 DEF R
  <2> QED
    BY <1>2, <1>3, <2>2
<1> QED
  BY <1>3, <1>4

LEMMA SizeUpTo ==
  ASSUME NEW kind, NEW s, Sized(kind, s), NEW f, SizeSums(f, kind, s), NEW m \in 0..Len(s)
  PROVE  /\ SizeOf(kind, SubSeq(s, 1, m)) = f[m]
         /\ SizeOf(kind, SubSeq(s, m + 1, Len(s))) = f[Len(s)] - f[m]
<1> DEFINE A == SubSeq(s, 1, m)
<1>1. IsSeq(s) /\ Len(s) \in Nat /\ m \in Nat
  BY DEF Sized, IsSeq
<1>2. IsSeq(A) /\ Len(A) = m /\ \A i \in 1..m : A[i] = s[i]
  <2>1. IsSeq(A) /\ Len(A) = m - 1 + 1 /\ \A i \in 1..m - 1 + 1 : A[i] = s[1 + i - 1]
    BY <1>1, SeqPart
  <2>2. m - 1 + 1 = m /\ \A i \in 1..m : 1 + i - 1 = i
    BY <1>1
  <2> QED
    BY <2>1, <2>2
<1>3. /\ Sized(kind, A) /\ Sized(kind, SubSeq(s, m + 1, Len(s)))
      /\ SizeOf(kind, s) = SizeOf(kind, A) + SizeOf(kind, SubSeq(s, m + 1, Len(s)))
  BY SizeOfCut
<1> HIDE DEF A
<1>4. PICK g : SizeSums(g, kind, A)
  BY <1>3, SizeSteps
<1>5. SameSteps(f, g, m)
  <2>1. ASSUME NEW n \in 1..m, f[n - 1] = g[n - 1] PROVE f[n] = g[n]
    <3>1. n \in 1..Len(s)
      BY <1>1
    <3> QED
      BY <1>2, <1>4, <2>1, <3>1 DEF SizeSums
  <2> QED
    BY <1>4, <2>1 DEF SameSteps, SizeSums
<1>6. SizeOf(kind, A) = f[m]
  <2>1. f[m] = g[m]
    BY <1>1, <1>5, RecursionUnique
  <2> QED
    BY <1>2, <1>4, <2>1 DEF SizeSums
<1>7. SizeOf(kind, s) = f[Len(s)] /\ f[m] \in Nat /\ f[Len(s)] \in Nat
  BY <1>1 DEF SizeSums
<1>8. SizeOf(kind, SubSeq(s, m + 1, Len(s))) \in Nat
  BY <1>3, SizeInNat
<1> QED
  BY <1>3, <1>6, <1>7, <1>8 DEF A

LEMMA SizesGrow ==
  ASSUME NEW kind, NEW s, Sized(kind, s), NEW f, SizeSums(f, kind, s), NEW i \in 0..Len(s)
  PROVE  \A j \in i..Len(s) : f[i] <= f[j]
<1> DEFINE Bad == {j \in i..Len(s) : ~(f[i] <= f[j])}
<1>1. Len(s) \in Nat /\ \A j \in 0..Len(s) : f[j] \in Nat
  BY DEF Sized, IsSeq, SizeSums
<1>2. Bad = {}
  <2> SUFFICES ASSUME Bad # {} PROVE FALSE
    OBVIOUS
  <2>1. PICK m \in Bad : \A k \in Bad : m <= k
    <3>1. Bad \in SUBSET Nat /\ Bad # {}
      BY <1>1
    <3> HIDE DEF Bad
    <3> QED
      BY <3>1, LeastExists
  <2>2. m # i
    BY <1>1
  <2>3. m - 1 \in i..Len(s) /\ ~(m <= m - 1) /\ m \in 1..Len(s)
    BY <1>1, <2>2
  <2>4. f[i] <= f[m - 1]
    BY <2>1, <2>3
  <2>5. f[m] = f[m - 1] + NodeSize(kind, s[m]) /\ NodeSize(kind, s[m]) \in Nat
    BY <2>3 DEF SizeSums, Sized
  <2>6. f[m - 1] \in Nat /\ f[i] \in Nat
    BY <1>1, <2>3
  <2>7. f[i] <= f[m]
    BY <2>4, <2>5, <2>6
  <2> QED
    BY <2>7
<1> QED
  BY <1>2

(* A node of a leaf page or of a branch page.                               *)
GoodNode(kind, e) ==
  /\ e = [key |-> e.key, data |-> e.data, page |-> e.page]
  /\ kind = "branch" => e.key \in Keys \cup {NullKey}
  /\ kind = "leaf" => e.key \in Keys /\ (e.page # NoPage \/ e.data \in Data)
GoodNodes(kind, s) == IsSeq(s) /\ \A i \in 1..Len(s) : GoodNode(kind, s[i])

LEMMA NodeMaxHalf == NodeMax \in Nat /\ 2 <= NodeMax /\ 2 * NodeMax <= Cap /\ Cap \in Nat
<1>1. Cap \in Nat /\ 2 <= NodeMax
  BY SizesAssumption DEF NodeHeader, PageRef
<1> QED
  BY <1>1 DEF NodeMax

LEMMA GoodSize ==
  ASSUME NEW kind \in {"leaf", "branch"}, NEW e, GoodNode(kind, e)
  PROVE  /\ NodeSize(kind, e) \in Nat
         /\ 1 <= NodeSize(kind, e) /\ NodeSize(kind, e) <= NodeMax
         /\ kind = "branch" => NodeSize(kind, e) + 1 <= NodeMax
         /\ kind = "branch" /\ e.key = NullKey => NodeSize(kind, e) = 1
         /\ e.key \in Keys \cup {NullKey} /\ KeyLen(e.key) \in Nat
         /\ kind = "branch" => NodeSize(kind, e) = 1 + KeyLen(e.key)
<1>0. NodeMax \in Nat /\ 2 <= NodeMax /\ Cap \in Nat
  BY NodeMaxHalf
<1>1. ASSUME NEW key \in Keys \cup {NullKey}
      PROVE  /\ KeyLen(key) \in Nat /\ 1 + KeyLen(key) + 1 <= NodeMax
             /\ key = NullKey => KeyLen(key) = 0
  BY <1>0, SizesAssumption DEF KeyLen, NodeHeader, PageRef, NullKey
<1>2. e.key \in Keys \cup {NullKey}
  BY DEF GoodNode
<1>3. KeyLen(e.key) \in Nat /\ 1 + KeyLen(e.key) + 1 <= NodeMax
  BY <1>1, <1>2
<1>4. CASE kind = "branch"
  <2>1. NodeSize(kind, e) = 1 + KeyLen(e.key)
    BY <1>4 DEF NodeSize, BranchSize, NodeHeader
  <2> QED
    BY <1>0, <1>1, <1>2, <1>3, <1>4, <2>1
<1>5. CASE kind = "leaf"
  <2>1. NodeSize(kind, e) = 1 + KeyLen(e.key) + (IF IsBig(e) THEN 1 ELSE DataSize[e.data])
    BY <1>5 DEF NodeSize, LeafSize, NodeHeader, PageRef
  <2>2. CASE IsBig(e)
    BY <1>0, <1>2, <1>3, <1>5, <2>1, <2>2
  <2>3. CASE ~IsBig(e)
    <3>1. e.page = NoPage /\ ~(1 + KeyLen(e.key) + DataSize[e.data] > NodeMax)
      BY <2>3 DEF IsBig, NodeHeader
    <3>2. DataSize[e.data] \in Nat
      BY <1>5, <3>1, SizesAssumption DEF GoodNode
    <3> QED
      BY <1>0, <1>2, <1>3, <1>5, <2>1, <2>3, <3>1, <3>2
  <2> QED
    BY <2>2, <2>3
<1> QED
  BY <1>4, <1>5

LEMMA GoodSized ==
  ASSUME NEW kind \in {"leaf", "branch"}, NEW s, GoodNodes(kind, s)
  PROVE  Sized(kind, s)
BY GoodSize DEF GoodNodes, Sized

(* The first key of a branch page is not stored, which makes it smaller.    *)
LEMMA FiledGood ==
  ASSUME NEW kind \in {"leaf", "branch"}, NEW s, GoodNodes(kind, s)
  PROVE  /\ GoodNodes(kind, Filed(kind, s)) /\ Len(Filed(kind, s)) = Len(s)
         /\ \A i \in 1..Len(s) : /\ Filed(kind, s)[i] = IF i = 1 /\ kind = "branch"
                                                         THEN [s[i] EXCEPT !.key = NullKey] ELSE s[i]
                                 /\ Filed(kind, s)[i].page = s[i].page
                                 /\ Filed(kind, s)[i].data = s[i].data
                                 /\ Filed(kind, s)[i].key
                                      = IF i = 1 /\ kind = "branch" THEN NullKey ELSE s[i].key
         /\ SizeOf(kind, Filed(kind, s)) \in Nat
         /\ SizeOf(kind, Filed(kind, s)) <= SizeOf(kind, s)
         /\ kind = "branch" /\ Len(s) >= 1
              => SizeOf(kind, Filed(kind, s)) + NodeSize(kind, s[1]) = SizeOf(kind, s) + 1
<1> DEFINE n == [s[1] EXCEPT !.key = NullKey]
           r == Filed(kind, s)
<1>1. IsSeq(s) /\ Sized(kind, s) /\ Len(s) \in Nat /\ SizeOf(kind, s) \in Nat
  BY GoodSized, SizeInNat DEF GoodNodes, IsSeq
<1>2. CASE kind = "branch" /\ s # <<>>
  <2>1. 1 \in 1..Len(s)
    <3>1. Len(s) # 0
      <4>1. IsSeq(<<>>) /\ Len(<<>>) = 0
        BY DEF IsSeq
      <4> QED
        BY <1>1, <1>2, <4>1, SeqsEqual
    <3> QED
      BY <1>1, <3>1
  <2>2. s[1] = [key |-> s[1].key, data |-> s[1].data, page |-> s[1].page] /\ GoodNode(kind, s[1])
    BY <2>1 DEF GoodNodes, GoodNode
  <2>3. n = [key |-> NullKey, data |-> s[1].data, page |-> s[1].page]
    BY <2>2
  <2> HIDE DEF n
  <2>4. GoodNode(kind, n) /\ n.key = NullKey
    BY <1>2, <2>3 DEF GoodNode
  <2>5. r = [s EXCEPT ![1] = n]
    BY <1>2 DEF Filed, n
  <2> HIDE DEF r
  <2>13. IsSeq(s) /\ 1 \in 1..Len(s)
    BY <1>1, <2>1
  <2>14. r = Replaced(s, 1, n)
    BY <2>5 DEF Replaced
  <2>6. /\ IsSeq(r) /\ Len(r) = Len(s)
        /\ \A i \in 1..Len(s) : r[i] = IF i = 1 THEN n ELSE s[i]
    BY <2>13, <2>14, SeqReplaced
  <2>7. NodeSize(kind, n) = 1 /\ NodeSize(kind, s[1]) \in Nat /\ 1 <= NodeSize(kind, s[1])
    BY <1>2, <2>2, <2>4, GoodSize
  <2>8. Sized(kind, r) /\ SizeOf(kind, r) + NodeSize(kind, s[1]) = SizeOf(kind, s) + 1
    <3>1. Sized(kind, s) /\ 1 \in 1..Len(s) /\ NodeSize(kind, n) \in Nat
      BY <1>1, <2>1, <2>7
    <3>2. /\ Sized(kind, [s EXCEPT ![1] = n])
          /\ SizeOf(kind, [s EXCEPT ![1] = n]) + NodeSize(kind, s[1]) = SizeOf(kind, s) + NodeSize(kind, n)
      BY <3>1, SizeOfReplace
    <3> QED
      BY <2>5, <2>7, <3>2
  <2>9. SizeOf(kind, r) \in Nat
    BY <2>8, SizeInNat
  <2>10. GoodNodes(kind, r)
    BY <2>4, <2>6 DEF GoodNodes
  <2>11. SizeOf(kind, r) <= SizeOf(kind, s)
    BY <1>1, <2>7, <2>8, <2>9
  <2>12. ASSUME NEW i \in 1..Len(s)
         PROVE /\ r[i] = IF i = 1 /\ kind = "branch" THEN n ELSE s[i]
               /\ r[i].page = s[i].page
               /\ r[i].data = s[i].data
               /\ r[i].key = IF i = 1 /\ kind = "branch" THEN NullKey ELSE s[i].key
    <3>1. r[i] = IF i = 1 THEN n ELSE s[i]
      BY <2>6
    <3> QED
      BY <1>2, <2>3, <3>1
  <2> QED
    BY <2>6, <2>8, <2>9, <2>10, <2>11, <2>12 DEF r, n
<1>3. CASE ~(kind = "branch" /\ s # <<>>)
  <2>1. Filed(kind, s) = s
    BY <1>3 DEF Filed
  <2>2. kind = "branch" => Len(s) = 0
    <3>1. Len(<<>>) = 0
      OBVIOUS
    <3> QED
      BY <1>3, <3>1
  <2> QED
    BY <1>1, <2>1, <2>2
<1> QED
  BY <1>2, <1>3

(* A page that is full is split so that both halves fit on a page and each  *)
(* has as many nodes as a page must have, whatever the sizes of the nodes   *)
(* are and wherever the new one goes (mdb_page_split).                      *)
THEOREM SplitFits ==
  ASSUME NEW kind \in {"leaf", "branch"}, NEW all, GoodNodes(kind, all), NEW new \in 1..Len(all),
         SizeOf(kind, all) > Cap, SizeOf(kind, all) - NodeSize(kind, all[new]) <= Cap,
         kind = "branch" => all[1].key = NullKey
  PROVE  /\ SplitIndex(kind, all, new) \in 2..Len(all)
         /\ kind = "branch" => SplitIndex(kind, all, new) \in 3..Len(all) - 1
         /\ SizeOf(kind, Filed(kind, SubSeq(all, 1, SplitIndex(kind, all, new) - 1))) <= Cap
         /\ SizeOf(kind, Filed(kind, SubSeq(all, SplitIndex(kind, all, new), Len(all)))) <= Cap
<1> DEFINE n == Len(all) - 1
           middle == (n + 1) \div 2
           lastUp == IF new > n THEN n ELSE middle + (IF kind = "leaf" THEN 2 ELSE 1)
           Before(i) == SizeOf(kind, SubSeq(all, 1, i))
           After(i) == SizeOf(kind, SubSeq(all, i, n + 1))
           up == {i \in 1..lastUp : Before(i) > Cap \/ i = lastUp}
           down == {i \in middle + 1..n + 1 : After(i) > Cap \/ i = middle + 1}
           T == SizeOf(kind, all)
           Size(i) == NodeSize(kind, all[i])
           s == SplitIndex(kind, all, new)
<1>1. s = IF new <= middle + 1 \/ new > n
          THEN CHOOSE i \in up : \A j \in up : i <= j
          ELSE (CHOOSE i \in down : \A j \in down : i >= j) + 1
  BY DEF SplitIndex
<1> HIDE DEF s
<1>2. NodeMax \in Nat /\ 2 <= NodeMax /\ 2 * NodeMax <= Cap /\ Cap \in Nat
  BY NodeMaxHalf
<1>3. Sized(kind, all) /\ Len(all) \in Nat /\ IsSeq(all)
  BY GoodSized DEF GoodNodes, IsSeq
<1>4. PICK f : SizeSums(f, kind, all)
  BY <1>3, SizeSteps
<1>5. /\ f[0] = 0 /\ T = f[n + 1] /\ \A i \in 0..n + 1 : f[i] \in Nat
      /\ \A i \in 1..n + 1 : f[i] = f[i - 1] + Size(i)
  BY <1>3, <1>4 DEF SizeSums
<1>6. \A i \in 1..n + 1 : Size(i) \in Nat /\ 1 <= Size(i) /\ Size(i) <= NodeMax
  BY <1>3, GoodSize DEF GoodNodes
<1>7. \A i \in 0..n + 1 : Before(i) = f[i] /\ After(i + 1) = T - f[i]
  <2>1. ASSUME NEW i \in 0..n + 1 PROVE Before(i) = f[i] /\ After(i + 1) = T - f[i]
    <3>1. i \in 0..Len(all) /\ n + 1 = Len(all)
      BY <1>3
    <3> QED
      BY <1>3, <1>4, <1>5, <3>1, SizeUpTo
  <2> QED
    BY <2>1
<1>8. \A i, j \in 0..n + 1 : i <= j => f[i] <= f[j]
  <2>1. ASSUME NEW i \in 0..n + 1, NEW j \in 0..n + 1, i <= j PROVE f[i] <= f[j]
    <3>1. i \in 0..Len(all) /\ j \in i..Len(all)
      BY <1>3, <2>1
    <3> QED
      BY <1>3, <1>4, <3>1, SizesGrow
  <2> QED
    BY <2>1
<1> HIDE DEF Before, After, T
<1>9. T > Cap /\ T - Size(new) <= Cap /\ T \in Nat
  BY <1>3, <1>5 DEF T
<1>17. n \in Int /\ n + 1 = Len(all) /\ new \in 1..n + 1
  BY <1>3
<1> HIDE DEF n
<1>10. n \in Nat /\ 2 <= n /\ new \in 1..n + 1
  <2>1. n \in Int /\ n + 1 = Len(all) /\ new \in 1..n + 1
    BY <1>17
  <2>2. n >= 0
    BY <2>1
  <2>3. ASSUME n < 2 PROVE FALSE
    <3>1. n = 0 \/ n = 1
      BY <2>1, <2>2, <2>3
    <3>2. CASE n = 0
      <4>1. n + 1 = 1 /\ 1 \in 1..n + 1 /\ 1 - 1 = 0 /\ new = 1
        BY <2>1, <3>2
      <4>2. T = f[1] /\ f[1] = f[0] + Size(1) /\ Size(1) \in Nat /\ Size(1) <= NodeMax
        BY <1>5, <1>6, <4>1
      <4> QED
        BY <1>2, <1>5, <1>9, <4>2
    <3>3. CASE n = 1
      <4>1. n + 1 = 2 /\ 1 \in 1..n + 1 /\ 2 \in 1..n + 1 /\ 1 - 1 = 0 /\ 2 - 1 = 1
        BY <3>3
      <4>2. T = f[2] /\ f[1] = f[0] + Size(1) /\ f[2] = f[1] + Size(2)
        BY <1>5, <4>1
      <4>3. Size(1) \in Nat /\ Size(1) <= NodeMax /\ Size(2) \in Nat /\ Size(2) <= NodeMax
        BY <1>6, <4>1
      <4> QED
        BY <1>2, <1>5, <1>9, <4>2, <4>3
    <3> QED
      BY <3>1, <3>2, <3>3
  <2> QED
    BY <2>1, <2>2, <2>3
(* A full branch page has three nodes already: three without the key of the *)
(* first would fit.                                                         *)
<1>11. kind = "branch" => 3 <= n
  <2> SUFFICES ASSUME kind = "branch", ~(3 <= n) PROVE FALSE
    OBVIOUS
  <2>0. n = 2
    BY <1>10
  <2>1. /\ n + 1 = 3 /\ 1 \in 1..n + 1 /\ 2 \in 1..n + 1 /\ 3 \in 1..n + 1
        /\ 1 - 1 = 0 /\ 2 - 1 = 1 /\ 3 - 1 = 2
    BY <2>0
  <2>2. f[1] = f[0] + Size(1) /\ f[2] = f[1] + Size(2) /\ f[3] = f[2] + Size(3)
    BY <1>5, <2>1
  <2>3. Size(1) = 1 /\ Size(2) + 1 <= NodeMax /\ Size(3) + 1 <= NodeMax
    <3>1. GoodNode(kind, all[1]) /\ GoodNode(kind, all[2]) /\ GoodNode(kind, all[3])
      BY <1>3, <1>17, <2>1 DEF GoodNodes
    <3> QED
      BY <3>1, GoodSize
  <2>4. Size(2) \in Nat /\ Size(3) \in Nat
    BY <1>6, <2>1
  <2>5. T = 1 + Size(2) + Size(3)
    <3>1. T = f[3] /\ f[0] = 0
      BY <1>5, <2>1
    <3> QED
      BY <2>2, <2>3, <2>4, <3>1
  <2> QED
    BY <1>2, <1>9, <2>3, <2>4, <2>5
<1>12. middle \in Nat /\ 1 <= middle /\ middle + 1 <= n /\ (3 <= n => 2 <= middle)
  BY <1>10
<1>13. 2 <= lastUp /\ lastUp \in 1..n + 1 /\ (kind = "branch" => 3 <= lastUp /\ lastUp <= n)
  BY <1>10, <1>11, <1>12
<1> DEFINE B(i) == Filed(kind, SubSeq(all, 1, i - 1))
           A(i) == Filed(kind, SubSeq(all, i, Len(all)))
(* What is on the two pages, in terms of the sums.                          *)
<1>14. ASSUME NEW i \in 2..n + 1
       PROVE  /\ SizeOf(kind, B(i)) \in Nat /\ SizeOf(kind, B(i)) <= f[i - 1]
              /\ SizeOf(kind, A(i)) \in Nat /\ SizeOf(kind, A(i)) <= T - f[i - 1]
              /\ kind = "branch" => SizeOf(kind, A(i)) + Size(i) = T - f[i - 1] + 1
  <2> DEFINE b == SubSeq(all, 1, i - 1)
             a == SubSeq(all, i, Len(all))
  <2>1. /\ i - 1 \in 0..n + 1 /\ i - 1 + 1 = i /\ n + 1 = Len(all) /\ i - 1 \in Nat /\ i \in Nat
        /\ 1 <= i /\ i <= Len(all) + 1 /\ i - 1 <= Len(all) /\ i \in 1..Len(all)
    BY <1>3, <1>10, <1>17
  <2>2. SizeOf(kind, b) = f[i - 1] /\ SizeOf(kind, a) = T - f[i - 1]
    <3>1. Before(i - 1) = f[i - 1] /\ After(i - 1 + 1) = T - f[i - 1]
      BY <1>7, <2>1
    <3> QED
      BY <2>1, <3>1 DEF Before, After
  <2>3. /\ IsSeq(b) /\ Len(b) = i - 1 - 1 + 1
        /\ \A j \in 1..i - 1 - 1 + 1 : b[j] = all[1 + j - 1]
    BY <1>3, <2>1, SeqPart
  <2>4. /\ IsSeq(a) /\ Len(a) = Len(all) - i + 1
        /\ \A j \in 1..Len(all) - i + 1 : a[j] = all[i + j - 1]
    BY <1>3, <2>1, SeqPart
  <2> HIDE DEF a, b
  <2>5. GoodNodes(kind, b)
    <3>1. ASSUME NEW j \in 1..Len(b) PROVE GoodNode(kind, b[j])
      <4>1. j \in 1..i - 1 - 1 + 1 /\ 1 + j - 1 \in 1..Len(all)
        BY <2>1, <2>3
      <4> QED
        BY <2>3, <4>1 DEF GoodNodes
    <3> QED
      BY <2>3, <3>1 DEF GoodNodes
  <2>6. GoodNodes(kind, a)
    <3>1. ASSUME NEW j \in 1..Len(a) PROVE GoodNode(kind, a[j])
      <4>1. j \in 1..Len(all) - i + 1 /\ i + j - 1 \in 1..Len(all)
        BY <2>1, <2>4
      <4> QED
        BY <2>4, <4>1 DEF GoodNodes
    <3> QED
      BY <2>4, <3>1 DEF GoodNodes
  <2>7. SizeOf(kind, Filed(kind, b)) \in Nat /\ SizeOf(kind, Filed(kind, b)) <= SizeOf(kind, b)
    BY <2>5, FiledGood
  <2>8. /\ SizeOf(kind, Filed(kind, a)) \in Nat /\ SizeOf(kind, Filed(kind, a)) <= SizeOf(kind, a)
        /\ kind = "branch" /\ Len(a) >= 1
             => SizeOf(kind, Filed(kind, a)) + NodeSize(kind, a[1]) = SizeOf(kind, a) + 1
    BY <2>6, FiledGood
  <2>9. Len(a) >= 1 /\ a[1] = all[i]
    <3>1. 1 \in 1..Len(all) - i + 1 /\ i + 1 - 1 = i
      BY <2>1
    <3> QED
      BY <2>4, <3>1
  <2> QED
    BY <2>2, <2>7, <2>8, <2>9 DEF a, b
<1> HIDE DEF A, B
<1> SUFFICES /\ s \in 2..n + 1 /\ (kind = "branch" => s \in 3..n)
             /\ SizeOf(kind, B(s)) <= Cap /\ SizeOf(kind, A(s)) <= Cap
  BY <1>17 DEF A, B, s
<1>15. CASE new <= middle + 1 \/ new > n
  <2>1. \E i \in up : \A j \in up : i <= j
    <3>1. lastUp \in up /\ up \subseteq Nat
      BY <1>13
    <3> HIDE DEF up
    <3> QED
      BY <3>1, LeastExists
  <2>2. s \in up /\ \A j \in up : s <= j
    BY <1>1, <1>15, <2>1
  <2> HIDE DEF lastUp
  <2>3. s \in 1..lastUp /\ s \in Nat /\ s \in 1..n + 1 /\ (f[s] > Cap \/ s = lastUp)
    <3>1. s \in 1..lastUp /\ (Before(s) > Cap \/ s = lastUp)
      BY <2>2
    <3>2. s \in Nat /\ s \in 1..n + 1 /\ s \in 0..n + 1
      BY <1>10, <1>13, <3>1
    <3> QED
      BY <1>7, <3>1, <3>2
  <2>4. f[s - 1] <= Cap
    <3>1. CASE s = 1
      BY <1>2, <1>5, <3>1
    <3>2. CASE s # 1
      <4>1. s - 1 \in 1..lastUp /\ ~(s <= s - 1) /\ s - 1 # lastUp /\ s - 1 \in 0..n + 1
        BY <1>10, <1>13, <2>3, <3>2
      <4>2. ~(Before(s - 1) > Cap)
        BY <2>2, <4>1
      <4>3. ~(f[s - 1] > Cap) /\ f[s - 1] \in Nat
        BY <1>5, <1>7, <4>1, <4>2
      <4> QED
        BY <1>2, <4>3
    <3> QED
      BY <3>1, <3>2
  <2>5. f[1] <= NodeMax /\ f[2] <= 2 * NodeMax /\ f[1] \in Nat /\ f[2] \in Nat
    <3>1. 1 \in 1..n + 1 /\ 2 \in 1..n + 1 /\ 1 - 1 = 0 /\ 2 - 1 = 1
      BY <1>10
    <3>2. f[1] = f[0] + Size(1) /\ f[2] = f[1] + Size(2)
      BY <1>5, <3>1
    <3> QED
      BY <1>2, <1>5, <1>6, <3>1, <3>2
  <2>6. s # 1 /\ (kind = "branch" => s # 2)
    BY <1>2, <1>13, <2>3, <2>5
  <2>7. s \in 2..n + 1 /\ (kind = "branch" => s \in 3..n)
    BY <1>10, <1>13, <2>3, <2>6
  <2>8. SizeOf(kind, B(s)) <= Cap
    <3>1. f[s - 1] \in Nat /\ SizeOf(kind, B(s)) \in Nat /\ SizeOf(kind, B(s)) <= f[s - 1]
      <4>1. s - 1 \in 0..n + 1
        BY <1>10, <2>7
      <4> QED
        BY <1>5, <1>14, <2>7, <4>1
    <3> QED
      BY <1>2, <2>4, <3>1
  <2>9. f[s] = f[s - 1] + Size(s) /\ f[s - 1] \in Nat /\ Size(s) \in Nat /\ 1 <= Size(s) /\ Size(s) <= NodeMax
    <3>1. s - 1 \in 0..n + 1 /\ s \in 1..n + 1
      BY <1>10, <2>7
    <3> QED
      BY <1>5, <1>6, <3>1
  <2>10. SizeOf(kind, A(s)) <= T - f[s - 1] /\ SizeOf(kind, A(s)) \in Nat
    BY <1>14, <2>7
  <2>11. Size(new) \in Nat /\ Size(new) <= NodeMax /\ 1 <= Size(new)
    BY <1>6, <1>10
  <2>12. CASE f[s] > Cap
    <3>1. T <= Cap + Size(new)
      BY <1>2, <1>9, <2>11
    <3>2. T - f[s] <= NodeMax
      BY <1>2, <1>9, <2>9, <2>11, <2>12, <3>1
    <3>3. T - f[s - 1] <= 2 * NodeMax
      BY <1>2, <1>9, <2>9, <3>2
    <3>4. SizeOf(kind, A(s)) <= Cap
      BY <1>2, <1>9, <2>9, <2>10, <3>3
    <3> QED
      BY <2>7, <2>8, <3>4
  <2>13. CASE s = lastUp /\ new > n
    <3>1. s = n /\ n \in 1..n + 1 /\ n + 1 \in 1..n + 1 /\ n + 1 - 1 = n
      BY <1>10, <2>13 DEF lastUp
    <3>2. f[n + 1] = f[n] + Size(n + 1) /\ f[n] = f[n - 1] + Size(n) /\ f[n - 1] \in Nat
      <4>1. n - 1 \in 0..n + 1
        BY <1>10
      <4> QED
        BY <1>5, <3>1, <4>1
    <3>3. T - f[s - 1] <= 2 * NodeMax
      <4>1. Size(n) \in Nat /\ Size(n) <= NodeMax /\ Size(n + 1) \in Nat /\ Size(n + 1) <= NodeMax
        BY <1>6, <3>1
      <4>2. T = f[n + 1]
        BY <1>5
      <4>3. T - f[n - 1] = Size(n) + Size(n + 1)
        BY <3>2, <4>1, <4>2
      <4> QED
        BY <1>2, <3>1, <4>1, <4>3
    <3>4. SizeOf(kind, A(s)) <= Cap
      BY <1>2, <1>9, <2>9, <2>10, <3>3
    <3> QED
      BY <2>7, <2>8, <3>4
  <2>14. CASE s = lastUp /\ ~(new > n)
    <3>0. new \in 1..n /\ new <= middle + 1 /\ s = middle + (IF kind = "leaf" THEN 2 ELSE 1)
      BY <1>10, <1>15, <2>14 DEF lastUp
    <3>1. f[new] = f[new - 1] + Size(new) /\ f[new - 1] \in Nat /\ f[new] \in Nat
      BY <1>5, <1>10
    <3>2. CASE new < s
      <4>1. f[new] <= f[s - 1]
        <5>1. new \in 0..n + 1 /\ s - 1 \in 0..n + 1 /\ new <= s - 1
          BY <1>10, <2>7, <3>2
        <5> QED
          BY <1>8, <5>1
      <4>2. T - f[s - 1] <= Cap
        BY <1>2, <1>9, <2>9, <2>11, <3>1, <4>1
      <4>3. SizeOf(kind, A(s)) <= Cap
        BY <1>2, <1>9, <2>9, <2>10, <4>2
      <4> QED
        BY <2>7, <2>8, <4>3
    (* The new node is the first of a right branch page: it loses its key.  *)
    <3>3. CASE ~(new < s)
      <4>1. kind = "branch" /\ new = s
        BY <1>12, <3>0, <3>3
      <4>2. SizeOf(kind, A(s)) + Size(new) = T - f[s - 1] + 1
        BY <1>14, <2>7, <4>1
      <4>3. 1 <= f[s - 1]
        <5>1. f[1] <= f[s - 1] /\ f[1] = f[0] + Size(1) /\ 1 <= Size(1) /\ Size(1) \in Nat
          <6>1. 1 \in 0..n + 1 /\ 1 \in 1..n + 1 /\ s - 1 \in 0..n + 1 /\ 1 <= s - 1 /\ 1 - 1 = 0
            BY <1>10, <2>7
          <6> QED
            BY <1>5, <1>6, <1>8, <6>1
        <5> QED
          BY <1>5, <2>9, <5>1
      <4>4. SizeOf(kind, A(s)) <= Cap
        BY <1>2, <1>9, <2>9, <2>10, <2>11, <4>2, <4>3
      <4> QED
        BY <2>7, <2>8, <4>4
    <3> QED
      BY <3>2, <3>3
  <2> QED
    BY <2>3, <2>12, <2>13, <2>14
<1>16. CASE ~(new <= middle + 1 \/ new > n)
  <2> DEFINE x == CHOOSE i \in down : \A j \in down : i >= j
  <2>1. \E i \in down : \A j \in down : i >= j
    <3>1. middle + 1 \in down /\ down \subseteq 0..n + 1
      BY <1>10, <1>12
    <3>2. n + 1 \in Nat
      BY <1>10
    <3> HIDE DEF down
    <3>3. \E i \in down : \A j \in down : j <= i
      BY <3>1, <3>2, GreatestExists
    <3>4. \A i, j \in down : j <= i => i >= j
      BY <3>1
    <3> QED
      BY <3>3, <3>4
  <2>2. x \in down /\ \A j \in down : x >= j
    BY <2>1
  <2>3. s = x + 1
    BY <1>1, <1>16
  <2> HIDE DEF x
  <2>4. new \in middle + 2..n /\ x \in middle + 1..n + 1 /\ x \in 1..n + 1 /\ x \in Nat
    BY <1>10, <1>12, <1>16, <2>2
  <2>5. ASSUME NEW i \in 1..n + 1 PROVE After(i) = T - f[i - 1] /\ f[i - 1] \in Nat
    <3>1. i - 1 \in 0..n + 1 /\ i - 1 + 1 = i
      BY <1>10
    <3>2. After(i - 1 + 1) = T - f[i - 1]
      BY <1>7, <3>1
    <3> QED
      BY <1>5, <3>1, <3>2
  <2>6. f[n + 1] = f[n] + Size(n + 1) /\ f[n] = f[n - 1] + Size(n) /\ f[n] \in Nat /\ f[n - 1] \in Nat
        /\ Size(n) <= NodeMax /\ Size(n) \in Nat /\ Size(n + 1) <= NodeMax /\ Size(n + 1) \in Nat
    <3>1. n \in 1..n + 1 /\ n + 1 \in 1..n + 1 /\ n + 1 - 1 = n /\ n \in 0..n + 1 /\ n - 1 \in 0..n + 1
      BY <1>10
    <3>2. f[n + 1] = f[n] + Size(n + 1) /\ f[n] = f[n - 1] + Size(n)
      BY <1>5, <3>1
    <3>3. f[n] \in Nat /\ f[n - 1] \in Nat
      BY <1>5, <3>1
    <3> QED
      BY <1>6, <3>1, <3>2, <3>3
  <2>7. After(x) > Cap \/ x = middle + 1
    BY <2>2
  <2>8. x # n + 1 /\ (x = n => x = middle + 1)
    <3>1. After(n + 1) = T - f[n] /\ After(n) = T - f[n - 1]
      <4>1. n \in 1..n + 1 /\ n + 1 \in 1..n + 1 /\ n + 1 - 1 = n
        BY <1>10
      <4> QED
        BY <2>5, <4>1
    <3>2. ~(After(n + 1) > Cap) /\ ~(After(n) > Cap)
      <4>1. T = f[n + 1] /\ T \in Nat
        BY <1>5, <1>9
      <4>2. T - f[n] = Size(n + 1) /\ T - f[n - 1] = Size(n) + Size(n + 1)
        BY <2>6, <4>1
      <4> QED
        BY <1>2, <2>6, <3>1, <4>2
    <3>3. n + 1 # middle + 1
      BY <1>10, <1>12
    <3> QED
      BY <2>7, <3>2, <3>3, Zenon
  <2>9. s \in 2..n + 1 /\ (kind = "branch" => s \in 3..n) /\ s - 1 = x
    BY <1>10, <1>11, <1>12, <2>3, <2>4, <2>8
  <2>10. Size(new) \in Nat /\ Size(new) <= NodeMax
    BY <1>6, <1>10
  <2>11. f[x] \in Nat /\ f[x] = f[x - 1] + Size(x) /\ Size(x) \in Nat /\ Size(x) <= NodeMax
    BY <1>5, <1>6, <2>4
  <2>12. SizeOf(kind, A(s)) <= Cap
    <3>1. x + 1 \in middle + 1..n + 1 /\ x + 1 # middle + 1 /\ ~(x >= x + 1) /\ x + 1 \in 1..n + 1 /\ x + 1 - 1 = x
      BY <1>10, <1>12, <2>4, <2>8
    <3>2. ~(After(x + 1) > Cap)
      BY <2>2, <3>1
    <3>3. After(x + 1) = T - f[x]
      <4>1. x \in 0..n + 1
        BY <2>4
      <4> QED
        BY <1>7, <4>1
    <3>4. SizeOf(kind, A(s)) <= T - f[x] /\ SizeOf(kind, A(s)) \in Nat
      BY <1>14, <2>9
    <3> QED
      BY <1>2, <1>9, <2>11, <3>2, <3>3, <3>4
  <2>13. f[x] <= Cap
    <3>1. CASE After(x) > Cap
      <4>1. T - f[x - 1] > Cap /\ f[x - 1] \in Nat
        BY <2>4, <2>5, <3>1
      <4> QED
        BY <1>2, <1>9, <2>10, <2>11, <4>1
    <3>2. CASE x = middle + 1
      <4>1. f[x] <= f[new - 1] /\ f[new] <= f[n + 1] /\ f[new] = f[new - 1] + Size(new) /\ f[new - 1] \in Nat
        <5>1. x \in 0..n + 1 /\ new - 1 \in 0..n + 1 /\ x <= new - 1 /\ new \in 0..n + 1 /\ n + 1 \in 0..n + 1
              /\ new <= n + 1 /\ new \in 1..n + 1
          BY <1>10, <1>12, <2>4, <3>2
        <5> QED
          BY <1>5, <1>8, <5>1
      <4> QED
        BY <1>2, <1>5, <1>9, <2>10, <2>11, <4>1
    <3> QED
      BY <2>7, <3>1, <3>2
  <2>14. SizeOf(kind, B(s)) <= Cap
    <3>1. SizeOf(kind, B(s)) \in Nat /\ SizeOf(kind, B(s)) <= f[x]
      BY <1>14, <2>9
    <3> QED
      BY <1>2, <2>11, <2>13, <3>1
  <2> QED
    BY <2>9, <2>12, <2>14
<1> QED
  BY <1>15, <1>16

-----------------------------------------------------------------------------
(* The child that a search follows in a branch page is the last one whose   *)
(* separator is not above the key; the first key is never looked at         *)
(* (mdb_page_search_root).                                                  *)
THEOREM ChildIndexFinds ==
  ASSUME NEW page, Len(page.nodes) \in Nat \ {0}, InOrder(page.nodes, 2), NEW key \in Nat
  PROVE  /\ ChildIndex(page, key) \in 1..Len(page.nodes)
         /\ \A j \in 2..Len(page.nodes) : page.nodes[j].key <= key <=> j <= ChildIndex(page, key)
<1> DEFINE nodes == page.nodes
           found == NodeSearch(nodes, key, 2)
           c == ChildIndex(page, key)
<1>1. Len(nodes) \in Nat /\ 2 <= Len(nodes) + 1 /\ InOrder(nodes, 2)
  OBVIOUS
<1>2. /\ found.i \in 2..Len(nodes) + 1
      /\ \A j \in 2..Len(nodes) : nodes[j].key < key <=> j < found.i
      /\ found.exact <=> \E j \in 2..Len(nodes) : nodes[j].key = key
      /\ found.exact => found.i <= Len(nodes) /\ nodes[found.i].key = key
  BY <1>1, NodeSearchFinds
<1>3. c = IF found.exact THEN found.i ELSE found.i - 1
  BY DEF ChildIndex
<1>4. /\ \A i \in 2..Len(nodes) : nodes[i].key \in Nat
      /\ \A i, j \in 2..Len(nodes) : i < j => nodes[i].key < nodes[j].key
  BY <1>1 DEF InOrder
<1> HIDE DEF nodes, found, c
<1>5. ASSUME NEW j \in 2..Len(nodes) PROVE nodes[j].key <= key <=> j <= c
  <2>1. CASE found.exact
    <3>1. c = found.i /\ found.i \in 2..Len(nodes) /\ nodes[found.i].key = key
      BY <1>1, <1>2, <1>3, <2>1
    <3>2. j < found.i \/ j = found.i \/ found.i < j
      BY <3>1
    <3> QED
      BY <1>1, <1>4, <3>1, <3>2
  <2>2. CASE ~found.exact
    <3>1. nodes[j].key # key /\ nodes[j].key \in Nat
      BY <1>2, <1>4, <2>2
    <3>2. nodes[j].key < key <=> j < found.i
      BY <1>2
    <3> QED
      BY <1>1, <1>2, <1>3, <2>2, <3>1, <3>2
  <2> QED
    BY <2>1, <2>2
<1>6. c \in 1..Len(nodes)
  BY <1>1, <1>2, <1>3
<1> QED
  BY <1>5, <1>6 DEF nodes, c

(* One node takes half a page at most, two a whole one.                     *)
LEMMA SizeOfFew ==
  ASSUME NEW kind \in {"leaf", "branch"}, NEW s, GoodNodes(kind, s)
  PROVE  /\ Len(s) \in Nat /\ SizeOf(kind, s) \in Nat
         /\ Len(s) = 0 => SizeOf(kind, s) = 0
         /\ Len(s) = 1 => SizeOf(kind, s) = NodeSize(kind, s[1])
         /\ Len(s) = 2 => SizeOf(kind, s) = NodeSize(kind, s[1]) + NodeSize(kind, s[2])
<1>1. Sized(kind, s) /\ Len(s) \in Nat /\ SizeOf(kind, s) \in Nat
  BY GoodSized, SizeInNat DEF GoodNodes, IsSeq
<1>2. PICK f : SizeSums(f, kind, s)
  BY <1>1, SizeSteps
<1>3. /\ f[0] = 0 /\ SizeOf(kind, s) = f[Len(s)]
      /\ \A i \in 1..Len(s) : f[i] = f[i - 1] + NodeSize(kind, s[i])
  BY <1>1, <1>2 DEF SizeSums
<1>4. \A i \in 1..Len(s) : NodeSize(kind, s[i]) \in Nat
  BY GoodSize DEF GoodNodes
<1>5. ASSUME Len(s) = 1 PROVE SizeOf(kind, s) = NodeSize(kind, s[1])
  <2>1. 1 \in 1..Len(s) /\ 1 - 1 = 0
    BY <1>5
  <2>2. f[1] = f[0] + NodeSize(kind, s[1]) /\ NodeSize(kind, s[1]) \in Nat
    BY <1>3, <1>4, <2>1
  <2> QED
    BY <1>3, <1>5, <2>2
<1>6. ASSUME Len(s) = 2 PROVE SizeOf(kind, s) = NodeSize(kind, s[1]) + NodeSize(kind, s[2])
  <2>1. 1 \in 1..Len(s) /\ 2 \in 1..Len(s) /\ 1 - 1 = 0 /\ 2 - 1 = 1
    BY <1>6
  <2>2. /\ f[1] = f[0] + NodeSize(kind, s[1]) /\ NodeSize(kind, s[1]) \in Nat
        /\ f[2] = f[1] + NodeSize(kind, s[2]) /\ NodeSize(kind, s[2]) \in Nat
    BY <1>3, <1>4, <2>1
  <2> QED
    BY <1>3, <1>6, <2>2
<1> QED
  BY <1>1, <1>3, <1>5, <1>6

(* Pages that mdb_rebalance does not leave alone, and neighbours that have  *)
(* a node to spare.                                                         *)
Poor(page) == ~(FullEnough(page) /\ Len(page.nodes) >= MinKeys(page))
Rich(page) == FullEnough(page) /\ Len(page.nodes) > MinKeys(page)

(* A leaf page that is not rich takes up half a page at most, one that is   *)
(* poor a quarter; branch pages have two children, or one.                  *)
LEMMA SizeOfPoor ==
  ASSUME NEW kind \in {"leaf", "branch"}, NEW page, page.kind = kind, GoodNodes(kind, page.nodes)
  PROVE  /\ Len(page.nodes) \in Nat /\ SizeOf(kind, page.nodes) \in Nat
         /\ kind = "leaf" /\ Poor(page) => 4 * SizeOf(kind, page.nodes) <= Cap
         /\ kind = "leaf" /\ ~Rich(page) => 2 * SizeOf(kind, page.nodes) <= Cap
         /\ kind = "branch" /\ Poor(page) => Len(page.nodes) <= 1
         /\ kind = "branch" /\ ~Rich(page) => Len(page.nodes) <= 2
         /\ Poor(page) => SizeOf(kind, page.nodes) <= NodeMax
<1> DEFINE size == SizeOf(kind, page.nodes)
           n == Len(page.nodes)
<1>1. NodeMax \in Nat /\ 2 <= NodeMax /\ 2 * NodeMax <= Cap /\ Cap \in Nat
  BY NodeMaxHalf
<1>2. n \in Nat /\ size \in Nat /\ (n = 0 => size = 0)
  BY SizeOfFew
<1>3. ASSUME n = 1 PROVE size <= NodeMax
  <2>1. 1 \in 1..Len(page.nodes)
    BY <1>3
  <2>2. NodeSize(kind, page.nodes[1]) <= NodeMax
    BY <2>1, GoodSize DEF GoodNodes
  <2> QED
    BY <1>3, <2>2, SizeOfFew
<1>4. MinKeys(page) = (IF kind = "branch" THEN 2 ELSE 1)
  BY DEF MinKeys
<1>5. FullEnough(page) <=> kind = "branch" \/ 4 * size >= Cap
  BY DEF FullEnough
<1> HIDE DEF size, n
<1>6. ASSUME kind = "leaf", Poor(page) PROVE 4 * size <= Cap
  <2>1. ~(4 * size >= Cap /\ n >= 1)
    BY <1>4, <1>5, <1>6 DEF Poor, n
  <2> QED
    BY <1>1, <1>2, <2>1
<1>7. ASSUME kind = "leaf", ~Rich(page) PROVE 2 * size <= Cap
  <2>1. ~(4 * size >= Cap /\ n > 1)
    BY <1>4, <1>5, <1>7 DEF Rich, n
  <2>2. n = 0 \/ n = 1 \/ n > 1
    BY <1>2
  <2> QED
    BY <1>1, <1>2, <1>3, <2>1, <2>2
<1>8. ASSUME kind = "branch", Poor(page) PROVE n <= 1
  <2>1. ~(n >= 2)
    BY <1>4, <1>5, <1>8 DEF Poor, n
  <2> QED
    BY <1>2, <2>1
<1>9. ASSUME kind = "branch", ~Rich(page) PROVE n <= 2
  <2>1. ~(n > 2)
    BY <1>4, <1>5, <1>9 DEF Rich, n
  <2> QED
    BY <1>2, <2>1
<1>10. ASSUME Poor(page) PROVE size <= NodeMax
  <2>1. CASE kind = "leaf"
    <3>1. 4 * size <= Cap
      BY <1>6, <1>10, <2>1
    <3>2. NodeMax = Cap \div 2
      BY DEF NodeMax
    <3> QED
      BY <1>1, <1>2, <3>1, <3>2
  <2>2. CASE kind = "branch"
    <3>1. n = 0 \/ n = 1
      BY <1>2, <1>8, <1>10, <2>2
    <3> QED
      BY <1>1, <1>2, <1>3, <3>1
  <2> QED
    BY <2>1, <2>2
<1> QED
  BY <1>2, <1>6, <1>7, <1>8, <1>9, <1>10 DEF size, n

(* A page that gets a node from its neighbour has room for it: the page is  *)
(* poor, and no node takes more than half a page (mdb_rebalance,            *)
(* mdb_node_move).                                                          *)
THEOREM MoveFits ==
  ASSUME NEW kind \in {"leaf", "branch"}, NEW page, page.kind = kind,
         GoodNodes(kind, page.nodes), Poor(page), NEW node, GoodNode(kind, node)
  PROVE  NodeSize(kind, node) <= SizeLeft(page)
<1>1. NodeMax \in Nat /\ 2 * NodeMax <= Cap /\ Cap \in Nat
  BY NodeMaxHalf
<1>2. SizeOf(kind, page.nodes) \in Nat /\ SizeOf(kind, page.nodes) <= NodeMax
  BY SizeOfPoor
<1>3. NodeSize(kind, node) \in Nat /\ NodeSize(kind, node) <= NodeMax
  BY GoodSize
<1> QED
  BY <1>1, <1>2, <1>3 DEF SizeLeft

(* The nodes that mdb_page_merge puts together fit on one page: of the      *)
(* page on the left, which keeps its own, and the one on the right, whose   *)
(* first node gets its key back, one is poor and the other not rich.        *)
THEOREM MergeFits ==
  ASSUME NEW kind \in {"leaf", "branch"}, NEW t, NEW left, NEW right,
         t.pg[left].kind = kind, t.pg[right].kind = kind,
         GoodNodes(kind, t.pg[left].nodes), GoodNodes(kind, t.pg[right].nodes),
         kind = "branch" => /\ t.pg[left].nodes[1].key = NullKey
                            /\ LowestKey(t, right) \in Keys,
         \/ Poor(t.pg[left]) /\ ~Rich(t.pg[right])
         \/ ~Rich(t.pg[left]) /\ Poor(t.pg[right])
  PROVE  SizeOf(kind, t.pg[left].nodes
                        \o [i \in 1..Len(t.pg[right].nodes) |->
                              [t.pg[right].nodes[i] EXCEPT !.key = KeyAt(t, right, i)]]) <= Cap
<1> DEFINE a == t.pg[left].nodes
           b == t.pg[right].nodes
           m == [i \in 1..Len(b) |-> [b[i] EXCEPT !.key = KeyAt(t, right, i)]]
<1>1. NodeMax \in Nat /\ 2 <= NodeMax /\ 2 * NodeMax <= Cap /\ Cap \in Nat
  BY NodeMaxHalf
<1>2. /\ Len(a) \in Nat /\ SizeOf(kind, a) \in Nat
      /\ Len(b) \in Nat /\ SizeOf(kind, b) \in Nat
  BY SizeOfPoor
<1>3. ASSUME NEW i \in 1..Len(b)
      PROVE  /\ GoodNode(kind, m[i])
             /\ kind = "leaf" => m[i] = b[i]
  <2>1. GoodNode(kind, b[i])
    BY DEF GoodNodes
  <2>2. b[i] = [key |-> b[i].key, data |-> b[i].data, page |-> b[i].page]
    BY <2>1 DEF GoodNode
  <2>3. m[i] = [b[i] EXCEPT !.key = KeyAt(t, right, i)]
    OBVIOUS
  <2>4. m[i] = [key |-> KeyAt(t, right, i), data |-> b[i].data, page |-> b[i].page]
    BY <2>2, <2>3
  <2>5. kind = "leaf" => KeyAt(t, right, i) = b[i].key
    BY DEF KeyAt
  <2>6. kind = "branch" => KeyAt(t, right, i) \in Keys \cup {NullKey}
    BY <2>1 DEF KeyAt, GoodNode
  <2> HIDE DEF m
  <2>7. CASE kind = "leaf"
    BY <2>1, <2>2, <2>4, <2>5, <2>7
  <2>8. CASE kind = "branch"
    BY <2>4, <2>6, <2>8 DEF GoodNode
  <2> QED
    BY <2>7, <2>8
<1>4. IsSeq(m) /\ Len(m) = Len(b)
  <2> DEFINE R == {m[i] : i \in 1..Len(b)}
  <2>1. m \in [1..Len(b) -> R]
    OBVIOUS
  <2> HIDE DEF m, R, b
  <2>2. m \in Seq(R) /\ Len(m) = Len(b)
    BY <1>2, <2>1
  <2> QED
    BY <2>2, SeqIsSeq
<1>5. GoodNodes(kind, m)
  BY <1>3, <1>4 DEF GoodNodes
<1>6. IsSeq(b) /\ IsSeq(a)
  BY DEF GoodNodes
<1>7. \A i \in 1..Len(a) : /\ NodeSize(kind, a[i]) \in Nat
                           /\ NodeSize(kind, a[i]) <= NodeMax
                           /\ kind = "branch" => NodeSize(kind, a[i]) + 1 <= NodeMax
  BY GoodSize DEF GoodNodes
<1>8. \A i \in 1..Len(b) : /\ NodeSize(kind, m[i]) \in Nat
                           /\ NodeSize(kind, m[i]) <= NodeMax
                           /\ kind = "branch" => NodeSize(kind, m[i]) + 1 <= NodeMax
  BY <1>3, GoodSize
<1>9. kind = "leaf" => m = b
  BY <1>3, <1>4, <1>6, SeqsEqual
<1>10. /\ SizeOf(kind, m) \in Nat
       /\ SizeOf(kind, a \o m) = SizeOf(kind, a) + SizeOf(kind, m)
  <2>1. Sized(kind, a) /\ Sized(kind, m)
    BY <1>5, GoodSized
  <2> HIDE DEF a, m
  <2> QED
    BY <2>1, SizeOfConcat, SizeInNat
<1>11. CASE kind = "leaf"
  <2>1. 2 * SizeOf(kind, a) <= Cap /\ 2 * SizeOf(kind, b) <= Cap
    <3>1. ASSUME NEW page, page.kind = kind, GoodNodes(kind, page.nodes), Poor(page) \/ ~Rich(page)
          PROVE  2 * SizeOf(kind, page.nodes) <= Cap
      <4>1. SizeOf(kind, page.nodes) \in Nat
        BY <3>1, SizeOfPoor
      <4>2. CASE Poor(page)
        <5>1. 4 * SizeOf(kind, page.nodes) <= Cap
          BY <1>11, <3>1, <4>2, SizeOfPoor
        <5> QED
          BY <1>1, <4>1, <5>1
      <4>3. CASE ~Rich(page)
        BY <1>11, <3>1, <4>3, SizeOfPoor
      <4> QED
        BY <3>1, <4>2, <4>3
    <3> QED
      BY <3>1
  <2>2. SizeOf(kind, m) = SizeOf(kind, b)
    BY <1>9, <1>11
  <2>3. SizeOf(kind, a \o m) <= Cap
    <3> HIDE DEF a, b, m
    <3> QED
      BY <1>1, <1>2, <1>10, <2>1, <2>2
  <2> QED
    BY <2>3
<1>12. CASE kind = "branch"
  <2>1. (Len(a) <= 1 /\ Len(b) <= 2) \/ (Len(a) <= 2 /\ Len(b) <= 1)
    BY <1>12, SizeOfPoor
  <2>2. \A p, q \in Nat : (p <= 1 /\ q <= 2) \/ (p <= 2 /\ q <= 1)
          => p \in {0, 1, 2} /\ q \in {0, 1, 2} /\ (p # 2 \/ q # 2)
    OBVIOUS
  <2>3. Len(a) \in {0, 1, 2} /\ Len(b) \in {0, 1, 2} /\ (Len(a) # 2 \/ Len(b) # 2)
    BY <1>2, <2>1, <2>2, Zenon
  <2>4. Len(a) # 0 => 1 \in 1..Len(a) /\ GoodNode(kind, a[1]) /\ a[1].key = NullKey
    BY <1>2, <1>12 DEF GoodNodes
  <2>5. Len(a) # 0 => NodeSize(kind, a[1]) = 1
    BY <1>12, <2>4, GoodSize
  <2>6. SizeOf(kind, a) <= 1 + (IF Len(a) = 2 THEN NodeMax - 1 ELSE 0)
    <3>1. Len(a) = 0 \/ Len(a) = 1 \/ Len(a) = 2
      BY <2>3
    <3>2. CASE Len(a) = 0
      BY <1>1, <3>2, SizeOfFew
    <3>3. CASE Len(a) = 1
      BY <1>1, <2>5, <3>3, SizeOfFew
    <3>4. CASE Len(a) = 2
      <4>1. 2 \in 1..Len(a)
        BY <3>4
      <4>2. NodeSize(kind, a[2]) \in Nat /\ NodeSize(kind, a[2]) + 1 <= NodeMax
        BY <1>7, <1>12, <4>1
      <4>3. SizeOf(kind, a) = NodeSize(kind, a[1]) + NodeSize(kind, a[2])
        BY <3>4, SizeOfFew
      <4>4. NodeSize(kind, a[1]) = 1
        BY <2>5, <3>4
      <4> HIDE DEF a
      <4> QED
        BY <1>1, <3>4, <4>2, <4>3, <4>4
    <3> QED
      BY <3>1, <3>2, <3>3, <3>4
  <2>7. SizeOf(kind, m) <= (IF Len(b) = 2 THEN 2 * (NodeMax - 1) ELSE NodeMax - 1)
    <3>1. Len(b) = 0 \/ Len(b) = 1 \/ Len(b) = 2
      BY <2>3
    <3>2. CASE Len(b) = 0
      BY <1>1, <1>4, <1>5, <3>2, SizeOfFew
    <3>3. CASE Len(b) = 1
      <4>1. 1 \in 1..Len(b) /\ SizeOf(kind, m) = NodeSize(kind, m[1])
        BY <1>4, <1>5, <3>3, SizeOfFew
      <4>2. NodeSize(kind, m[1]) \in Nat /\ NodeSize(kind, m[1]) + 1 <= NodeMax
        BY <1>8, <1>12, <4>1
      <4> HIDE DEF m, b
      <4> QED
        BY <1>1, <3>3, <4>1, <4>2
    <3>4. CASE Len(b) = 2
      <4>1. 1 \in 1..Len(b) /\ 2 \in 1..Len(b)
        BY <3>4
      <4>2. SizeOf(kind, m) = NodeSize(kind, m[1]) + NodeSize(kind, m[2])
        BY <1>4, <1>5, <3>4, SizeOfFew
      <4>3. /\ NodeSize(kind, m[1]) \in Nat /\ NodeSize(kind, m[1]) + 1 <= NodeMax
            /\ NodeSize(kind, m[2]) \in Nat /\ NodeSize(kind, m[2]) + 1 <= NodeMax
        BY <1>8, <1>12, <4>1
      <4> HIDE DEF m, b
      <4> QED
        BY <1>1, <3>4, <4>2, <4>3
    <3> QED
      BY <3>1, <3>2, <3>3, <3>4
  <2>8. SizeOf(kind, a \o m) <= Cap
    <3> HIDE DEF a, b, m
    <3>1. CASE Len(a) # 2
      <4>1. SizeOf(kind, a) <= 1 /\ SizeOf(kind, m) <= 2 * (NodeMax - 1)
        BY <1>1, <1>2, <1>10, <2>6, <2>7, <3>1
      <4> QED
        BY <1>1, <1>2, <1>10, <4>1
    <3>2. CASE Len(b) # 2
      <4>1. SizeOf(kind, a) <= NodeMax /\ SizeOf(kind, m) <= NodeMax - 1
        BY <1>1, <1>2, <1>10, <2>6, <2>7, <3>2
      <4> QED
        BY <1>1, <1>2, <1>10, <4>1
    <3> QED
      BY <2>3, <3>1, <3>2
  <2> QED
    BY <2>8
<1> QED
  BY <1>11, <1>12
=============================================================================
