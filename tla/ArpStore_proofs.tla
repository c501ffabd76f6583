--------------------------- MODULE ArpStore_proofs ---------------------------
(***************************************************************************)
(* Proofs about ArpStore and the LmdbTxn it is built on, for any number of *)
(* processes, pages, reader slots, transactions, lines and faults.         *)
(*                                                                         *)
(* First, the operators of LmdbTxn: how a write transaction gets its       *)
(* pages, and what it leaves in the free list.  Every page of the file is  *)
(* always in one of five places, and Ledger says so: a root of the meta    *)
(* page m the transaction started from, a new root of its own, me_pghead,  *)
(* a record of the list B that it has not taken over yet, or, in between,  *)
(* its hand.                                                               *)
(*                                                                         *)
(* Then the processes.  What the file holds rests on who may write it:     *)
(* IInv says which process stands where in the library (OneWriter), how    *)
(* the two meta pages take turns (MetasTakeTurns), that the newest one     *)
(* refers to pages that are on the disk and accounts for all of them       *)
(* (NewestIsGood), and that the transaction in progress keeps its pages    *)
(* apart from those (WriterIsGood).                                        *)
(***************************************************************************)
EXTENDS ArpStore, WellFoundedInduction, TLAPS


(* Functions from a part of K to V.                                        *)
Partial(K, V) == UNION {[D -> V] : D \in SUBSET K}

Lists == Partial(Nat, SUBSET Nat)
Contents(Tables) == [data : Tables, idl : Lists]
Meta == [txnid : Nat, main : Nat, free : Nat, last : Nat]
WriteTxn(Tables) ==
  [txnid : Nat, main : Nat, free : Nat, next : Nat, freed : SUBSET Nat,
   pghead : SUBSET Nat, pglast : Nat, pgoldest : Nat,
   dirty : Partial(Nat, Contents(Tables)), error : BOOLEAN]

Roots(m) == {m.main, m.free} \ {NoPage}

(* The roots that are not those of m.                                      *)
Own(t, m) == {t.main, t.free} \ {NoPage, m.main, m.free}

(* The pages in the records of B after the one numbered n.                 *)
After(B, n) == UNION {B[id] : id \in {i \in DOMAIN B : i > n}}

(* A free list of a file whose last page is last and whose trees have      *)
(* these roots, written by transaction number n or before.                 *)
GoodList(B, roots, last, n) ==
  /\ B \in Lists
  /\ DOMAIN B \subseteq 1..n
  /\ roots \cup UNION {B[id] : id \in DOMAIN B} = 2..last
  /\ \A id \in DOMAIN B :
       /\ B[id] \cap roots = {}
       /\ \A other \in DOMAIN B \ {id} : B[id] \cap B[other] = {}

GoodMeta(m, B) ==
  /\ m \in Meta
  /\ m.last > 0
  /\ m.main = m.free => m.main = NoPage
  /\ GoodList(B, Roots(m), m.last, m.txnid)

(* Nothing is in two places, and nothing is nowhere.                       *)
Ledger(t, m, B, hand) ==
  /\ Own(t, m) \cup hand \cup t.pghead \cup Roots(m) \cup After(B, t.pglast) = 2..t.next - 1
  /\ Own(t, m) \cap (hand \cup t.pghead \cup After(B, t.pglast)) = {}
  /\ hand \cap (t.pghead \cup Roots(m) \cup After(B, t.pglast)) = {}
  /\ t.pghead \cap (Roots(m) \cup After(B, t.pglast)) = {}

(* The transaction started from m, and from the list B that m refers to.   *)
Started(t, m, B) ==
  /\ t.txnid = m.txnid + 1
  /\ t.next > m.last /\ t.next <= MaxPg
  /\ t.freed = Roots(m) \ {t.main, t.free}
  /\ t.main = t.free => t.main = NoPage
  /\ t.main \in {m.main} \cup Own(t, m)
  /\ t.free \in {m.free} \cup Own(t, m)
  /\ t.pglast \in {0} \cup DOMAIN B
  /\ t.pghead # {} => t.pglast # 0

(* The books of a transaction that is writing.                             *)
Books(Tables, t, m, B) ==
  /\ t \in WriteTxn(Tables)
  /\ Started(t, m, B)
  /\ Ledger(t, m, B, {})
  /\ DOMAIN t.dirty = Own(t, m)

(* What the transaction finds under root g.                                *)
ContentOf(t, g) == IF g = NoPage THEN EmptyPage ELSE PageOf(t, g)

(* A transaction that has put page, with this content, under a root of m.  *)
Moved(v, tree, m, page, c) ==
  [v EXCEPT ![tree] = page,
            !.freed = @ \cup ({m[tree]} \ {NoPage}),
            !.dirty = With(@, page, c)]

(* Page g of those it is writing with another content.                     *)
WithDirty(t, g, c) == [t EXCEPT !.dirty[g] = c]

Pages(L) == UNION {L[id] : id \in DOMAIN L}
Apart(L) == \A id \in DOMAIN L : \A other \in DOMAIN L \ {id} : L[id] \cap L[other] = {}

-----------------------------------------------------------------------------
LEMMA PartialDef ==
  ASSUME NEW K, NEW V, NEW f
  PROVE  f \in Partial(K, V) <=> DOMAIN f \in SUBSET K /\ f \in [DOMAIN f -> V]
BY DEF Partial

LEMMA WithType ==
  ASSUME NEW K, NEW V, NEW f \in Partial(K, V), NEW x \in K, NEW v \in V
  PROVE  With(f, x, v) \in Partial(K, V)
<1>1. DOMAIN f \in SUBSET K /\ f \in [DOMAIN f -> V]
  BY PartialDef
<1>2. With(f, x, v) \in [DOMAIN f \cup {x} -> V]
  BY <1>1 DEF With
<1>3. DOMAIN With(f, x, v) = DOMAIN f \cup {x}
  BY DEF With
<1> QED
  BY <1>1, <1>2, <1>3, PartialDef

LEMMA NothingType == ASSUME NEW K, NEW V PROVE Nothing \in Partial(K, V) /\ DOMAIN Nothing = {}
<1>1. DOMAIN Nothing = {} /\ Nothing \in [{} -> V]
  BY DEF Nothing
<1> QED
  BY <1>1, PartialDef

(* What FiniteSetsExt's Min and Max choose.                                *)
LEMMA LeastExists ==
  ASSUME NEW S \in SUBSET Nat, S # {}
  PROVE  \E x \in S : \A y \in S : x <= y
<1> DEFINE R == OpToRel(<, Nat)
<1>1. IsWellFoundedOn(R, Nat)
  BY NatLessThanWellFounded
<1>2. \A x, y \in Nat : y < x => <<y, x>> \in R
  BY DEF OpToRel
<1> HIDE DEF R
<1>3. PICK x \in S : \A y \in S : ~ (<<y, x>> \in R)
  BY <1>1, WFMin
<1>4. ASSUME NEW y \in S PROVE x <= y
  <2>1. ~ (y < x)
    BY <1>2, <1>3, Zenon
  <2> QED
    BY <2>1
<1> QED
  BY <1>4

LEMMA MinOfNat ==
  ASSUME NEW S \in SUBSET Nat, S # {}
  PROVE  Min(S) \in S /\ \A y \in S : Min(S) <= y
BY LeastExists DEF Min

LEMMA MaxOfNat ==
  ASSUME NEW S \in SUBSET Nat, S # {}, NEW n \in Nat, \A y \in S : y <= n
  PROVE  Max(S) \in S /\ \A y \in S : Max(S) >= y
<1> DEFINE T == {n - y : y \in S}
<1>1. T \in SUBSET Nat
  OBVIOUS
<1>2. T # {}
  OBVIOUS
<1>3. PICK x \in T : \A z \in T : x <= z
  <2> HIDE DEF T
  <2> QED
    BY <1>1, <1>2, LeastExists
<1>4. PICK k \in S : x = n - k
  OBVIOUS
<1>5. ASSUME NEW y \in S PROVE k >= y
  <2>1. n - y \in T
    OBVIOUS
  <2>2. n - k <= n - y
    BY <1>3, <1>4, <2>1
  <2> QED
    BY <2>2
<1>6. \E x1 \in S : \A y \in S : x1 >= y
  BY <1>5
<1> QED
  BY <1>6 DEF Max

-----------------------------------------------------------------------------
(* Going on in the list: past records without pages, and to the next one   *)
(* that has some.                                                          *)
LEMMA AfterSkips ==
  ASSUME NEW B \in Lists, NEW n \in Nat, NEW last \in Nat, n <= last,
         \A id \in DOMAIN B : n < id /\ id <= last => B[id] = {}
  PROVE  After(B, last) = After(B, n)
<1>1. DOMAIN B \in SUBSET Nat
  BY PartialDef DEF Lists
<1> QED
  BY <1>1 DEF After

LEMMA AfterTakes ==
  ASSUME NEW B \in Lists, NEW n \in Nat, NEW last \in DOMAIN B, n < last,
         \A id \in DOMAIN B : n < id /\ id < last => B[id] = {},
         \A other \in DOMAIN B \ {last} : B[last] \cap B[other] = {}
  PROVE  /\ After(B, n) = B[last] \cup After(B, last)
         /\ B[last] \cap After(B, last) = {}
<1>1. DOMAIN B \in SUBSET Nat
  BY PartialDef DEF Lists
<1>2. last \in {i \in DOMAIN B : i > n}
  BY <1>1
<1>3. B[last] \subseteq After(B, n)
  BY <1>2 DEF After
<1>4. After(B, last) \subseteq After(B, n)
  <2>1. {i \in DOMAIN B : i > last} \subseteq {i \in DOMAIN B : i > n}
    BY <1>1
  <2> QED
    BY <2>1 DEF After
<1>5. ASSUME NEW g \in After(B, n) PROVE g \in B[last] \cup After(B, last)
  <2>1. PICK id \in DOMAIN B : id > n /\ g \in B[id]
    BY DEF After
  <2>2. id = last \/ id > last
    BY <1>1, <2>1
  <2> QED
    BY <2>1, <2>2 DEF After
<1>6. B[last] \cap After(B, last) = {}
  <2>1. ASSUME NEW g \in B[last], g \in After(B, last) PROVE FALSE
    <3>1. PICK id \in DOMAIN B : id > last /\ g \in B[id]
      BY <2>1 DEF After
    <3>2. id # last
      BY <1>1, <3>1
    <3> QED
      BY <2>1, <3>1, <3>2
  <2> QED
    BY <2>1
<1> QED
  BY <1>3, <1>4, <1>5, <1>6

(* mdb_page_alloc may take records over, and moves no page by that.  It is *)
(* true whatever the oldest snapshot is: the readers are another matter.   *)
LEMMA FetchKeepsBooks ==
  ASSUME NEW Tables, NEW t \in WriteTxn(Tables), NEW m, NEW B,
         GoodMeta(m, B), Started(t, m, B), Ledger(t, m, B, {}),
         IdlOf(t) = B, FindOldest(t) \in Nat
  PROVE  LET u == FetchRecords(t)
         IN /\ u \in WriteTxn(Tables)
            /\ Started(u, m, B)
            /\ Ledger(u, m, B, {})
            /\ u.main = t.main /\ u.free = t.free
            /\ u.dirty = t.dirty /\ u.error = t.error
<1> DEFINE u == FetchRecords(t)
           fresh == FindOldest(t)
           old == {id \in DOMAIN B : id > t.pglast /\ MayReuse(t, fresh, id)}
           full == {id \in old : B[id] # {}}
           last == IF full = {} THEN Max(old \cup {t.pglast}) ELSE Min(full)
<1>1. CASE t.pghead # {}
  BY <1>1 DEF FetchRecords
<1>2. CASE t.pghead = {}
  <2>1. u = [t EXCEPT !.pglast = last,
                      !.pghead = IF full = {} THEN {} ELSE B[last],
                      !.pgoldest = IF full # {} /\ last < @ THEN @ ELSE fresh]
    BY <1>2 DEF FetchRecords
  <2>2. B \in Lists /\ DOMAIN B \subseteq 1..m.txnid /\ m.txnid \in Nat /\ t.pglast \in Nat
    BY DEF GoodMeta, GoodList, Meta, WriteTxn
  <2>3. old \in SUBSET Nat /\ full \in SUBSET Nat
    BY <2>2
  <2>n. full = {} => last \in old \cup {t.pglast} /\ last >= t.pglast
    <3>1. old \cup {t.pglast} \in SUBSET Nat
      BY <2>2, <2>3
    <3>2. \A y \in old \cup {t.pglast} : y <= m.txnid
      BY <2>2 DEF Started
    <3> HIDE DEF old
    <3> QED
      BY <2>2, <3>1, <3>2, MaxOfNat
  <2>f. full # {} => last \in full /\ \A id \in full : last <= id
    <3> HIDE DEF full
    <3> QED
      BY <2>3, MinOfNat
  <2>4. last \in Nat /\ last \in {0} \cup DOMAIN B /\ t.pglast <= last
    <3>1. \/ last = t.pglast
          \/ last \in DOMAIN B /\ t.pglast < last
      BY <2>n, <2>f
    <3> HIDE DEF last
    <3> QED
      BY <2>2, <3>1 DEF Started
  <2>5. \A id \in DOMAIN B : t.pglast < id /\ id < last => B[id] = {}
    <3> SUFFICES ASSUME NEW id \in DOMAIN B, t.pglast < id, id < last PROVE B[id] = {}
      OBVIOUS
    <3>1. MayReuse(t, fresh, last)
      <4>1. last # t.pglast
        BY <2>2, <2>4
      <4> QED
        BY <2>n, <2>f, <4>1
    <3>2. MayReuse(t, fresh, id)
      <4>1. t.pgoldest \in Nat /\ fresh \in Nat /\ id \in Nat
        BY <2>2 DEF WriteTxn
      <4> QED
        BY <2>4, <3>1, <4>1 DEF MayReuse
    <3>3. ASSUME B[id] # {} PROVE FALSE
      <4>1. id \in full
        BY <3>2, <3>3
      <4>2. last <= id
        BY <2>f, <4>1
      <4> QED
        BY <2>2, <2>4, <4>2
    <3> QED
      BY <3>3
  <2>6. u \in WriteTxn(Tables)
    <3>1. B[last] \in SUBSET Nat \/ full = {}
      <4>1. B \in [DOMAIN B -> SUBSET Nat]
        BY <2>2, PartialDef DEF Lists
      <4> QED
        BY <2>f, <4>1
    <3> HIDE DEF last, full, fresh
    <3>2. fresh \in Nat
      BY DEF fresh
    <3> QED
      BY <2>1, <2>4, <3>1, <3>2 DEF WriteTxn
  <2>7. /\ u.main = t.main /\ u.free = t.free /\ u.dirty = t.dirty /\ u.error = t.error
        /\ u.next = t.next /\ u.freed = t.freed /\ u.txnid = t.txnid
        /\ u.pglast = last
        /\ u.pghead = IF full = {} THEN {} ELSE B[last]
    <3> HIDE DEF last, full, fresh
    <3> QED
      BY <2>1 DEF WriteTxn
  <2>8. After(B, t.pglast) = u.pghead \cup After(B, last) /\ u.pghead \cap After(B, last) = {}
    <3>1. CASE full = {}
      <4>1. last = t.pglast \/ B[last] = {}
        BY <2>n, <3>1
      <4>2. After(B, last) = After(B, t.pglast)
        <5> HIDE DEF last
        <5>1. \A id \in DOMAIN B : t.pglast < id /\ id <= last => B[id] = {}
          BY <2>2, <2>4, <2>5, <4>1
        <5> QED
          BY <2>2, <2>4, <5>1, AfterSkips
      <4> QED
        BY <2>7, <3>1, <4>2
    <3>2. CASE full # {}
      <4>1. last \in DOMAIN B /\ t.pglast < last
        BY <2>f, <3>2
      <4>2. \A other \in DOMAIN B \ {last} : B[last] \cap B[other] = {}
        BY <4>1 DEF GoodMeta, GoodList
      <4>3. After(B, t.pglast) = B[last] \cup After(B, last) /\ B[last] \cap After(B, last) = {}
        <5> HIDE DEF last
        <5> QED
          BY <2>2, <2>5, <4>1, <4>2, AfterTakes
      <4> QED
        BY <2>7, <3>2, <4>3
    <3> QED
      BY <3>1, <3>2
  <2>9. Started(u, m, B)
    <3>1. u.pghead # {} => last # 0
      <4> SUFFICES ASSUME full # {} PROVE last # 0
        BY <2>7
      <4> QED
        BY <2>2, <2>f
    <3> HIDE DEF last, full, u
    <3> QED
      BY <2>4, <2>7, <3>1 DEF Started, Own
  <2>10. Ledger(u, m, B, {})
    <3> HIDE DEF last, full, u
    <3>1. Own(u, m) = Own(t, m)
      BY <2>7 DEF Own
    <3>2. /\ Own(t, m) \cup Roots(m) \cup After(B, t.pglast) = 2..t.next - 1
          /\ Own(t, m) \cap After(B, t.pglast) = {}
          /\ Own(t, m) \cap Roots(m) = {}
      BY <1>2 DEF Ledger, Own, Roots
    <3>3. Roots(m) \cap After(B, t.pglast) = {}
      BY DEF GoodMeta, GoodList, After
    <3> QED
      BY <2>7, <2>8, <3>1, <3>2, <3>3 DEF Ledger
  <2> HIDE DEF u
  <2> QED
    BY <2>6, <2>7, <2>9, <2>10 DEF u
<1> QED
  BY <1>1, <1>2

(* The page it finds was in me_pghead or is new: nobody else has it.       *)
LEMMA TakeKeepsBooks ==
  ASSUME NEW Tables, NEW t \in WriteTxn(Tables), NEW m, NEW B,
         GoodMeta(m, B), Started(t, m, B), Ledger(t, m, B, {}), MaxPg \in Nat
  PROVE  LET a == TakePage(t)
         IN /\ a.t \in WriteTxn(Tables)
            /\ Started(a.t, m, B)
            /\ a.t.main = t.main /\ a.t.free = t.free /\ a.t.dirty = t.dirty
            /\ a.page = NoPage => a.t.error /\ Ledger(a.t, m, B, {})
            /\ a.page # NoPage => /\ a.t.error = t.error
                                  /\ Ledger(a.t, m, B, {a.page})
                                  /\ a.page \in 2..a.t.next - 1
<1> DEFINE a == TakePage(t)
<1>t. m.last \in Nat /\ m.last > 0 /\ t.next \in Nat /\ t.pghead \in SUBSET Nat
  BY DEF GoodMeta, Meta, WriteTxn
<1>s. t.pghead \subseteq 2..t.next - 1 /\ t.next > 1
  BY <1>t DEF Ledger, Started
<1>1. CASE t.pghead # {}
  <2> DEFINE page == Min(t.pghead)
             u == [t EXCEPT !.pghead = @ \ {page}]
  <2>1. a = [t |-> u, page |-> page]
    BY <1>1 DEF TakePage
  <2>2. page \in t.pghead
    BY <1>1, <1>t, MinOfNat
  <2> HIDE DEF page
  <2>3. u \in WriteTxn(Tables) /\ u.pghead = t.pghead \ {page}
    BY DEF WriteTxn
  <2>4. /\ u.main = t.main /\ u.free = t.free /\ u.dirty = t.dirty /\ u.error = t.error
        /\ u.next = t.next /\ u.freed = t.freed /\ u.txnid = t.txnid /\ u.pglast = t.pglast
    BY DEF WriteTxn
  <2> HIDE DEF u
  <2>5. Started(u, m, B)
    BY <2>3, <2>4 DEF Started, Own
  <2>6. Ledger(u, m, B, {page})
    BY <2>2, <2>3, <2>4 DEF Ledger, Own
  <2>7. page \in 2..u.next - 1 /\ page # NoPage
    BY <1>s, <2>2, <2>4 DEF NoPage
  <2> HIDE DEF a
  <2> QED
    BY <2>1, <2>3, <2>4, <2>5, <2>6, <2>7 DEF a
<1>2. CASE t.pghead = {} /\ t.next + 1 >= MaxPg
  <2> DEFINE u == [t EXCEPT !.error = TRUE]
  <2>1. a = [t |-> u, page |-> NoPage]
    BY <1>2 DEF TakePage
  <2>2. u \in WriteTxn(Tables) /\ u.error
    BY DEF WriteTxn
  <2>3. /\ u.main = t.main /\ u.free = t.free /\ u.dirty = t.dirty /\ u.pghead = t.pghead
        /\ u.next = t.next /\ u.freed = t.freed /\ u.txnid = t.txnid /\ u.pglast = t.pglast
    BY DEF WriteTxn
  <2> HIDE DEF u
  <2>4. Started(u, m, B) /\ Ledger(u, m, B, {})
    BY <2>3 DEF Started, Ledger, Own
  <2> HIDE DEF a
  <2> QED
    BY <2>1, <2>2, <2>3, <2>4 DEF a
<1>3. CASE t.pghead = {} /\ ~ (t.next + 1 >= MaxPg)
  <2> DEFINE u == [t EXCEPT !.next = @ + 1]
  <2>1. a = [t |-> u, page |-> t.next]
    BY <1>3 DEF TakePage
  <2>2. u \in WriteTxn(Tables) /\ u.next = t.next + 1
    BY DEF WriteTxn
  <2>3. /\ u.main = t.main /\ u.free = t.free /\ u.dirty = t.dirty /\ u.pghead = t.pghead
        /\ u.error = t.error /\ u.freed = t.freed /\ u.txnid = t.txnid /\ u.pglast = t.pglast
    BY DEF WriteTxn
  <2> HIDE DEF u
  <2>4. Started(u, m, B)
    BY <1>3, <1>t, <2>2, <2>3 DEF Started, Own
  <2>5. 2..u.next - 1 = (2..t.next - 1) \cup {t.next}
    BY <1>t, <1>s, <2>2
  <2>6. t.next \notin 2..t.next - 1
    BY <1>t
  <2>7. Ledger(u, m, B, {t.next})
    BY <2>3, <2>5, <2>6 DEF Ledger, Own
  <2>8. t.next \in 2..u.next - 1 /\ t.next # NoPage
    BY <1>t, <1>s, <2>2 DEF NoPage
  <2> HIDE DEF a
  <2> QED
    BY <2>1, <2>2, <2>3, <2>4, <2>7, <2>8 DEF a
<1> QED
  BY <1>1, <1>2, <1>3

(* Put under a root of m it becomes a root of the transaction's own, and   *)
(* the old root is one that the transaction has freed.                     *)
LEMMA MoveKeepsBooks ==
  ASSUME NEW Tables, NEW v \in WriteTxn(Tables), NEW m, NEW B, NEW page \in Nat,
         NEW tree \in {"main", "free"}, NEW c \in Contents(Tables),
         GoodMeta(m, B), Started(v, m, B), Ledger(v, m, B, {page}), page # NoPage,
         v[tree] = m[tree], DOMAIN v.dirty = Own(v, m)
  PROVE  LET u == Moved(v, tree, m, page, c)
         IN /\ u \in WriteTxn(Tables)
            /\ Started(u, m, B)
            /\ Ledger(u, m, B, {})
            /\ DOMAIN u.dirty = Own(u, m)
            /\ u[tree] = page /\ u.error = v.error
            /\ tree = "main" => u.free = v.free
            /\ tree = "free" => u.main = v.main
            /\ u.dirty = With(v.dirty, page, c)
<1> DEFINE u == Moved(v, tree, m, page, c)
<1>1. With(v.dirty, page, c) \in Partial(Nat, Contents(Tables))
  BY WithType DEF WriteTxn
<1>2. /\ u[tree] = page
      /\ tree = "main" => u.free = v.free /\ u.main = page
      /\ tree = "free" => u.main = v.main /\ u.free = page
      /\ u.freed = v.freed \cup ({m[tree]} \ {NoPage})
      /\ u.dirty = With(v.dirty, page, c)
      /\ u.txnid = v.txnid /\ u.next = v.next /\ u.pghead = v.pghead
      /\ u.pglast = v.pglast /\ u.pgoldest = v.pgoldest /\ u.error = v.error
  BY DEF WriteTxn, Moved
<1>3. u \in WriteTxn(Tables)
  <2>1. {m[tree]} \ {NoPage} \in SUBSET Nat
    BY DEF GoodMeta, Meta
  <2> QED
    BY <1>1, <2>1 DEF WriteTxn, Moved
<1> HIDE DEF u
<1>4. page \notin Roots(m) /\ page \notin Own(v, m) /\ page \notin After(B, v.pglast)
      /\ page \notin v.pghead
  BY DEF Ledger
<1>5. Own(u, m) = Own(v, m) \cup {page}
  <2>1. CASE tree = "main"
    BY <1>2, <1>4, <2>1 DEF Own, Roots
  <2>2. CASE tree = "free"
    BY <1>2, <1>4, <2>2 DEF Own, Roots
  <2> QED
    BY <2>1, <2>2
<1>6. DOMAIN u.dirty = Own(u, m)
  BY <1>2, <1>5 DEF With
<1>7. Ledger(u, m, B, {})
  BY <1>2, <1>4, <1>5 DEF Ledger
<1>8. u.freed = Roots(m) \ {u.main, u.free}
  <2>1. CASE tree = "main"
    BY <1>2, <1>4, <2>1 DEF Started, GoodMeta, Own, Roots
  <2>2. CASE tree = "free"
    BY <1>2, <1>4, <2>2 DEF Started, GoodMeta, Own, Roots
  <2> QED
    BY <2>1, <2>2
<1>9. u.main # u.free
  <2>1. CASE tree = "main"
    BY <1>2, <1>4, <2>1 DEF Started, Own, Roots
  <2>2. CASE tree = "free"
    BY <1>2, <1>4, <2>2 DEF Started, Own, Roots
  <2> QED
    BY <2>1, <2>2
<1>10. u.main \in {m.main} \cup Own(u, m) /\ u.free \in {m.free} \cup Own(u, m)
  <2>1. CASE tree = "main"
    BY <1>2, <1>5, <2>1 DEF Started
  <2>2. CASE tree = "free"
    BY <1>2, <1>5, <2>2 DEF Started
  <2> QED
    BY <2>1, <2>2
<1>11. Started(u, m, B)
  BY <1>2, <1>8, <1>9, <1>10 DEF Started
<1> QED
  BY <1>2, <1>3, <1>6, <1>7, <1>11 DEF u

-----------------------------------------------------------------------------
LEMMA ContentType ==
  ASSUME NEW Tables, Nothing \in Tables, MaxPg \in Nat,
         cache \in [2..MaxPg - 1 -> Contents(Tables)],
         NEW t \in WriteTxn(Tables), NEW g, g \in (2..MaxPg - 1) \cup {NoPage}
  PROVE  ContentOf(t, g) \in Contents(Tables)
<1>1. EmptyPage \in Contents(Tables)
  BY NothingType DEF EmptyPage, Contents, Lists
<1>2. t.dirty \in [DOMAIN t.dirty -> Contents(Tables)]
  BY PartialDef DEF WriteTxn
<1>3. CASE g \in DOMAIN t.dirty
  BY <1>1, <1>2, <1>3 DEF ContentOf, PageOf
<1>4. CASE g \notin DOMAIN t.dirty
  BY <1>1, <1>4 DEF ContentOf, PageOf
<1> QED
  BY <1>3, <1>4

LEMMA ContentsOfRoots ==
  ASSUME NEW t
  PROVE  DataOf(t) = ContentOf(t, t.main).data /\ IdlOf(t) = ContentOf(t, t.free).idl
BY DEF DataOf, IdlOf, ContentOf, EmptyPage

(* Touching a root changes the page it is on and nothing that can be read. *)
LEMMA TouchKeepsBooks ==
  ASSUME NEW Tables, Nothing \in Tables, MaxPg \in Nat,
         cache \in [2..MaxPg - 1 -> Contents(Tables)],
         NEW t, NEW m, NEW B, NEW tree \in {"main", "free"},
         GoodMeta(m, B), m.last < MaxPg, Books(Tables, t, m, B),
         IdlOf(t) = B, FindOldest(t) \in Nat, ~t.error
  PROVE  LET u == Touch(t, tree)
         IN /\ Books(Tables, u, m, B)
            /\ tree = "main" => u.free = t.free
            /\ tree = "free" => u.main = t.main
            /\ ~u.error => u[tree] \in DOMAIN u.dirty
            /\ DataOf(u) = DataOf(t)
            /\ IdlOf(u) = IdlOf(t)
<1> DEFINE u == Touch(t, tree)
<1>1. CASE t[tree] \in DOMAIN t.dirty
  BY <1>1 DEF Touch
<1>2. CASE t[tree] \notin DOMAIN t.dirty
  <2> DEFINE f == FetchRecords(t)
             a == TakePage(f)
             c == ContentOf(t, t[tree])
  <2>1. u = MoveRoot(t, tree, a)
    BY <1>2 DEF Touch, PageAlloc
  <2>2. t[tree] = m[tree] /\ t[tree] \in Roots(m) \cup {NoPage}
    BY <1>2 DEF Books, Started, Roots
  <2>3. /\ f \in WriteTxn(Tables) /\ Started(f, m, B) /\ Ledger(f, m, B, {})
        /\ f.main = t.main /\ f.free = t.free /\ f.dirty = t.dirty /\ f.error = t.error
    BY FetchKeepsBooks DEF Books
  <2> HIDE DEF f
  <2>4. /\ a.t \in WriteTxn(Tables) /\ Started(a.t, m, B)
        /\ a.t.main = t.main /\ a.t.free = t.free /\ a.t.dirty = t.dirty
        /\ a.page = NoPage => a.t.error /\ Ledger(a.t, m, B, {})
        /\ a.page # NoPage => /\ a.t.error = t.error
                              /\ Ledger(a.t, m, B, {a.page})
                              /\ a.page \in 2..a.t.next - 1
    BY <2>3, TakeKeepsBooks
  <2> HIDE DEF a
  <2>5. Own(a.t, m) = Own(t, m)
    BY <2>4 DEF Own
  <2>6. CASE a.page = NoPage
    <3>1. u = a.t
      BY <2>1, <2>6 DEF MoveRoot
    <3>2. DataOf(u) = DataOf(t) /\ IdlOf(u) = IdlOf(t)
      BY <2>4, <3>1 DEF DataOf, IdlOf, PageOf
    <3> QED
      BY <2>4, <2>5, <2>6, <3>1, <3>2 DEF Books
  <2>7. CASE a.page # NoPage
    <3> DEFINE v == a.t
    <3>1. u = Moved(v, tree, m, a.page, c)
      BY <2>1, <2>2, <2>7 DEF MoveRoot, ContentOf, Moved
    <3>2. c \in Contents(Tables)
      <4>1. Roots(m) \subseteq 2..MaxPg - 1
        BY DEF GoodMeta, GoodList, Meta
      <4> QED
        BY <2>2, <4>1, ContentType DEF Books
    <3>3. v[tree] = m[tree]
      BY <2>2, <2>4
    <3>4. a.page \in Nat /\ Ledger(v, m, B, {a.page}) /\ DOMAIN v.dirty = Own(v, m)
      BY <2>4, <2>5, <2>7 DEF Books
    <3> HIDE DEF v, u, c
    <3>5. /\ u \in WriteTxn(Tables) /\ Started(u, m, B) /\ Ledger(u, m, B, {})
          /\ DOMAIN u.dirty = Own(u, m)
          /\ u[tree] = a.page /\ u.error = v.error
          /\ tree = "main" => u.free = v.free
          /\ tree = "free" => u.main = v.main
          /\ u.dirty = With(v.dirty, a.page, c)
      <4>1. v \in WriteTxn(Tables) /\ Started(v, m, B)
        BY <2>4 DEF v
      <4> QED
        BY <2>7, <3>1, <3>2, <3>3, <3>4, <4>1, MoveKeepsBooks
    <3>6. v.main = t.main /\ v.free = t.free /\ v.dirty = t.dirty /\ v.error = t.error
      BY <2>4, <2>7 DEF v
    <3>7. ContentOf(u, a.page) = c
      BY <2>7, <3>5 DEF ContentOf, PageOf, With
    <3>8. ASSUME NEW g, g # a.page PROVE ContentOf(u, g) = ContentOf(t, g)
      BY <3>5, <3>6, <3>8 DEF ContentOf, PageOf, With
    <3>9. a.page # t.main /\ a.page # t.free
      BY <2>5, <2>7, <3>4, <3>6 DEF v, Ledger, Books, Started, Roots
    <3>10. ContentOf(u, u.main) = ContentOf(t, t.main) /\ ContentOf(u, u.free) = ContentOf(t, t.free)
      <4>1. CASE tree = "main"
        BY <3>5, <3>6, <3>7, <3>8, <3>9, <4>1 DEF c
      <4>2. CASE tree = "free"
        BY <3>5, <3>6, <3>7, <3>8, <3>9, <4>2 DEF c
      <4> QED
        BY <4>1, <4>2
    <3>11. DataOf(u) = DataOf(t) /\ IdlOf(u) = IdlOf(t)
      BY <3>10, ContentsOfRoots
    <3>12. u[tree] \in DOMAIN u.dirty
      BY <3>5 DEF With
    <3> QED
      BY <3>5, <3>6, <3>11, <3>12 DEF Books, u
  <2> QED
    BY <2>6, <2>7
<1> QED
  BY <1>1, <1>2

(* A page that is dirty already can be given another content.              *)
LEMMA DirtyContent ==
  ASSUME NEW Tables, NEW t \in WriteTxn(Tables), NEW g \in DOMAIN t.dirty,
         NEW c \in Contents(Tables)
  PROVE  LET u == WithDirty(t, g, c)
         IN /\ u \in WriteTxn(Tables)
            /\ u.dirty = With(t.dirty, g, c) /\ DOMAIN u.dirty = DOMAIN t.dirty
            /\ u.txnid = t.txnid /\ u.main = t.main /\ u.free = t.free /\ u.next = t.next
            /\ u.freed = t.freed /\ u.pghead = t.pghead /\ u.pglast = t.pglast
            /\ u.error = t.error
<1> DEFINE u == WithDirty(t, g, c)
<1>1. g \in Nat
  BY PartialDef DEF WriteTxn
<1>2. With(t.dirty, g, c) \in Partial(Nat, Contents(Tables))
  BY <1>1, WithType DEF WriteTxn
<1>3. u.dirty = [t.dirty EXCEPT ![g] = c]
  BY DEF WriteTxn, WithDirty
<1>4. t.dirty \in [DOMAIN t.dirty -> Contents(Tables)]
  BY PartialDef DEF WriteTxn
<1>5. [t.dirty EXCEPT ![g] = c] = With(t.dirty, g, c)
  BY <1>4 DEF With
<1>6. u = [t EXCEPT !.dirty = With(t.dirty, g, c)]
  BY <1>3, <1>5 DEF WriteTxn, WithDirty
<1>7. DOMAIN With(t.dirty, g, c) = DOMAIN t.dirty
  BY DEF With
<1> HIDE DEF u
<1>8. u \in WriteTxn(Tables) /\ u.dirty = With(t.dirty, g, c)
  BY <1>2, <1>6 DEF WriteTxn
<1>9. /\ u.txnid = t.txnid /\ u.main = t.main /\ u.free = t.free /\ u.next = t.next
      /\ u.freed = t.freed /\ u.pghead = t.pghead /\ u.pglast = t.pglast
      /\ u.error = t.error
  BY <1>6 DEF WriteTxn
<1> QED
  BY <1>7, <1>8, <1>9 DEF u

LEMMA SameBooks ==
  ASSUME NEW Tables, NEW t, NEW u, NEW m, NEW B, Books(Tables, t, m, B),
         u \in WriteTxn(Tables), DOMAIN u.dirty = DOMAIN t.dirty,
         u.txnid = t.txnid, u.main = t.main, u.free = t.free, u.next = t.next,
         u.freed = t.freed, u.pghead = t.pghead, u.pglast = t.pglast
  PROVE  Books(Tables, u, m, B)
BY DEF Books, Started, Ledger, Own

(* mdb_put either fails and changes nothing that can be read, or makes the *)
(* table what it should be; the free list is as it was.                    *)
LEMMA PutKeepsBooks ==
  ASSUME NEW Tables, Nothing \in Tables, MaxPg \in Nat,
         cache \in [2..MaxPg - 1 -> Contents(Tables)],
         NEW t, NEW m, NEW B, NEW table \in Tables,
         GoodMeta(m, B), m.last < MaxPg, Books(Tables, t, m, B),
         IdlOf(t) = B, FindOldest(t) \in Nat, ~t.error
  PROVE  LET u == PutAll(t, table)
         IN /\ Books(Tables, u, m, B)
            /\ u.free = t.free /\ IdlOf(u) = B
            /\ DataOf(u) = IF u.error THEN DataOf(t) ELSE table
<1> DEFINE v == Touch(t, "main")
           u == PutAll(t, table)
<1>1. /\ Books(Tables, v, m, B)
      /\ v.free = t.free
      /\ ~v.error => v.main \in DOMAIN v.dirty
      /\ DataOf(v) = DataOf(t)
      /\ IdlOf(v) = B
  BY TouchKeepsBooks
<1> HIDE DEF v
<1>2. CASE v.error
  <2>1. u = v
    BY <1>2 DEF PutAll, PutEntries, v
  <2> QED
    BY <1>1, <1>2, <2>1
<1>3. CASE ~v.error
  <2> DEFINE g == v.main
             c == [v.dirty[g] EXCEPT !.data = table]
  <2>1. u = WithDirty(v, g, c)
    <3>1. u = [v EXCEPT !.dirty[v.main].data = table]
      BY <1>3 DEF PutAll, PutEntries, v
    <3> QED
      BY <3>1 DEF WithDirty
  <2>2. g \in DOMAIN v.dirty
    BY <1>1, <1>3
  <2>3. v \in WriteTxn(Tables) /\ v.dirty \in [DOMAIN v.dirty -> Contents(Tables)]
    BY <1>1, PartialDef DEF Books, WriteTxn
  <2>4. c \in Contents(Tables) /\ c.data = table /\ c.idl = v.dirty[g].idl
    BY <2>2, <2>3 DEF Contents
  <2> HIDE DEF u, c
  <2>5. /\ u \in WriteTxn(Tables)
        /\ u.dirty = With(v.dirty, g, c) /\ DOMAIN u.dirty = DOMAIN v.dirty
        /\ u.txnid = v.txnid /\ u.main = v.main /\ u.free = v.free /\ u.next = v.next
        /\ u.freed = v.freed /\ u.pghead = v.pghead /\ u.pglast = v.pglast
        /\ u.error = v.error
    BY <2>1, <2>2, <2>3, <2>4, DirtyContent
  <2>6. Books(Tables, u, m, B)
    BY <1>1, <2>5, SameBooks
  <2>7. g # NoPage /\ v.free # g
    BY <1>1, <2>2 DEF Books, Started, Own
  <2>8. DataOf(u) = table
    BY <2>4, <2>5, <2>7 DEF DataOf, PageOf, With
  <2>9. IdlOf(u) = IdlOf(v)
    BY <2>5, <2>7 DEF IdlOf, PageOf, With
  <2> QED
    BY <1>1, <1>3, <2>5, <2>6, <2>8, <2>9 DEF u
<1> QED
  BY <1>2, <1>3

-----------------------------------------------------------------------------
(* One more record, with pages that no other record has.                   *)
LEMMA OneMoreRecord ==
  ASSUME NEW L \in Lists, Apart(L), NEW x \in Nat, x \notin DOMAIN L,
         NEW S \in SUBSET Nat, S \cap Pages(L) = {}
  PROVE  /\ With(L, x, S) \in Lists
         /\ DOMAIN With(L, x, S) = DOMAIN L \cup {x}
         /\ Apart(With(L, x, S))
         /\ Pages(With(L, x, S)) = Pages(L) \cup S
<1>1. With(L, x, S) \in Lists
  BY WithType DEF Lists
<1>2. DOMAIN With(L, x, S) = DOMAIN L \cup {x}
  BY DEF With
<1>3. Apart(With(L, x, S))
  BY DEF Apart, Pages, With
<1>4. Pages(With(L, x, S)) = Pages(L) \cup S
  <2>1. \A id \in DOMAIN L : With(L, x, S)[id] = L[id]
    BY DEF With
  <2>2. With(L, x, S)[x] = S
    BY DEF With
  <2> QED
    BY <1>2, <2>1, <2>2 DEF Pages
<1> QED
  BY <1>1, <1>2, <1>3, <1>4

LEMMA PagesOfOneMore ==
  \A L \in Lists, x \in Nat, S \in SUBSET Nat :
    Apart(L) /\ x \notin DOMAIN L /\ S \cap Pages(L) = {}
      => Pages(With(L, x, S)) = Pages(L) \cup S
<1> SUFFICES ASSUME NEW L \in Lists, NEW x \in Nat, NEW S \in SUBSET Nat,
                    Apart(L), x \notin DOMAIN L, S \cap Pages(L) = {}
             PROVE  Pages(With(L, x, S)) = Pages(L) \cup S
  OBVIOUS
<1>1. \A id \in DOMAIN L : With(L, x, S)[id] = L[id]
  BY DEF With
<1>2. With(L, x, S)[x] = S /\ DOMAIN With(L, x, S) = DOMAIN L \cup {x}
  BY DEF With
<1> QED
  BY <1>1, <1>2 DEF Pages

(* The records that are written account for every page the trees have not  *)
(* got.                                                                    *)
LEMMA RecordsAreGood ==
  ASSUME NEW Tables, NEW t, NEW m, NEW B,
         GoodMeta(m, B), Books(Tables, t, m, B), IdlOf(t) = B
  PROVE  GoodList(Records(t), {t.main, t.free} \ {NoPage}, t.next - 1, t.txnid)
<1> DEFINE rest == [id \in {i \in DOMAIN B : i > t.pglast} |-> B[id]]
           freed == With(rest, t.txnid, t.freed)
           roots == {t.main, t.free} \ {NoPage}
<1>1. /\ m.txnid \in Nat /\ t.txnid = m.txnid + 1 /\ t.pglast \in Nat
      /\ t.freed \in SUBSET Nat /\ t.pghead \in SUBSET Nat
      /\ B \in Lists /\ DOMAIN B \subseteq 1..m.txnid
      /\ t.pglast \in {0} \cup DOMAIN B
      /\ t.pghead # {} => t.pglast # 0
  BY DEF GoodMeta, Meta, GoodList, Books, Started, WriteTxn
<1>2. rest \in Lists /\ DOMAIN rest = {i \in DOMAIN B : i > t.pglast}
  <2>1. DOMAIN B \in SUBSET Nat /\ B \in [DOMAIN B -> SUBSET Nat]
    BY <1>1, PartialDef DEF Lists
  <2>2. rest \in [DOMAIN rest -> SUBSET Nat] /\ DOMAIN rest \in SUBSET Nat
    BY <2>1
  <2> HIDE DEF rest
  <2>3. rest \in Lists
    BY <2>2, PartialDef DEF Lists
  <2> QED
    BY <2>3 DEF rest
<1>3. Apart(rest)
  BY DEF GoodMeta, GoodList, Apart
<1>4. Pages(rest) = After(B, t.pglast)
  BY DEF Pages, After
<1>5. t.freed = Roots(m) \ {t.main, t.free} /\ roots = Own(t, m) \cup (Roots(m) \ t.freed)
  BY DEF Books, Started, Own, Roots
<1>6. Roots(m) \cap After(B, t.pglast) = {} /\ Own(t, m) \cap Roots(m) = {}
  BY DEF GoodMeta, GoodList, After, Own, Roots
<1>7. /\ Own(t, m) \cup t.pghead \cup Roots(m) \cup After(B, t.pglast) = 2..t.next - 1
      /\ Own(t, m) \cap (t.pghead \cup After(B, t.pglast)) = {}
      /\ t.pghead \cap (Roots(m) \cup After(B, t.pglast)) = {}
  BY DEF Books, Ledger
<1>8. t.txnid \notin DOMAIN rest /\ t.txnid \in Nat /\ t.freed \cap Pages(rest) = {}
  BY <1>1, <1>2, <1>4, <1>5, <1>6
<1> HIDE DEF rest
<1>9. /\ freed \in Lists
      /\ DOMAIN freed = DOMAIN rest \cup {t.txnid}
      /\ Apart(freed)
      /\ Pages(freed) = After(B, t.pglast) \cup t.freed
  <2>1. /\ With(rest, t.txnid, t.freed) \in Lists
        /\ DOMAIN With(rest, t.txnid, t.freed) = DOMAIN rest \cup {t.txnid}
        /\ Apart(With(rest, t.txnid, t.freed))
        /\ Pages(With(rest, t.txnid, t.freed)) = Pages(rest) \cup t.freed
    <3>1. t.freed \in SUBSET Nat /\ rest \in Lists
      BY <1>1, <1>2
    <3> QED
      BY <1>3, <1>8, <3>1, OneMoreRecord
  <2> QED
    BY <1>4, <2>1
<1>10. ASSUME NEW L, L \in Lists, Apart(L), DOMAIN L \subseteq 1..t.txnid,
              Pages(L) = After(B, t.pglast) \cup t.freed \cup t.pghead
       PROVE  GoodList(L, roots, t.next - 1, t.txnid)
  <2>1. roots \cup Pages(L) = 2..t.next - 1
    BY <1>5, <1>7, <1>10
  <2>2. Pages(L) \cap roots = {}
    BY <1>5, <1>6, <1>7, <1>10
  <2>3. \A id \in DOMAIN L : L[id] \cap roots = {}
    BY <2>2 DEF Pages
  <2> QED
    BY <1>10, <2>1, <2>3 DEF GoodList, Apart, Pages
<1>11. CASE t.pghead = {}
  <2>1. Records(t) = freed
    BY <1>11 DEF Records, rest
  <2>2. DOMAIN freed \subseteq 1..t.txnid
    BY <1>1, <1>2, <1>9
  <2> HIDE DEF freed
  <2> QED
    BY <1>9, <1>10, <1>11, <2>1, <2>2
<1>12. CASE t.pghead # {}
  <2> DEFINE L == With(freed, t.pglast, t.pghead)
  <2>1. Records(t) = L
    BY <1>12 DEF Records, rest
  <2>2. t.pglast \notin DOMAIN freed
    BY <1>1, <1>2, <1>9, <1>12
  <2>3. t.pghead \cap Pages(freed) = {}
    BY <1>5, <1>7, <1>9
  <2> HIDE DEF freed
  <2>4. /\ L \in Lists
        /\ DOMAIN L = DOMAIN freed \cup {t.pglast}
        /\ Apart(L)
        /\ Pages(L) = Pages(freed) \cup t.pghead
    <3>1. t.pghead \in SUBSET Nat /\ t.pglast \in Nat
      BY <1>1
    <3>2. freed \in Lists
      BY <1>9
    <3>3. Apart(freed)
      BY <1>9
    <3> HIDE DEF L
    <3>4. Pages(With(freed, t.pglast, t.pghead)) = Pages(freed) \cup t.pghead
      BY <2>2, <2>3, <3>1, <3>2, <3>3, PagesOfOneMore
    <3>5. /\ With(freed, t.pglast, t.pghead) \in Lists
          /\ DOMAIN With(freed, t.pglast, t.pghead) = DOMAIN freed \cup {t.pglast}
          /\ Apart(With(freed, t.pglast, t.pghead))
      BY <2>2, <2>3, <3>1, <3>2, <3>3, OneMoreRecord
    <3> QED
      BY <3>4, <3>5 DEF L
  <2>5. DOMAIN L \subseteq 1..t.txnid
    BY <1>1, <1>2, <1>9, <1>12, <2>4
  <2> HIDE DEF L
  <2> QED
    BY <1>9, <1>10, <2>1, <2>4, <2>5
<1> QED
  BY <1>11, <1>12

(* What a transaction hands over to be written: its new roots are pages    *)
(* that m does not use, and the free list under them is good.              *)
Saved(Tables, t, m, B) ==
  /\ t \in WriteTxn(Tables)
  /\ Started(t, m, B)
  /\ DOMAIN t.dirty \subseteq Own(t, m)
  /\ GoodList(IdlOf(t), {t.main, t.free} \ {NoPage}, t.next - 1, t.txnid)
  /\ ~t.error

LEMMA SaveIsGood ==
  ASSUME NEW Tables, Nothing \in Tables, MaxPg \in Nat,
         cache \in [2..MaxPg - 1 -> Contents(Tables)],
         NEW t, NEW m, NEW B,
         GoodMeta(m, B), m.last < MaxPg, Books(Tables, t, m, B),
         IdlOf(t) = B, FindOldest(t) \in Nat, ~t.error, ~FreelistSave(t).error
  PROVE  LET u == FreelistSave(t)
         IN Saved(Tables, u, m, B) /\ DataOf(u) = DataOf(t)
<1> DEFINE u == FreelistSave(t)
<1>1. CASE ~ (t.pglast > 0 \/ t.freed # {})
  <2>1. u = t
    BY <1>1 DEF FreelistSave
  <2>2. t.pglast = 0 /\ t.freed = {} /\ t.pghead = {}
    BY <1>1 DEF Books, Started, WriteTxn
  <2>3. After(B, 0) = Pages(B)
    <3>1. DOMAIN B \subseteq 1..m.txnid /\ m.txnid \in Nat
      BY DEF GoodMeta, GoodList, Meta
    <3>2. \A i \in DOMAIN B : i > 0
      BY <3>1
    <3> QED
      BY <3>2 DEF After, Pages
  <2>4. {t.main, t.free} \ {NoPage} = Own(t, m) \cup Roots(m)
    BY <2>2 DEF Books, Started, Own, Roots
  <2>5. /\ Own(t, m) \cup Roots(m) \cup Pages(B) = 2..t.next - 1
        /\ Own(t, m) \cap Pages(B) = {}
    BY <2>2, <2>3 DEF Books, Ledger
  <2>6. GoodList(B, {t.main, t.free} \ {NoPage}, t.next - 1, t.txnid)
    <3>1. DOMAIN B \subseteq 1..t.txnid
      BY DEF GoodMeta, GoodList, Meta, Books, Started
    <3>2. \A id \in DOMAIN B : B[id] \cap Own(t, m) = {}
      BY <2>5 DEF Pages
    <3> QED
      BY <2>4, <2>5, <3>1, <3>2 DEF GoodMeta, GoodList, Pages
  <2> QED
    BY <2>1, <2>6 DEF Saved, Books
<1>2. CASE t.pglast > 0 \/ t.freed # {}
  <2> DEFINE v == Touch(t, "free")
             g == v.free
             c == [v.dirty[g] EXCEPT !.idl = Records(v)]
  <2>1. /\ Books(Tables, v, m, B)
        /\ v.main = t.main
        /\ ~v.error => v.free \in DOMAIN v.dirty
        /\ DataOf(v) = DataOf(t)
        /\ IdlOf(v) = B
    BY TouchKeepsBooks
  <2>2. ~v.error /\ u = [v EXCEPT !.dirty[v.free].idl = Records(v)]
    BY <1>2 DEF FreelistSave, SaveRecords
  <2> HIDE DEF v
  <2>3. u = WithDirty(v, g, c)
    BY <2>2 DEF WithDirty
  <2>4. GoodList(Records(v), {v.main, v.free} \ {NoPage}, v.next - 1, v.txnid)
    BY <2>1, RecordsAreGood
  <2>5. g \in DOMAIN v.dirty /\ v \in WriteTxn(Tables)
        /\ v.dirty \in [DOMAIN v.dirty -> Contents(Tables)]
    BY <2>1, <2>2, PartialDef DEF Books, WriteTxn
  <2>6. c \in Contents(Tables) /\ c.idl = Records(v) /\ c.data = v.dirty[g].data
    <3>1. Records(v) \in Lists
      BY <2>4 DEF GoodList
    <3> QED
      BY <2>5, <3>1 DEF Contents
  <2> HIDE DEF u, c
  <2>7. /\ u \in WriteTxn(Tables)
        /\ u.dirty = With(v.dirty, g, c) /\ DOMAIN u.dirty = DOMAIN v.dirty
        /\ u.txnid = v.txnid /\ u.main = v.main /\ u.free = v.free /\ u.next = v.next
        /\ u.freed = v.freed /\ u.pghead = v.pghead /\ u.pglast = v.pglast
        /\ u.error = v.error
    BY <2>3, <2>5, <2>6, DirtyContent
  <2>8. Books(Tables, u, m, B)
    BY <2>1, <2>7, SameBooks
  <2>9. g # NoPage /\ v.main # g
    BY <2>1, <2>5 DEF Books, Started, Own
  <2>10. IdlOf(u) = Records(v)
    BY <2>6, <2>7, <2>9 DEF IdlOf, PageOf, With
  <2>11. DataOf(u) = DataOf(v)
    BY <2>7, <2>9 DEF DataOf, PageOf, With
  <2> QED
    BY <2>1, <2>2, <2>4, <2>7, <2>8, <2>10, <2>11 DEF Saved, Books, u
<1> QED
  BY <1>1, <1>2

-----------------------------------------------------------------------------
(* The processes.                                                          *)
WriterPcs == {"writing", "flushing", "synced", "written"}
ReaderPcs == {"claimed", "loaded", "stored", "pinned", "reading"}
Pcs == {"closed", "waiting", "open", "ended", "closing"} \cup WriterPcs \cup ReaderPcs

Tables == Partial(Table!Keys, Ips \cup Names \cup 1..MaxTxnid)
File == [2..MaxPg - 1 -> Contents(Tables)]

FileType == cache \in File /\ disk \in File /\ metas \in [0..1 -> Meta]

ReadersType ==
  /\ readers \in [Slots -> [pid : Procs \cup {"nobody", "dead"}, txnid : Nat]]
  /\ numreaders \in 0..MaxReaders
  /\ \A p \in Procs :
       /\ pc[p] \in ReaderPcs => txn[p].slot \in Slots /\ txn[p].txnid \in Nat
       /\ pc[p] \in ReaderPcs \ {"reading"} => txn[p] \in [txnid : Nat, slot : Slots]

LocksType ==
  /\ mti_txnid \in Nat
  /\ wmutex \in Procs \cup {"nobody", "dead"}
  /\ flock \in [Procs -> {"none", "shared", "excl"}]
  /\ pc \in [Procs -> Pcs]
  /\ txn = [p \in Procs |-> txn[p]]

TypeOK == FileType /\ ReadersType /\ LocksType

(* Who writes has the mutex, and who has it writes; the file is open as    *)
(* long as its lock is held.                                               *)
OneWriter ==
  \A p \in Procs :
    /\ pc[p] \in WriterPcs <=> wmutex = p
    /\ pc[p] \in {"closed", "waiting"} <=> flock[p] = "none"

(* mti_txnid lags behind the meta pages only while the writer is between   *)
(* writing its meta page and saying so, or was killed there.               *)
TxnidIsCurrent ==
  /\ mutexes /\ wmutex = "nobody" => mti_txnid = Newest.txnid
  /\ \A p \in Procs :
       /\ pc[p] \in {"writing", "flushing", "synced"} => mti_txnid = Newest.txnid
       /\ pc[p] = "written" => txn[p].txnid = Newest.txnid

(* The newest meta page is where its number says, and the other is older.  *)
MetasTakeTurns ==
  /\ metas[Newest.txnid % 2] = Newest
  /\ \/ metas[(Newest.txnid + 1) % 2].txnid < Newest.txnid
     \/ Newest.txnid = 0 /\ metas[1].txnid = 0

FreeList == IdlIn(disk, Newest.free)

NewestIsGood ==
  /\ GoodMeta(Newest, FreeList)
  /\ Newest.last < MaxPg
  /\ \A g \in Roots(Newest) : cache[g] = disk[g]
  /\ Stored = history[Newest.txnid]

WriterOK(p) ==
  /\ pc[p] = "writing" =>
       /\ Books(Tables, txn[p], Newest, FreeList)
       /\ IdlOf(txn[p]) = FreeList
       /\ Newest.txnid < MaxTxnid
  /\ pc[p] \in {"flushing", "synced"} => Saved(Tables, txn[p], Newest, FreeList)
  /\ pc[p] = "synced" => txn[p].dirty = Nothing /\ disk = cache

WriterIsGood == \A p \in Procs : WriterOK(p)

IInv ==
  /\ TypeOK
  /\ OneWriter
  /\ TxnidIsCurrent
  /\ MetasTakeTurns
  /\ NewestIsGood
  /\ WriterIsGood

-----------------------------------------------------------------------------
(* The assumptions on the constants, one by one.                           *)
LEMMA Sizes == MaxPg \in Nat /\ MaxPg > 2 /\ MaxReaders \in Nat /\ MaxTxnid \in Nat
BY LmdbTxnAssumption DEF LmdbTxnAssumption

LEMMA NotProcs == "nobody" \notin Procs /\ "dead" \notin Procs
BY LmdbTxnAssumption DEF LmdbTxnAssumption

LEMMA EmptyFunction == ASSUME NEW V, NEW f \in [{} -> V] PROVE f = Nothing
<1>1. Nothing \in [{} -> V]
  BY DEF Nothing
<1> QED
  BY <1>1

LEMMA NothingIsTable == Nothing \in Tables /\ Nothing \in Lists
BY NothingType DEF Tables, Lists

(* Parity.                                                                 *)
LEMMA Turns ==
  ASSUME NEW n \in Nat
  PROVE  /\ n % 2 \in 0..1 /\ (n + 1) % 2 \in 0..1
         /\ n % 2 # (n + 1) % 2
         /\ (n + 2) % 2 = n % 2
OBVIOUS

(* A new file is empty and in order.                                       *)
LEMMA InitIInv == Init => IInv
<1> SUFFICES ASSUME Init PROVE IInv
  OBVIOUS
<1> USE DEF Init, LmdbInit
<1>1. Newest = InitialMeta
  BY DEF Newest, InitialMeta
<1>2. InitialMeta \in Meta
  BY DEF InitialMeta, Meta, NoPage
<1>3. TypeOK
  <2>1. EmptyPage \in Contents(Tables)
    BY NothingIsTable DEF EmptyPage, Contents
  <2>2. FileType
    BY <1>2, <2>1 DEF FileType, File
  <2>3. ReadersType
    BY Sizes DEF ReadersType, FreeSlot, NotReading, ReaderPcs
  <2>4. LocksType
    BY DEF LocksType, Pcs
  <2> QED
    BY <2>2, <2>3, <2>4 DEF TypeOK
<1>4. OneWriter
  BY NotProcs DEF OneWriter, WriterPcs
<1>5. TxnidIsCurrent
  BY <1>1 DEF TxnidIsCurrent, InitialMeta
<1>6. MetasTakeTurns
  <2>1. Newest.txnid = 0 /\ metas[1].txnid = 0 /\ metas[0] = Newest
    BY <1>1 DEF InitialMeta
  <2> QED
    BY <2>1 DEF MetasTakeTurns
<1>7. NewestIsGood
  <2>1. FreeList = Nothing /\ Stored = Nothing /\ Roots(Newest) = {}
    BY <1>1 DEF FreeList, Stored, IdlIn, DataIn, Roots, InitialMeta, NoPage
  <2>2. GoodList(Nothing, {}, 1, 0)
    BY NothingIsTable, NothingType DEF GoodList
  <2>3. GoodMeta(InitialMeta, Nothing)
    <3>1. /\ InitialMeta.last = 1 /\ InitialMeta.txnid = 0
          /\ InitialMeta.main = NoPage /\ Roots(InitialMeta) = {}
      BY <1>1, <2>1 DEF InitialMeta
    <3> QED
      BY <1>2, <2>2, <3>1 DEF GoodMeta
  <2>4. history[0] = Nothing
    BY DEF With
  <2> QED
    BY <1>1, <2>1, <2>3, <2>4, Sizes DEF NewestIsGood, InitialMeta
<1>8. WriterIsGood
  BY DEF WriterIsGood, WriterOK
<1> QED
  BY <1>3, <1>4, <1>5, <1>6, <1>7, <1>8 DEF IInv

-----------------------------------------------------------------------------
LEMMA NewestType == FileType => Newest \in Meta
<1> SUFFICES ASSUME FileType PROVE Newest \in Meta
  OBVIOUS
<1>1. metas[0] \in Meta /\ metas[1] \in Meta
  BY DEF FileType
<1> QED
  BY <1>1 DEF Newest

(* Which steps touch the file at all.                                      *)
LEMMA FileSteps ==
  ASSUME Next
  PROVE  \/ UNCHANGED <<cache, disk, metas, history>>
         \/ \E p \in Procs : FlushPage(p) \/ SyncPages(p) \/ WriteMeta(p) \/ WriteFails(p)
         \/ PowerFails
<1>1. ASSUME NEW p \in Procs, LmdbStep(p)
      PROVE  \/ UNCHANGED <<cache, disk, metas, history>>
             \/ FlushPage(p) \/ SyncPages(p) \/ WriteMeta(p) \/ WriteFails(p)
  BY <1>1 DEF LmdbStep, OpenFirst, OpenSecond, OpenShared, CloseEnv, CloseLast, BeginFails,
     LoadTxnid, StoreTxnid, CompareTxnid, CopyRoots, EndRead, Publish, Killed, Gone, fileVars
<1>2. ASSUME NEW p \in Procs,
             Prepare(p) \/ PopenFails(p) \/ ScanLineAfterError(p) \/ Commit(p) \/ BeginRead(p)
      PROVE  UNCHANGED <<cache, disk, metas, history>>
  BY <1>2 DEF Prepare, BeginWrite, PopenFails, ScanLineAfterError, Commit, CommitNothing,
     CommitSave, BeginRead, ClaimSlot, Gone, fileVars
<1>3. ASSUME NEW p \in Procs, NEW ip \in Ips, NEW mac \in Macs, NEW name \in Names,
             ScanLine(p, ip, mac, name)
      PROVE  UNCHANGED <<cache, disk, metas, history>>
  BY <1>3 DEF ScanLine, fileVars
<1> QED
  BY <1>1, <1>2, <1>3 DEF Next, Library

(* The pages a transaction is about to write are in the map, and no root   *)
(* of the newest meta page is among them.                                  *)
LEMMA OwnPages ==
  ASSUME NEW t, NEW m, m \in Meta, t \in WriteTxn(Tables), t.next <= MaxPg,
         GoodList(IdlOf(t), {t.main, t.free} \ {NoPage}, t.next - 1, t.txnid)
  PROVE  /\ Own(t, m) \subseteq 2..MaxPg - 1
         /\ Own(t, m) \cap Roots(m) = {}
         /\ t.main \in (2..MaxPg - 1) \cup {NoPage}
         /\ t.free \in (2..MaxPg - 1) \cup {NoPage}
<1>1. t.next \in Nat /\ t.main \in Nat /\ t.free \in Nat
  BY DEF WriteTxn
<1>2. {t.main, t.free} \ {NoPage} \subseteq 2..t.next - 1
  BY DEF GoodList
<1>3. {t.main, t.free} \ {NoPage} \subseteq 2..MaxPg - 1
  BY <1>1, <1>2, Sizes
<1> QED
  BY <1>3 DEF Own, Roots

(* What mdb_page_flush does to the file and to the transaction: a page     *)
(* that nothing refers to yet gets its content, and the transaction finds  *)
(* the same under every root as before.                                    *)
LEMMA FlushKeeps ==
  ASSUME IInv, NEW p \in Procs, FlushPage(p)
  PROVE  /\ cache' \in File
         /\ \A h \in Roots(Newest) : cache'[h] = cache[h]
         /\ Saved(Tables, txn[p], Newest, FreeList)'
         /\ DataOf(txn[p])' = DataOf(txn[p]) /\ IdlOf(txn[p])' = IdlOf(txn[p])
         /\ \A q \in Procs \ {p} : txn'[q] = txn[q]
         /\ txn'[p].pglast = txn[p].pglast /\ txn'[p].pgoldest = txn[p].pgoldest
         /\ txn'[p].freed = txn[p].freed
         /\ \E g \in Own(txn[p], Newest) : \A h \in 2..MaxPg - 1 : h # g => cache'[h] = cache[h]
         /\ UNCHANGED <<disk, metas, history>>
<1> DEFINE t == txn[p]
           g == Min(DOMAIN t.dirty)
           u == [t EXCEPT !.dirty = [h \in DOMAIN @ \ {g} |-> @[h]]]
<1>1. Saved(Tables, t, Newest, FreeList)
  BY DEF IInv, WriterIsGood, WriterOK, FlushPage
<1>2. t \in WriteTxn(Tables) /\ t.dirty \in Partial(Nat, Contents(Tables))
  BY <1>1 DEF Saved, WriteTxn
<1>3. DOMAIN t.dirty \in SUBSET Nat /\ t.dirty \in [DOMAIN t.dirty -> Contents(Tables)]
  BY <1>2, PartialDef
<1>4. DOMAIN t.dirty # {}
  <2>1. t.dirty # Nothing
    BY DEF FlushPage
  <2> QED
    BY <1>3, <2>1, EmptyFunction
<1>5. g \in DOMAIN t.dirty
  BY <1>3, <1>4, MinOfNat
<1>6. /\ Own(t, Newest) \subseteq 2..MaxPg - 1
      /\ Own(t, Newest) \cap Roots(Newest) = {}
  BY <1>1, NewestType, OwnPages DEF Saved, Started, IInv, TypeOK
<1>7. g \in 2..MaxPg - 1 /\ g \notin Roots(Newest)
  BY <1>1, <1>5, <1>6 DEF Saved
<1>8. /\ cache' = [cache EXCEPT ![g] = t.dirty[g]]
      /\ UNCHANGED <<disk, metas, history>>
  BY DEF FlushPage
<1>9. txn'[p] = u /\ \A q \in Procs \ {p} : txn'[q] = txn[q]
  BY DEF FlushPage, IInv, TypeOK, LocksType
<1>10. cache' \in File
  BY <1>3, <1>5, <1>7, <1>8 DEF IInv, TypeOK, FileType, File
<1>11. \A h \in Roots(Newest) : cache'[h] = cache[h]
  BY <1>7, <1>8 DEF IInv, TypeOK, FileType, File
<1>12. /\ u \in WriteTxn(Tables)
       /\ u.txnid = t.txnid /\ u.main = t.main /\ u.free = t.free /\ u.next = t.next
       /\ u.freed = t.freed /\ u.pghead = t.pghead /\ u.pglast = t.pglast /\ u.error = t.error
       /\ u.pgoldest = t.pgoldest
       /\ u.dirty = [h \in DOMAIN t.dirty \ {g} |-> t.dirty[h]]
  <2>1. [h \in DOMAIN t.dirty \ {g} |-> t.dirty[h]] \in Partial(Nat, Contents(Tables))
    BY <1>3, PartialDef
  <2> QED
    BY <1>2, <2>1 DEF WriteTxn
<1>13. \A h : PageOf(t, h) = IF h \in DOMAIN u.dirty THEN u.dirty[h] ELSE cache'[h]
  BY <1>3, <1>5, <1>7, <1>8, <1>12 DEF PageOf, IInv, TypeOK, FileType, File
<1> HIDE DEF u
<1>14. \A h : (PageOf(txn[p], h))' = PageOf(txn[p], h)
  BY <1>9, <1>13 DEF PageOf
<1>15. DataOf(txn[p])' = DataOf(txn[p]) /\ IdlOf(txn[p])' = IdlOf(txn[p])
  BY <1>9, <1>12, <1>14 DEF DataOf, IdlOf
<1>16. Newest' = Newest /\ FreeList' = FreeList
  BY <1>8 DEF Newest, FreeList, IdlIn
<1>17. Started(u, Newest, FreeList) /\ Own(u, Newest) = Own(t, Newest)
  BY <1>1, <1>12 DEF Saved, Started, Own
<1>18. GoodList(IdlOf(t), {u.main, u.free} \ {NoPage}, u.next - 1, u.txnid)
  BY <1>1, <1>12 DEF Saved
<1>19. Saved(Tables, txn[p], Newest, FreeList)'
  <2>1. DOMAIN u.dirty \subseteq Own(u, Newest) /\ ~u.error
    BY <1>1, <1>12, <1>17 DEF Saved
  <2> HIDE DEF t
  <2> QED
    BY <1>9, <1>12, <1>15, <1>16, <1>17, <1>18, <2>1 DEF Saved, t
<1>20. g \in Own(t, Newest) /\ \A h \in 2..MaxPg - 1 : h # g => cache'[h] = cache[h]
  BY <1>1, <1>5, <1>7, <1>8 DEF Saved, IInv, TypeOK, FileType, File
<1> QED
  BY <1>8, <1>9, <1>10, <1>11, <1>12, <1>15, <1>19, <1>20

(* The newest meta page stays good as long as the pages it refers to do.   *)
LEMMA RootsKept ==
  ASSUME NewestIsGood, Newest' = Newest, history' = history,
         \A h \in Roots(Newest) : disk'[h] = disk[h] /\ cache'[h] = disk[h]
  PROVE  NewestIsGood' /\ FreeList' = FreeList /\ Stored' = Stored
<1>1. FreeList' = FreeList
  <2>1. CASE Newest.free = NoPage
    BY <2>1 DEF FreeList, IdlIn
  <2>2. CASE Newest.free # NoPage
    <3>1. disk'[Newest.free] = disk[Newest.free]
      BY <2>2 DEF Roots
    <3> QED
      BY <2>2, <3>1 DEF FreeList, IdlIn
  <2> QED
    BY <2>1, <2>2
<1>2. Stored' = Stored
  <2>1. CASE Newest.main = NoPage
    BY <2>1 DEF Stored, DataIn
  <2>2. CASE Newest.main # NoPage
    <3>1. disk'[Newest.main] = disk[Newest.main]
      BY <2>2 DEF Roots
    <3> QED
      BY <2>2, <3>1 DEF Stored, DataIn
  <2> QED
    BY <2>1, <2>2
<1>3. NewestIsGood'
  BY <1>1, <1>2 DEF NewestIsGood
<1> QED
  BY <1>1, <1>2, <1>3

(* fdatasync.                                                              *)
LEMMA SyncKeeps ==
  ASSUME IInv, NEW p \in Procs, SyncPages(p)
  PROVE  /\ NewestIsGood' /\ FreeList' = FreeList /\ Stored' = Stored
         /\ disk' = cache' /\ UNCHANGED <<cache, metas, txn>>
<1>1. disk' = cache /\ UNCHANGED <<cache, metas, history, txn>>
  BY DEF SyncPages
<1>2. Newest' = Newest
  BY <1>1 DEF Newest
<1>3. \A h \in Roots(Newest) : disk'[h] = disk[h] /\ cache'[h] = disk[h]
  BY <1>1 DEF IInv, NewestIsGood
<1> QED
  BY <1>1, <1>2, <1>3, RootsKept DEF IInv

(* The other meta page is overwritten, and is the newest one then.         *)
LEMMA MetaIsWritten ==
  ASSUME IInv, NEW p \in Procs, WriteMeta(p)
  PROVE  /\ Newest' = [txnid |-> txn[p].txnid, main |-> txn[p].main, free |-> txn[p].free,
                       last |-> txn[p].next - 1]
         /\ txn[p].txnid = Newest.txnid + 1
         /\ metas' \in [0..1 -> Meta]
         /\ MetasTakeTurns'
         /\ NewestIsGood'
         /\ Stored' = DataOf(txn[p])
<1> DEFINE t == txn[p]
           n == Newest.txnid
           new == [txnid |-> t.txnid, main |-> t.main, free |-> t.free, last |-> t.next - 1]
<1>1. /\ Saved(Tables, t, Newest, FreeList)
      /\ t.dirty = Nothing /\ disk = cache
  BY DEF IInv, WriterIsGood, WriterOK, WriteMeta
<1>2. /\ t \in WriteTxn(Tables) /\ t.txnid = n + 1
      /\ t.next > Newest.last /\ t.next <= MaxPg
      /\ t.main = t.free => t.main = NoPage
      /\ GoodList(IdlOf(t), {t.main, t.free} \ {NoPage}, t.next - 1, t.txnid)
  BY <1>1 DEF Saved, Started
<1>3. Newest \in Meta /\ metas \in [0..1 -> Meta] /\ n \in Nat /\ Newest.last \in Nat
  BY NewestType DEF IInv, TypeOK, FileType, Meta
<1>4. t.txnid \in Nat /\ t.main \in Nat /\ t.free \in Nat /\ t.next \in Nat
  BY <1>2 DEF WriteTxn
<1>5. Newest.last > 0
  BY DEF IInv, NewestIsGood, GoodMeta
<1>6. new \in Meta
  <2>1. t.next - 1 \in Nat
    BY <1>2, <1>3, <1>4
  <2> QED
    BY <1>4, <2>1 DEF Meta
<1>7. /\ metas' = [metas EXCEPT ![(n + 1) % 2] = new]
      /\ history' = With(history, t.txnid, DataIn(cache, t.main))
      /\ UNCHANGED <<cache, disk>>
  BY <1>2 DEF WriteMeta
<1> HIDE DEF new
<1>8. /\ n % 2 \in 0..1 /\ (n + 1) % 2 \in 0..1 /\ n % 2 # (n + 1) % 2
      /\ (n + 2) % 2 = n % 2
  BY <1>3, Turns
<1>9. /\ metas' \in [0..1 -> Meta]
      /\ metas'[(n + 1) % 2] = new
      /\ metas'[n % 2] = Newest
  BY <1>3, <1>6, <1>7, <1>8 DEF IInv, MetasTakeTurns
<1>10. new.txnid = n + 1
  BY <1>2 DEF new
<1>11. Newest' = new
  <2>1. Newest' = IF metas'[0].txnid < metas'[1].txnid THEN metas'[1] ELSE metas'[0]
    BY DEF Newest
  <2>2. CASE n % 2 = 0 /\ (n + 1) % 2 = 1
    BY <1>3, <1>9, <1>10, <2>1, <2>2
  <2>3. CASE n % 2 = 1 /\ (n + 1) % 2 = 0
    BY <1>3, <1>9, <1>10, <2>1, <2>3
  <2> QED
    BY <1>8, <2>2, <2>3
<1>12. MetasTakeTurns'
  <2>1. metas'[(Newest'.txnid + 1) % 2].txnid = n /\ metas'[Newest'.txnid % 2] = Newest'
    BY <1>3, <1>8, <1>9, <1>10, <1>11
  <2>2. n < Newest'.txnid
    BY <1>3, <1>10, <1>11
  <2> QED
    BY <2>1, <2>2 DEF MetasTakeTurns
<1>13. IdlOf(t) = IdlIn(cache, t.free) /\ DataOf(t) = DataIn(cache, t.main)
  BY <1>1, NothingType DEF IdlOf, IdlIn, DataOf, DataIn, PageOf
<1>14. /\ new.main = t.main /\ new.free = t.free /\ new.last = t.next - 1
       /\ new.txnid = t.txnid
  BY DEF new
<1>15. FreeList' = IdlOf(t) /\ Stored' = DataOf(t)
  BY <1>1, <1>7, <1>11, <1>13, <1>14 DEF FreeList, Stored, IdlIn, DataIn
<1>16. NewestIsGood'
  <2>1. GoodMeta(new, IdlOf(t))
    <3>1. Roots(new) = {t.main, t.free} \ {NoPage}
      BY <1>14 DEF Roots
    <3>2. new.last > 0
      BY <1>2, <1>3, <1>4, <1>5, <1>14
    <3> QED
      BY <1>2, <1>6, <1>14, <3>1, <3>2 DEF GoodMeta
  <2>2. new.last < MaxPg
    BY <1>2, <1>4, <1>14, Sizes
  <2>3. cache' = disk'
    BY <1>1, <1>7
  <2>4. history'[t.txnid] = DataOf(t)
    BY <1>7, <1>13 DEF With
  <2> QED
    BY <1>11, <1>14, <1>15, <2>1, <2>2, <2>3, <2>4 DEF NewestIsGood
<1> QED
  BY <1>2, <1>9, <1>11, <1>12, <1>15, <1>16 DEF new

(* A write that fails can only change the older meta page.                 *)
LEMMA FailureKeeps ==
  ASSUME IInv, NEW p \in Procs, WriteFails(p)
  PROVE  /\ metas' \in [0..1 -> Meta]
         /\ Newest' = Newest
         /\ MetasTakeTurns'
         /\ UNCHANGED <<cache, disk, history>>
<1> DEFINE t == txn[p]
           n == Newest.txnid
           other == (n + 1) % 2
<1>1. Saved(Tables, t, Newest, FreeList)
  BY DEF IInv, WriterIsGood, WriterOK, WriteFails
<1>2. t \in WriteTxn(Tables) /\ t.txnid = n + 1 /\ t.main \in Nat /\ t.free \in Nat
  BY <1>1 DEF Saved, Started, WriteTxn
<1>3. Newest \in Meta /\ metas \in [0..1 -> Meta] /\ n \in Nat
  BY NewestType DEF IInv, TypeOK, FileType, Meta
<1>4. /\ n % 2 \in 0..1 /\ other \in 0..1 /\ n % 2 # other
  BY <1>3, Turns
<1>5. \/ metas' = metas
      \/ metas' = [metas EXCEPT ![other].main = t.main, ![other].free = t.free]
  BY <1>2 DEF WriteFails
<1>6. /\ metas' \in [0..1 -> Meta]
      /\ metas'[n % 2] = metas[n % 2]
      /\ metas'[other].txnid = metas[other].txnid
  <2>1. \A m \in Meta : [m EXCEPT !.main = t.main, !.free = t.free] \in Meta
    BY <1>2 DEF Meta
  <2>2. CASE metas' = metas
    BY <1>3, <2>2
  <2>3. CASE metas' = [metas EXCEPT ![other].main = t.main, ![other].free = t.free]
    <3>1. metas[other] \in Meta
      BY <1>3, <1>4
    <3>2. metas' = [metas EXCEPT ![other] = [@ EXCEPT !.main = t.main, !.free = t.free]]
      BY <1>3, <1>4, <2>3
    <3>3. metas'[other] = [metas[other] EXCEPT !.main = t.main, !.free = t.free]
      BY <1>3, <1>4, <3>2
    <3>4. metas'[other].txnid = metas[other].txnid
      BY <3>1, <3>3 DEF Meta
    <3> QED
      BY <1>3, <1>4, <2>1, <3>1, <3>2, <3>4
  <2> QED
    BY <1>5, <2>2, <2>3
<1>7. MetasTakeTurns
  BY DEF IInv
<1>8. metas'[n % 2] = Newest
  BY <1>6, <1>7 DEF MetasTakeTurns
<1>9. \/ metas'[other].txnid < n
      \/ n = 0 /\ metas'[1].txnid = 0
  <2>1. CASE metas[other].txnid < n
    BY <1>6, <2>1
  <2>2. CASE n = 0 /\ metas[1].txnid = 0
    BY <1>6, <2>2
  <2> QED
    BY <1>7, <2>1, <2>2 DEF MetasTakeTurns
<1>10. Newest' = Newest
  <2>1. Newest' = IF metas'[0].txnid < metas'[1].txnid THEN metas'[1] ELSE metas'[0]
    BY DEF Newest
  <2>2. metas'[0].txnid \in Nat /\ metas'[1].txnid \in Nat
    BY <1>6 DEF Meta
  <2>3. CASE n % 2 = 0 /\ other = 1
    BY <1>3, <1>8, <1>9, <2>1, <2>2, <2>3
  <2>4. CASE n % 2 = 1 /\ other = 0
    BY <1>3, <1>8, <1>9, <2>1, <2>2, <2>4
  <2> QED
    BY <1>4, <2>3, <2>4
<1>11. MetasTakeTurns'
  BY <1>8, <1>9, <1>10 DEF MetasTakeTurns
<1>12. UNCHANGED <<cache, disk, history>>
  BY DEF WriteFails
<1> QED
  BY <1>6, <1>10, <1>11, <1>12

(* What is lost with the power is not what the newest meta page refers to. *)
LEMMA PowerKeeps ==
  ASSUME IInv, PowerFails
  PROVE  /\ cache' \in File /\ disk' \in File
         /\ NewestIsGood' /\ Stored' = Stored
         /\ UNCHANGED <<metas, history>>
<1>1. PICK lost \in SUBSET {g \in DOMAIN cache : cache[g] # disk[g]} :
        cache' = [g \in DOMAIN cache |-> IF g \in lost THEN disk[g] ELSE cache[g]]
  BY DEF PowerFails
<1>2. disk' = cache' /\ UNCHANGED <<metas, history>>
  BY DEF PowerFails
<1>3. cache \in File /\ disk \in File
  BY DEF IInv, TypeOK, FileType
<1>4. cache' \in File
  BY <1>1, <1>3 DEF File
<1>5. Roots(Newest) \subseteq DOMAIN cache
  <2>1. Newest.last \in Nat /\ Newest.last < MaxPg
    BY NewestType DEF IInv, TypeOK, NewestIsGood, Meta
  <2>2. Roots(Newest) \subseteq 2..Newest.last
    BY DEF IInv, NewestIsGood, GoodMeta, GoodList
  <2> QED
    BY <1>3, <2>1, <2>2, Sizes DEF File
<1>6. \A h \in Roots(Newest) : disk'[h] = disk[h] /\ cache'[h] = disk[h]
  BY <1>1, <1>2, <1>5 DEF IInv, NewestIsGood
<1>7. Newest' = Newest
  BY <1>2 DEF Newest
<1> QED
  BY <1>2, <1>4, <1>6, <1>7, RootsKept DEF IInv

-----------------------------------------------------------------------------
(* The steps of a process, without the program's part of them.             *)
Opens(p) == OpenFirst(p) \/ OpenSecond(p) \/ OpenShared(p)
Closes(p) == CloseEnv(p) \/ CloseLast(p)
Reads(p) ==
  BeginFails(p) \/ ClaimSlot(p) \/ LoadTxnid(p) \/ StoreTxnid(p) \/ CompareTxnid(p)
    \/ CopyRoots(p) \/ EndRead(p)
Scans(p) == \E ip \in Ips, mac \in Macs, name \in Names : ScanLine(p, ip, mac, name)
Commits(p) ==
  CommitNothing(p) \/ CommitSave(p) \/ FlushPage(p) \/ SyncPages(p) \/ WriteMeta(p)
    \/ Publish(p) \/ WriteFails(p)

LEMMA Steps ==
  ASSUME Next
  PROVE  \/ \E p \in Procs : \/ Opens(p) \/ Closes(p) \/ Reads(p) \/ BeginWrite(p)
                             \/ Scans(p) \/ Commits(p) \/ Gone(p)
         \/ PowerFails
<1>1. ASSUME NEW p \in Procs, LmdbStep(p)
      PROVE  Opens(p) \/ Closes(p) \/ Reads(p) \/ Commits(p) \/ Gone(p)
  BY <1>1 DEF LmdbStep, Opens, Closes, Reads, Commits, Killed
<1>2. ASSUME NEW p \in Procs,
             Prepare(p) \/ PopenFails(p) \/ ScanLineAfterError(p) \/ Commit(p) \/ BeginRead(p)
      PROVE  Reads(p) \/ BeginWrite(p) \/ Commits(p) \/ Gone(p)
  BY <1>2 DEF Prepare, PopenFails, ScanLineAfterError, Commit, BeginRead, Reads, Commits
<1> QED
  BY <1>1, <1>2 DEF Next, Library, Scans

LEMMA FileStep ==
  ASSUME IInv, Next
  PROVE  FileType' /\ MetasTakeTurns' /\ NewestIsGood'
<1>1. CASE UNCHANGED <<cache, disk, metas, history>>
  <2>1. Newest' = Newest /\ \A h \in Roots(Newest) : disk'[h] = disk[h] /\ cache'[h] = disk[h]
    BY <1>1 DEF Newest, IInv, NewestIsGood
  <2>2. NewestIsGood'
    BY <1>1, <2>1, RootsKept DEF IInv
  <2> QED
    BY <1>1, <2>1, <2>2 DEF IInv, TypeOK, FileType, MetasTakeTurns
<1>2. ASSUME NEW p \in Procs, FlushPage(p)
      PROVE  FileType' /\ MetasTakeTurns' /\ NewestIsGood'
  <2>1. /\ cache' \in File
        /\ \A h \in Roots(Newest) : cache'[h] = cache[h]
        /\ UNCHANGED <<disk, metas, history>>
    BY <1>2, FlushKeeps
  <2>2. Newest' = Newest
    BY <2>1 DEF Newest
  <2>3. NewestIsGood'
    BY <2>1, <2>2, RootsKept DEF IInv, NewestIsGood
  <2> QED
    BY <2>1, <2>2, <2>3 DEF IInv, TypeOK, FileType, MetasTakeTurns
<1>3. ASSUME NEW p \in Procs, SyncPages(p)
      PROVE  FileType' /\ MetasTakeTurns' /\ NewestIsGood'
  <2>1. NewestIsGood' /\ disk' = cache' /\ UNCHANGED <<cache, metas>>
    BY <1>3, SyncKeeps
  <2>2. Newest' = Newest
    BY <2>1 DEF Newest
  <2> QED
    BY <2>1, <2>2 DEF IInv, TypeOK, FileType, MetasTakeTurns
<1>4. ASSUME NEW p \in Procs, WriteMeta(p)
      PROVE  FileType' /\ MetasTakeTurns' /\ NewestIsGood'
  <2>1. UNCHANGED <<cache, disk>>
    BY <1>4 DEF WriteMeta
  <2> QED
    BY <1>4, <2>1, MetaIsWritten DEF IInv, TypeOK, FileType
<1>5. ASSUME NEW p \in Procs, WriteFails(p)
      PROVE  FileType' /\ MetasTakeTurns' /\ NewestIsGood'
  <2>1. /\ metas' \in [0..1 -> Meta] /\ Newest' = Newest /\ MetasTakeTurns'
        /\ UNCHANGED <<cache, disk, history>>
    BY <1>5, FailureKeeps
  <2>2. NewestIsGood'
    BY <2>1, RootsKept DEF IInv, NewestIsGood
  <2> QED
    BY <2>1, <2>2 DEF IInv, TypeOK, FileType
<1>6. CASE PowerFails
  <2>1. cache' \in File /\ disk' \in File /\ NewestIsGood' /\ metas' = metas
    BY <1>6, PowerKeeps
  <2>2. Newest' = Newest
    BY <2>1 DEF Newest
  <2> QED
    BY <2>1, <2>2 DEF IInv, TypeOK, FileType, MetasTakeTurns
<1> QED
  BY <1>1, <1>2, <1>3, <1>4, <1>5, <1>6, FileSteps

(* Slots are claimed one after the other, and never beyond the table.      *)
LEMMA ClaimKeeps ==
  ASSUME TypeOK, NEW p \in Procs, ClaimSlot(p)
  PROVE  ReadersType'
<1> DEFINE unused == {i \in 1..numreaders : readers[i].pid = "nobody"}
           slot == IF unused = {} THEN numreaders + 1 ELSE Min(unused)
<1>1. /\ numreaders \in Nat /\ numreaders <= MaxReaders
      /\ readers \in [Slots -> [pid : Procs \cup {"nobody", "dead"}, txnid : Nat]]
  BY Sizes DEF TypeOK, ReadersType
<1>2. slot \in 1..numreaders + 1
  <2>1. unused \in SUBSET Nat
    BY <1>1
  <2>2. unused # {} => Min(unused) \in unused
    BY <2>1, MinOfNat
  <2> QED
    BY <1>1, <2>2
<1>3. CASE slot <= MaxReaders
  <2>1. /\ readers' = [readers EXCEPT ![slot] = [pid |-> p, txnid |-> NotReading]]
        /\ numreaders' = Max({numreaders, slot})
        /\ txn' = [txn EXCEPT ![p] = [txnid |-> 0, slot |-> slot]]
        /\ pc' = [pc EXCEPT ![p] = "claimed"]
    BY <1>1, <1>2, <1>3, Sizes DEF ClaimSlot, Goto
  <2> HIDE DEF slot
  <2>2. numreaders' \in 0..MaxReaders
    <3>1. \A y \in {numreaders, slot} : y <= MaxReaders
      BY <1>1, <1>3
    <3>2. Max({numreaders, slot}) \in {numreaders, slot}
      BY <1>1, <1>2, <3>1, Sizes, MaxOfNat
    <3> QED
      BY <1>1, <1>2, <2>1, <3>1, <3>2
  <2>3. slot \in Slots
    BY <1>1, <1>2, <1>3, Sizes DEF Slots
  <2> QED
    BY <1>1, <2>1, <2>2, <2>3 DEF TypeOK, ReadersType, LocksType, NotReading, ReaderPcs
<1>4. CASE slot > MaxReaders
  <2>1. UNCHANGED <<readers, numreaders, txn>> /\ pc' = [pc EXCEPT ![p] = "ended"]
    BY <1>1, <1>2, <1>4, Sizes DEF ClaimSlot, Goto
  <2> QED
    BY <2>1 DEF TypeOK, ReadersType, LocksType, ReaderPcs
<1> QED
  BY <1>1, <1>2, <1>3, <1>4, Sizes

LEMMA ReadersStep ==
  ASSUME IInv, Next
  PROVE  ReadersType'
<1> USE DEF Goto, ReaderPcs
<1> USE Sizes
<1>a. TypeOK
  BY DEF IInv
<1>1. ASSUME NEW p \in Procs, Opens(p) PROVE ReadersType'
  BY <1>a, <1>1 DEF Opens, OpenFirst, OpenSecond, OpenShared, TypeOK, ReadersType, LocksType,
     lockVars
<1>2. ASSUME NEW p \in Procs, Closes(p) PROVE ReadersType'
  BY <1>a, <1>2 DEF Closes, CloseEnv, CloseLast, TypeOK, ReadersType, LocksType
<1>3. ASSUME NEW p \in Procs, Reads(p) PROVE ReadersType'
  <2>1. CASE ClaimSlot(p)
    BY <1>a, <2>1, ClaimKeeps
  <2>2. CASE LoadTxnid(p)
    BY <1>a, <2>2 DEF LoadTxnid, TypeOK, ReadersType, LocksType, lockVars
  <2>3. CASE StoreTxnid(p)
    BY <1>a, <2>3 DEF StoreTxnid, TypeOK, ReadersType, LocksType
  <2>4. CASE CompareTxnid(p)
    BY <1>a, <2>4 DEF CompareTxnid, TypeOK, ReadersType, LocksType, lockVars
  <2>5. CASE CopyRoots(p)
    BY <1>a, <2>5 DEF CopyRoots, TypeOK, ReadersType, LocksType, lockVars
  <2>6. CASE EndRead(p)
    BY <1>a, <2>6 DEF EndRead, TypeOK, ReadersType, LocksType, NotReading
  <2>7. CASE BeginFails(p)
    BY <1>a, <2>7 DEF BeginFails, TypeOK, ReadersType, LocksType, lockVars
  <2> QED
    BY <1>3, <2>1, <2>2, <2>3, <2>4, <2>5, <2>6, <2>7 DEF Reads
<1>4. ASSUME NEW p \in Procs, BeginWrite(p) PROVE ReadersType'
  <2>1. \A i \in Slots : WithoutDead(readers)[i] \in [pid : Procs \cup {"nobody", "dead"}, txnid : Nat]
    BY <1>a DEF WithoutDead, TypeOK, ReadersType
  <2>2. readers' \in [Slots -> [pid : Procs \cup {"nobody", "dead"}, txnid : Nat]]
    BY <1>a, <1>4, <2>1 DEF BeginWrite, WithoutDead, TypeOK, ReadersType
  <2> QED
    BY <1>a, <1>4, <2>2 DEF BeginWrite, TypeOK, ReadersType, LocksType
<1>5. ASSUME NEW p \in Procs, Scans(p) PROVE ReadersType'
  <2>1. PICK ip \in Ips, mac \in Macs, name \in Names : ScanLine(p, ip, mac, name)
    BY <1>5 DEF Scans
  <2>2. /\ UNCHANGED <<readers, numreaders, pc>> /\ pc[p] = "writing"
        /\ \A q \in Procs \ {p} : txn'[q] = txn[q]
    BY <1>a, <2>1 DEF ScanLine, lockVars, TypeOK, LocksType
  <2> QED
    BY <1>a, <2>2 DEF TypeOK, ReadersType
<1>6. ASSUME NEW p \in Procs, Commits(p) PROVE ReadersType'
  <2>1. /\ UNCHANGED <<readers, numreaders>>
        /\ pc[p] \in WriterPcs /\ pc'[p] \in WriterPcs \cup {"ended"}
        /\ \A q \in Procs \ {p} : txn'[q] = txn[q] /\ pc'[q] = pc[q]
    <3>1. CASE CommitNothing(p) \/ CommitSave(p)
      BY <1>a, <3>1 DEF CommitNothing, CommitSave, EndWrite, TypeOK, LocksType, WriterPcs
    <3>2. CASE FlushPage(p) \/ SyncPages(p) \/ WriteMeta(p)
      BY <1>a, <3>2 DEF FlushPage, SyncPages, WriteMeta, lockVars, TypeOK, LocksType, WriterPcs
    <3>3. CASE Publish(p) \/ WriteFails(p)
      BY <1>a, <3>3 DEF Publish, WriteFails, EndWrite, TypeOK, LocksType, WriterPcs
    <3> QED
      BY <1>6, <3>1, <3>2, <3>3 DEF Commits
  <2> QED
    BY <1>a, <2>1 DEF TypeOK, ReadersType, WriterPcs
<1>7. ASSUME NEW p \in Procs, Gone(p) PROVE ReadersType'
  BY <1>a, <1>7 DEF Gone, TypeOK, ReadersType, LocksType
<1>8. CASE PowerFails
  BY <1>a, <1>8 DEF PowerFails, TypeOK, ReadersType, LocksType, FreeSlot, NotReading
<1> QED
  BY <1>1, <1>2, <1>3, <1>4, <1>5, <1>6, <1>7, <1>8, Steps

LEMMA NewestStays ==
  ASSUME IInv, Next, \A p \in Procs : ~WriteMeta(p)
  PROVE  Newest' = Newest
<1>1. CASE UNCHANGED <<cache, disk, metas, history>>
  BY <1>1 DEF Newest
<1>2. ASSUME NEW p \in Procs, FlushPage(p) \/ SyncPages(p) PROVE Newest' = Newest
  BY <1>2 DEF Newest, FlushPage, SyncPages
<1>3. ASSUME NEW p \in Procs, WriteFails(p) PROVE Newest' = Newest
  BY <1>3, FailureKeeps
<1>4. CASE PowerFails
  BY <1>4 DEF Newest, PowerFails
<1> QED
  BY <1>1, <1>2, <1>3, <1>4, FileSteps

(* Who has the mutex, and where everybody stands.                          *)
LEMMA OneWriterStep ==
  ASSUME IInv, Next
  PROVE  LocksType' /\ OneWriter'
<1> USE DEF Goto, WriterPcs, Pcs, ReaderPcs
<1>a. LocksType /\ OneWriter
  BY DEF IInv, TypeOK
<1>b. Newest.txnid \in Nat
  BY NewestType DEF IInv, TypeOK, Meta
<1>1. ASSUME NEW p \in Procs, Opens(p) PROVE LocksType' /\ OneWriter'
  <2>1. CASE OpenFirst(p)
    <3>1. LocksType'
      BY <1>a, <1>b, <2>1 DEF OpenFirst, LocksType
    <3>2. OneWriter'
      BY <1>a, <2>1, NotProcs DEF OpenFirst, OneWriter, LocksType
    <3> QED
      BY <3>1, <3>2
  <2>2. CASE OpenSecond(p)
    BY <1>a, <2>2 DEF OpenSecond, OneWriter, LocksType, lockVars
  <2>3. CASE OpenShared(p)
    BY <1>a, <2>3 DEF OpenShared, OneWriter, LocksType
  <2> QED
    BY <1>1, <2>1, <2>2, <2>3 DEF Opens
<1>2. ASSUME NEW p \in Procs, Closes(p) PROVE LocksType' /\ OneWriter'
  <2>1. CASE CloseEnv(p)
    BY <1>a, <2>1 DEF CloseEnv, OneWriter, LocksType
  <2>2. CASE CloseLast(p)
    BY <1>a, <2>2 DEF CloseLast, OneWriter, LocksType
  <2> QED
    BY <1>2, <2>1, <2>2 DEF Closes
<1>3. ASSUME NEW p \in Procs, Reads(p) PROVE LocksType' /\ OneWriter'
  <2>1. /\ UNCHANGED <<mti_txnid, wmutex, flock>>
        /\ pc[p] \in {"open"} \cup ReaderPcs
        /\ \E place \in {"ended"} \cup ReaderPcs : pc' = [pc EXCEPT ![p] = place]
        /\ txn' = [q \in Procs |-> txn'[q]]
    <3>1. CASE BeginFails(p) \/ ClaimSlot(p) \/ EndRead(p)
      BY <1>a, <3>1 DEF BeginFails, ClaimSlot, EndRead, LocksType, lockVars
    <3>2. CASE LoadTxnid(p) \/ StoreTxnid(p) \/ CompareTxnid(p) \/ CopyRoots(p)
      BY <1>a, <3>2 DEF LoadTxnid, StoreTxnid, CompareTxnid, CopyRoots, LocksType, lockVars
    <3> QED
      BY <1>3, <3>1, <3>2 DEF Reads
  <2>2. PICK place \in {"ended"} \cup ReaderPcs : pc' = [pc EXCEPT ![p] = place]
    BY <2>1
  <2>3. LocksType'
    BY <1>a, <2>1, <2>2 DEF LocksType
  <2>4. \A q \in Procs : /\ pc'[q] \in WriterPcs <=> pc[q] \in WriterPcs
                         /\ pc'[q] \in {"closed", "waiting"} <=> pc[q] \in {"closed", "waiting"}
    BY <1>a, <2>1, <2>2 DEF LocksType
  <2>5. OneWriter'
    BY <1>a, <2>1, <2>4 DEF OneWriter
  <2> QED
    BY <2>3, <2>5
<1>4. ASSUME NEW p \in Procs, BeginWrite(p) PROVE LocksType' /\ OneWriter'
  <2>1. LocksType'
    BY <1>a, <1>b, <1>4 DEF BeginWrite, LastTxnid, LocksType
  <2>2. OneWriter'
    BY <1>a, <1>4, NotProcs DEF BeginWrite, OneWriter, LocksType
  <2> QED
    BY <2>1, <2>2
<1>5. ASSUME NEW p \in Procs, Scans(p) PROVE LocksType' /\ OneWriter'
  BY <1>a, <1>5 DEF Scans, ScanLine, OneWriter, LocksType, lockVars
<1>6. ASSUME NEW p \in Procs, Commits(p) PROVE LocksType' /\ OneWriter'
  <2>1. CASE CommitNothing(p) \/ CommitSave(p)
    BY <1>a, <2>1, NotProcs DEF CommitNothing, CommitSave, EndWrite, OneWriter, LocksType
  <2>2. CASE FlushPage(p) \/ SyncPages(p) \/ WriteMeta(p)
    BY <1>a, <2>2 DEF FlushPage, SyncPages, WriteMeta, OneWriter, LocksType, lockVars
  <2>3. CASE Publish(p)
    <3>1. txn[p].txnid \in Nat
      BY <1>b, <2>3 DEF Publish, IInv, TxnidIsCurrent
    <3> QED
      BY <1>a, <2>3, <3>1, NotProcs DEF Publish, EndWrite, OneWriter, LocksType
  <2>4. CASE WriteFails(p)
    BY <1>a, <2>4, NotProcs DEF WriteFails, EndWrite, OneWriter, LocksType
  <2> QED
    BY <1>6, <2>1, <2>2, <2>3, <2>4 DEF Commits
<1>7. ASSUME NEW p \in Procs, Gone(p) PROVE LocksType' /\ OneWriter'
  BY <1>a, <1>7, NotProcs DEF Gone, OneWriter, LocksType
<1>8. CASE PowerFails
  BY <1>a, <1>8, NotProcs DEF PowerFails, OneWriter, LocksType
<1> QED
  BY <1>1, <1>2, <1>3, <1>4, <1>5, <1>6, <1>7, <1>8, Steps

(* What the lock file says.                                                *)
LEMMA TxnidStep ==
  ASSUME IInv, Next
  PROVE  TxnidIsCurrent'
<1> USE DEF Goto, WriterPcs, ReaderPcs
<1>a. LocksType /\ OneWriter /\ TxnidIsCurrent
  BY DEF IInv, TypeOK
<1>1. ASSUME NEW p \in Procs, WriteMeta(p) PROVE TxnidIsCurrent'
  <2>1. Newest'.txnid = txn[p].txnid
    BY <1>1, MetaIsWritten
  <2>2. /\ wmutex' = wmutex /\ wmutex = p /\ txn' = txn
        /\ pc' = [pc EXCEPT ![p] = "written"]
    BY <1>a, <1>1 DEF WriteMeta, lockVars, OneWriter
  <2>3. wmutex # "nobody"
    BY <2>2, NotProcs
  <2>4. \A q \in Procs : pc'[q] \in WriterPcs => q = p
    BY <1>a, <2>2 DEF OneWriter, LocksType
  <2> QED
    BY <1>a, <2>1, <2>2, <2>3, <2>4 DEF TxnidIsCurrent, LocksType
<1>2. ASSUME \A p \in Procs : ~WriteMeta(p), Newest' = Newest PROVE TxnidIsCurrent'
  <2>1. ASSUME NEW p \in Procs, Opens(p) PROVE TxnidIsCurrent'
    <3>1. CASE OpenFirst(p)
      BY <1>a, <1>2, <3>1 DEF OpenFirst, TxnidIsCurrent, LocksType, OneWriter
    <3>2. CASE OpenSecond(p) \/ OpenShared(p)
      BY <1>a, <1>2, <3>2 DEF OpenSecond, OpenShared, TxnidIsCurrent, LocksType, lockVars
    <3> QED
      BY <2>1, <3>1, <3>2 DEF Opens
  <2>2. ASSUME NEW p \in Procs, Closes(p) PROVE TxnidIsCurrent'
    <3>1. CASE CloseEnv(p)
      BY <1>a, <1>2, <3>1 DEF CloseEnv, TxnidIsCurrent, LocksType
    <3>2. CASE CloseLast(p)
      BY <1>a, <1>2, <3>2 DEF CloseLast, TxnidIsCurrent, LocksType
    <3> QED
      BY <2>2, <3>1, <3>2 DEF Closes
  <2>3. ASSUME NEW p \in Procs, Reads(p) PROVE TxnidIsCurrent'
    <3>1. /\ UNCHANGED <<mti_txnid, wmutex, mutexes>>
          /\ pc'[p] \notin WriterPcs
          /\ \A q \in Procs \ {p} : pc'[q] = pc[q] /\ txn'[q] = txn[q]
      <4>1. CASE BeginFails(p) \/ ClaimSlot(p) \/ EndRead(p)
        BY <1>a, <4>1 DEF BeginFails, ClaimSlot, EndRead, LocksType, lockVars
      <4>2. CASE LoadTxnid(p) \/ StoreTxnid(p) \/ CompareTxnid(p) \/ CopyRoots(p)
        BY <1>a, <4>2 DEF LoadTxnid, StoreTxnid, CompareTxnid, CopyRoots, LocksType, lockVars
      <4> QED
        BY <2>3, <4>1, <4>2 DEF Reads
    <3> QED
      BY <1>a, <1>2, <3>1 DEF TxnidIsCurrent
  <2>4. ASSUME NEW p \in Procs, BeginWrite(p) PROVE TxnidIsCurrent'
    <3>1. LastTxnid = Newest.txnid
      BY <1>a, <2>4 DEF BeginWrite, LastTxnid, TxnidIsCurrent
    <3>2. mti_txnid' = Newest.txnid /\ wmutex' = p
      BY <2>4, <3>1 DEF BeginWrite
    <3>3. pc' = [pc EXCEPT ![p] = "writing"]
      BY <2>4 DEF BeginWrite
    <3>4. \A q \in Procs \ {p} : pc[q] \notin WriterPcs
      BY <1>a, <2>4, NotProcs DEF BeginWrite, OneWriter
    <3> QED
      BY <1>a, <1>2, <3>2, <3>3, <3>4, NotProcs DEF TxnidIsCurrent, LocksType
  <2>5. ASSUME NEW p \in Procs, Scans(p) PROVE TxnidIsCurrent'
    <3>1. /\ UNCHANGED <<mti_txnid, wmutex, mutexes, pc>> /\ pc[p] = "writing"
          /\ \A q \in Procs \ {p} : txn'[q] = txn[q]
      BY <1>a, <2>5 DEF Scans, ScanLine, lockVars, LocksType
    <3> QED
      BY <1>a, <1>2, <3>1 DEF TxnidIsCurrent
  <2>6. ASSUME NEW p \in Procs, Commits(p) PROVE TxnidIsCurrent'
    <3>1. CASE CommitNothing(p) \/ CommitSave(p) \/ WriteFails(p)
      BY <1>a, <1>2, <3>1 DEF CommitNothing, CommitSave, WriteFails, EndWrite, TxnidIsCurrent,
         LocksType
    <3>2. CASE FlushPage(p) \/ SyncPages(p)
      BY <1>a, <1>2, <3>2 DEF FlushPage, SyncPages, TxnidIsCurrent, LocksType, lockVars
    <3>3. CASE Publish(p)
      <4>1. mti_txnid' = Newest.txnid /\ pc' = [pc EXCEPT ![p] = "ended"] /\ wmutex = p
        BY <1>a, <3>3 DEF Publish, EndWrite, TxnidIsCurrent, OneWriter
      <4>2. \A q \in Procs : pc'[q] \notin WriterPcs
        BY <1>a, <4>1 DEF OneWriter, LocksType
      <4> QED
        BY <1>2, <4>1, <4>2 DEF TxnidIsCurrent
    <3> QED
      BY <1>2, <2>6, <3>1, <3>2, <3>3 DEF Commits
  <2>7. ASSUME NEW p \in Procs, Gone(p) PROVE TxnidIsCurrent'
    BY <1>a, <1>2, <2>7 DEF Gone, TxnidIsCurrent, LocksType
  <2>8. CASE PowerFails
    BY <1>a, <1>2, <2>8 DEF PowerFails, TxnidIsCurrent, LocksType
  <2> QED
    BY <2>1, <2>2, <2>3, <2>4, <2>5, <2>6, <2>7, <2>8, Steps
<1> QED
  BY <1>1, <1>2, NewestStays

-----------------------------------------------------------------------------
(* A table with a line of arp-scan put into it is a table.                 *)
LEMMA WithLineType ==
  ASSUME NEW table \in Tables, NEW ip \in Ips, NEW mac \in Macs, NEW name \in Names,
         NEW time \in 1..MaxTxnid
  PROVE  Table!WithLine(table, ip, mac, name, time) \in Tables
<1> DEFINE after == Table!WithLine(table, ip, mac, name, time)
           values == Ips \cup Names \cup 1..MaxTxnid
<1>1. DOMAIN table \in SUBSET Table!Keys /\ table \in [DOMAIN table -> values]
  BY PartialDef DEF Tables
<1>2. Table!LineKeys(ip, mac) \subseteq Table!Keys
  BY DEF Table!LineKeys, Table!Keys, Table!Hosts
<1>3. DOMAIN after = DOMAIN table \cup Table!LineKeys(ip, mac)
  BY DEF Table!WithLine
<1>4. \A k \in DOMAIN after : after[k] \in values
  BY <1>1 DEF Table!WithLine
<1>5. after = [k \in DOMAIN after |-> after[k]]
  BY DEF Table!WithLine
<1> HIDE DEF after
<1>6. after \in [DOMAIN after -> values]
  BY <1>4, <1>5
<1>7. DOMAIN after \in SUBSET Table!Keys
  BY <1>1, <1>2, <1>3
<1> QED
  BY <1>6, <1>7, PartialDef DEF Tables, after

LEMMA OldestIsNat ==
  ASSUME ReadersType, NEW t, t.txnid \in Nat, t.txnid > 0
  PROVE  FindOldest(t) \in Nat
<1> DEFINE others == {readers[i].txnid : i \in {j \in 1..numreaders : readers[j].pid # "nobody"}}
           S == {t.txnid - 1} \cup others
<1>1. 1..numreaders \subseteq Slots
  BY Sizes DEF ReadersType, Slots
<1>2. others \subseteq Nat
  BY <1>1 DEF ReadersType
<1>3. S \in SUBSET Nat /\ S # {}
  BY <1>2
<1>4. Min(S) \in S
  BY <1>3, MinOfNat
<1>5. Min(S) \in Nat
  BY <1>3, <1>4
<1> QED
  BY <1>5 DEF FindOldest

(* What the lemmas about transactions ask for.                             *)
LEMMA WritersGround ==
  ASSUME IInv, NEW p \in Procs, pc[p] = "writing"
  PROVE  /\ Nothing \in Tables /\ MaxPg \in Nat
         /\ cache \in [2..MaxPg - 1 -> Contents(Tables)]
         /\ GoodMeta(Newest, FreeList) /\ Newest.last < MaxPg
         /\ Newest.txnid \in Nat /\ Newest.txnid < MaxTxnid
         /\ Books(Tables, txn[p], Newest, FreeList)
         /\ IdlOf(txn[p]) = FreeList
         /\ txn[p].txnid = Newest.txnid + 1
         /\ FindOldest(txn[p]) \in Nat
         /\ DataOf(txn[p]) \in Tables
<1>1. /\ Nothing \in Tables /\ MaxPg \in Nat
      /\ cache \in [2..MaxPg - 1 -> Contents(Tables)]
      /\ GoodMeta(Newest, FreeList) /\ Newest.last < MaxPg
      /\ Newest.txnid \in Nat
  BY NothingIsTable, Sizes, NewestType DEF IInv, TypeOK, FileType, File, NewestIsGood, Meta
<1>2. /\ Books(Tables, txn[p], Newest, FreeList)
      /\ IdlOf(txn[p]) = FreeList /\ Newest.txnid < MaxTxnid
  BY DEF IInv, WriterIsGood, WriterOK
<1>3. txn[p].txnid = Newest.txnid + 1 /\ txn[p] \in WriteTxn(Tables)
  BY <1>2 DEF Books, Started
<1>4. FindOldest(txn[p]) \in Nat
  BY <1>1, <1>3, OldestIsNat DEF IInv, TypeOK
<1>5. txn[p].main \in (2..MaxPg - 1) \cup {NoPage}
  <2>1. txn[p].next \in Nat /\ txn[p].next <= MaxPg
    BY <1>2, <1>3 DEF WriteTxn, Books, Started
  <2>2. txn[p].main \in 2..txn[p].next - 1 \/ txn[p].main = NoPage
    BY <1>2 DEF Books, Ledger, Started, Own, Roots
  <2> QED
    BY <1>1, <2>1, <2>2
<1>6. DataOf(txn[p]) \in Tables
  <2>1. ContentOf(txn[p], txn[p].main) \in Contents(Tables)
    BY <1>1, <1>3, <1>5, ContentType
  <2>2. DataOf(txn[p]) = ContentOf(txn[p], txn[p].main).data
    BY ContentsOfRoots
  <2> QED
    BY <2>1, <2>2 DEF Contents
<1> QED
  BY <1>1, <1>2, <1>3, <1>4, <1>6

(* A transaction begins with what is stored.                               *)
LEMMA BeginKeeps ==
  ASSUME IInv, NEW p \in Procs, BeginWrite(p)
  PROVE  WriterOK(p)' /\ DataOf(txn[p])' = Stored /\ Stored' = Stored
<1> DEFINE m == Newest
           t == NewWrite(m.txnid + 1, m)
<1>1. m \in Meta /\ GoodMeta(m, FreeList) /\ m.last < MaxPg /\ m.txnid \in Nat
  BY NewestType DEF IInv, TypeOK, NewestIsGood, Meta
<1>2. LastTxnid = m.txnid /\ m.txnid < MaxTxnid
  <2>1. LastTxnid = m.txnid
    BY DEF IInv, TxnidIsCurrent, BeginWrite, LastTxnid
  <2> QED
    BY <2>1 DEF BeginWrite
<1>3. metas[LastTxnid % 2] = m
  BY <1>2 DEF IInv, MetasTakeTurns
<1>4. txn'[p] = t /\ UNCHANGED <<cache, disk, metas>> /\ pc'[p] = "writing"
  BY <1>2, <1>3 DEF BeginWrite, fileVars, Goto, IInv, TypeOK, LocksType
<1>5. Newest' = m
  BY <1>4 DEF Newest
<1>6. FreeList' = FreeList /\ Stored' = Stored
  BY <1>4, <1>5 DEF FreeList, IdlIn, Stored, DataIn
<1>7. t \in WriteTxn(Tables)
  <2>1. Nothing \in Partial(Nat, Contents(Tables))
    BY NothingType
  <2> QED
    BY <1>1, <2>1 DEF NewWrite, WriteTxn, Meta
<1>8. /\ t.txnid = m.txnid + 1 /\ t.main = m.main /\ t.free = m.free /\ t.next = m.last + 1
      /\ t.freed = {} /\ t.pghead = {} /\ t.pglast = 0 /\ t.dirty = Nothing
  BY DEF NewWrite
<1> HIDE DEF t
<1>9. Own(t, m) = {} /\ Roots(m) \ {t.main, t.free} = {}
  BY <1>8 DEF Own, Roots
<1>10. Started(t, m, FreeList)
  <2>1. t.next > m.last /\ t.next <= MaxPg
    BY <1>1, <1>8, Sizes DEF Meta
  <2> QED
    BY <1>1, <1>8, <1>9, <2>1 DEF Started, GoodMeta
<1>11. Ledger(t, m, FreeList, {})
  <2>1. After(FreeList, 0) = Pages(FreeList)
    <3>1. \A i \in DOMAIN FreeList : i > 0
      BY <1>1 DEF GoodMeta, GoodList
    <3> QED
      BY <3>1 DEF After, Pages
  <2>2. Roots(m) \cup Pages(FreeList) = 2..t.next - 1
    <3>1. t.next - 1 = m.last
      BY <1>1, <1>8 DEF Meta
    <3> QED
      BY <1>1, <3>1 DEF GoodMeta, GoodList, Pages
  <2> QED
    BY <1>8, <1>9, <2>1, <2>2 DEF Ledger
<1>12. Books(Tables, t, m, FreeList)
  BY <1>7, <1>8, <1>9, <1>10, <1>11, NothingType DEF Books
<1>13. /\ IdlIn(cache, m.free) = FreeList
       /\ DataIn(cache, m.main) = Stored
  <2>1. \A g \in Roots(m) : cache[g] = disk[g]
    BY DEF IInv, NewestIsGood
  <2> QED
    BY <2>1 DEF Roots, IdlIn, DataIn, FreeList, Stored
<1>14. IdlOf(txn[p])' = FreeList /\ DataOf(txn[p])' = Stored
  <2>1. \A h : PageOf(txn[p], h)' = cache[h]
    BY <1>4, <1>8, NothingType DEF PageOf
  <2> QED
    BY <1>4, <1>8, <1>13, <2>1 DEF IdlOf, IdlIn, DataOf, DataIn
<1>15. WriterOK(p)'
  BY <1>2, <1>4, <1>5, <1>6, <1>12, <1>14 DEF WriterOK
<1> QED
  BY <1>6, <1>14, <1>15

(* A line is put into the table, or into nothing if there is no page left. *)
LEMMA ScanKeeps ==
  ASSUME IInv, NEW p \in Procs, NEW ip \in Ips, NEW mac \in Macs, NEW name \in Names,
         ScanLine(p, ip, mac, name)
  PROVE  /\ WriterOK(p)'
         /\ \/ DataOf(txn[p])' = DataOf(txn[p])
            \/ DataOf(txn[p])' = Table!WithLine(DataOf(txn[p]), ip, mac, name, txn[p].txnid)
         /\ txn[p].txnid \in 1..MaxTxnid
<1> DEFINE after == Table!WithLine(DataOf(txn[p]), ip, mac, name, txn[p].txnid)
           u == PutAll(txn[p], after)
<1>1. pc[p] = "writing"
  BY DEF ScanLine
<1>2. txn'[p] = u /\ UNCHANGED <<cache, disk, metas, pc>>
  BY DEF ScanLine, fileVars, IInv, TypeOK, LocksType
<1>3. ~txn[p].error
  BY DEF ScanLine
<1>4. /\ Newest.txnid \in Nat /\ Newest.txnid < MaxTxnid
      /\ txn[p].txnid = Newest.txnid + 1 /\ DataOf(txn[p]) \in Tables
  BY <1>1, WritersGround
<1>5. txn[p].txnid \in 1..MaxTxnid
  BY <1>4, Sizes
<1>6. after \in Tables
  BY <1>4, <1>5, WithLineType
<1> HIDE DEF after
<1>7. /\ Books(Tables, u, Newest, FreeList)
      /\ IdlOf(u) = FreeList
      /\ DataOf(u) = IF u.error THEN DataOf(txn[p]) ELSE after
  BY <1>1, <1>3, <1>6, WritersGround, PutKeepsBooks
<1> HIDE DEF u
<1>8. Newest' = Newest /\ FreeList' = FreeList
  BY <1>2 DEF Newest, FreeList, IdlIn
<1>9. IdlOf(txn[p])' = IdlOf(u) /\ DataOf(txn[p])' = DataOf(u)
  BY <1>2 DEF IdlOf, DataOf, PageOf
<1>10. WriterOK(p)'
  BY <1>1, <1>2, <1>4, <1>7, <1>8, <1>9 DEF WriterOK
<1> QED
  BY <1>5, <1>7, <1>9, <1>10 DEF after

(* mdb_freelist_save leaves the table alone.                               *)
LEMMA CommitKeeps ==
  ASSUME IInv, NEW p \in Procs, CommitSave(p), pc'[p] # "ended"
  PROVE  WriterOK(p)' /\ pc'[p] = "flushing" /\ DataOf(txn[p])' = DataOf(txn[p])
<1> DEFINE u == FreelistSave(txn[p])
<1>1. pc[p] = "writing" /\ UNCHANGED <<cache, disk, metas>> /\ ~txn[p].error
  BY DEF CommitSave, fileVars
<1>2. ~u.error /\ txn'[p] = u /\ pc'[p] = "flushing"
  BY DEF CommitSave, EndWrite, Goto, IInv, TypeOK, LocksType
<1>3. Saved(Tables, u, Newest, FreeList) /\ DataOf(u) = DataOf(txn[p])
  BY <1>1, <1>2, WritersGround, SaveIsGood
<1> HIDE DEF u
<1>4. Newest' = Newest /\ FreeList' = FreeList
  BY <1>1 DEF Newest, FreeList, IdlIn
<1>5. IdlOf(txn[p])' = IdlOf(u) /\ DataOf(txn[p])' = DataOf(u)
  BY <1>1, <1>2 DEF IdlOf, DataOf, PageOf
<1>6. Saved(Tables, txn[p], Newest, FreeList)'
  BY <1>2, <1>3, <1>4, <1>5 DEF Saved
<1> QED
  BY <1>2, <1>3, <1>5, <1>6 DEF WriterOK

(* The transaction in progress stays good.                                 *)
LEMMA WriterStep ==
  ASSUME IInv, Next
  PROVE  WriterIsGood'
<1> SUFFICES ASSUME NEW q \in Procs PROVE WriterOK(q)'
  BY DEF WriterIsGood
<1>a. /\ LocksType /\ OneWriter /\ OneWriter' /\ LocksType'
      /\ WriterOK(q)
  BY OneWriterStep DEF IInv, TypeOK, WriterIsGood
<1>b. CASE pc'[q] \notin {"writing", "flushing", "synced"}
  BY <1>b DEF WriterOK
<1>c. ASSUME pc'[q] = pc[q], txn'[q] = txn[q], UNCHANGED <<cache, disk, metas>>
      PROVE  WriterOK(q)'
  <2>1. Newest' = Newest /\ FreeList' = FreeList
    BY <1>c DEF Newest, FreeList, IdlIn
  <2>2. IdlOf(txn[q])' = IdlOf(txn[q])
    BY <1>c DEF IdlOf, PageOf
  <2>3. Saved(Tables, txn[q], Newest, FreeList) => Saved(Tables, txn[q], Newest, FreeList)'
    BY <1>c, <2>1, <2>2 DEF Saved
  <2> QED
    BY <1>a, <1>c, <2>1, <2>2, <2>3 DEF WriterOK
<1>d. ASSUME NEW p \in Procs, pc[p] \in WriterPcs, p # q, pc'[q] = pc[q] PROVE WriterOK(q)'
  BY <1>a, <1>b, <1>d DEF OneWriter, WriterPcs
<1>1. ASSUME NEW p \in Procs, Opens(p) \/ Closes(p) \/ Reads(p) \/ Gone(p)
      PROVE  WriterOK(q)'
  <2>1. /\ UNCHANGED <<cache, disk, metas>>
        /\ pc'[p] \notin {"writing", "flushing", "synced"}
        /\ \A r \in Procs \ {p} : pc'[r] = pc[r] /\ txn'[r] = txn[r]
    <3>1. CASE Opens(p)
      BY <1>a, <3>1 DEF Opens, OpenFirst, OpenSecond, OpenShared, Goto, fileVars, LocksType
    <3>2. CASE Closes(p)
      BY <1>a, <3>2 DEF Closes, CloseEnv, CloseLast, Goto, fileVars, LocksType
    <3>3. CASE BeginFails(p) \/ ClaimSlot(p) \/ EndRead(p)
      BY <1>a, <3>3 DEF BeginFails, ClaimSlot, EndRead, Goto, fileVars, LocksType
    <3>4. CASE LoadTxnid(p) \/ StoreTxnid(p) \/ CompareTxnid(p) \/ CopyRoots(p)
      BY <1>a, <3>4 DEF LoadTxnid, StoreTxnid, CompareTxnid, CopyRoots, Goto, fileVars, LocksType
    <3>5. CASE Gone(p)
      BY <1>a, <3>5 DEF Gone, Goto, fileVars, LocksType
    <3> QED
      BY <1>1, <3>1, <3>2, <3>3, <3>4, <3>5 DEF Reads
  <2> QED
    BY <1>b, <1>c, <2>1
<1>2. ASSUME NEW p \in Procs, BeginWrite(p) PROVE WriterOK(q)'
  <2>1. CASE q = p
    BY <1>2, <2>1, BeginKeeps
  <2>2. CASE q # p
    <3>1. pc[q] \notin WriterPcs
      BY <1>2, <1>a, NotProcs DEF BeginWrite, OneWriter
    <3>2. pc'[q] = pc[q]
      BY <1>2, <1>a, <2>2 DEF BeginWrite, Goto, LocksType
    <3> QED
      BY <1>b, <3>1, <3>2 DEF WriterPcs
  <2> QED
    BY <2>1, <2>2
<1>3. ASSUME NEW p \in Procs, Scans(p) PROVE WriterOK(q)'
  <2>1. PICK ip \in Ips, mac \in Macs, name \in Names : ScanLine(p, ip, mac, name)
    BY <1>3 DEF Scans
  <2>2. pc[p] \in WriterPcs /\ pc' = pc
    BY <2>1 DEF ScanLine, WriterPcs
  <2> QED
    BY <1>d, <2>1, <2>2, ScanKeeps
<1>4. ASSUME NEW p \in Procs, Commits(p) PROVE WriterOK(q)'
  <2>1. /\ pc[p] \in WriterPcs
        /\ \A r \in Procs \ {p} : pc'[r] = pc[r]
    <3>1. CASE CommitNothing(p) \/ CommitSave(p)
      BY <1>a, <3>1 DEF CommitNothing, CommitSave, EndWrite, Goto, LocksType, WriterPcs
    <3>2. CASE FlushPage(p) \/ SyncPages(p) \/ WriteMeta(p)
      BY <1>a, <3>2 DEF FlushPage, SyncPages, WriteMeta, Goto, LocksType, WriterPcs
    <3>3. CASE Publish(p) \/ WriteFails(p)
      BY <1>a, <3>3 DEF Publish, WriteFails, EndWrite, Goto, LocksType, WriterPcs
    <3> QED
      BY <1>4, <3>1, <3>2, <3>3 DEF Commits
  <2>2. CASE q # p
    BY <1>d, <2>1, <2>2
  <2>3. CASE q = p
    <3>1. CASE pc'[p] \in {"written", "ended"}
      BY <1>b, <2>3, <3>1
    <3>2. CASE CommitNothing(p) \/ Publish(p) \/ WriteFails(p) \/ WriteMeta(p)
      <4>1. pc'[p] \in {"written", "ended"}
        BY <1>a, <3>2 DEF CommitNothing, Publish, WriteFails, WriteMeta, EndWrite, Goto, LocksType
      <4> QED
        BY <3>1, <4>1
    <3>3. CASE CommitSave(p)
      BY <2>3, <3>1, <3>3, CommitKeeps
    <3>4. CASE FlushPage(p)
      <4>1. pc'[p] = "flushing"
        BY <3>4 DEF FlushPage
      <4> QED
        BY <2>3, <3>4, <4>1, FlushKeeps DEF WriterOK
    <3>5. CASE SyncPages(p)
      <4>1. /\ pc[p] = "flushing" /\ txn[p].dirty = Nothing /\ pc'[p] = "synced"
            /\ disk' = cache' /\ UNCHANGED <<cache, metas, txn>> /\ FreeList' = FreeList
        BY <1>a, <3>5, SyncKeeps DEF SyncPages, Goto, LocksType
      <4>2. Newest' = Newest
        BY <4>1 DEF Newest
      <4>3. Saved(Tables, txn[p], Newest, FreeList)
        BY <1>a, <2>3, <4>1 DEF WriterOK
      <4>4. IdlOf(txn[p])' = IdlOf(txn[p])
        BY <4>1 DEF IdlOf, PageOf
      <4>5. Saved(Tables, txn[p], Newest, FreeList)'
        BY <4>1, <4>2, <4>3, <4>4 DEF Saved
      <4> QED
        BY <2>3, <4>1, <4>5 DEF WriterOK
    <3> QED
      BY <1>4, <3>2, <3>3, <3>4, <3>5 DEF Commits
  <2> QED
    BY <2>2, <2>3
<1>5. CASE PowerFails
  BY <1>5, <1>b DEF PowerFails
<1> QED
  BY <1>1, <1>2, <1>3, <1>4, <1>5, Steps

LEMMA NextIInv == IInv /\ [Next]_vars => IInv'
<1> SUFFICES ASSUME IInv, [Next]_vars PROVE IInv'
  OBVIOUS
<1>1. CASE Next
  BY <1>1, FileStep, ReadersStep, OneWriterStep, TxnidStep, WriterStep DEF IInv, TypeOK
<1>2. CASE UNCHANGED vars
  <2> USE <1>2 DEF vars, lmdbVars, fileVars, lockVars
  <2>1. Newest' = Newest /\ FreeList' = FreeList /\ Stored' = Stored
    BY DEF Newest, FreeList, IdlIn, Stored, DataIn
  <2>2. TypeOK'
    BY DEF IInv, TypeOK, FileType, ReadersType, LocksType
  <2>3. OneWriter' /\ TxnidIsCurrent' /\ MetasTakeTurns' /\ NewestIsGood'
    BY <2>1 DEF IInv, OneWriter, TxnidIsCurrent, MetasTakeTurns, NewestIsGood
  <2>4. ASSUME NEW q \in Procs PROVE WriterOK(q)'
    <3>1. IdlOf(txn[q])' = IdlOf(txn[q])
      BY DEF IdlOf, PageOf
    <3>2. Saved(Tables, txn[q], Newest, FreeList) => Saved(Tables, txn[q], Newest, FreeList)'
      BY <2>1, <3>1 DEF Saved
    <3>3. WriterOK(q)
      BY DEF IInv, WriterIsGood
    <3> QED
      BY <2>1, <3>1, <3>2, <3>3 DEF WriterOK
  <2> QED
    BY <2>2, <2>3, <2>4 DEF IInv, WriterIsGood
<1> QED
  BY <1>1, <1>2

(* The inductive invariant.                                                *)
LEMMA StoreInvariant == Spec => []IInv
BY InitIInv, NextIInv, PTL DEF Spec

(* The variables of the file, of the lock file and of the transactions     *)
(* keep their types: in particular no process ever claims a slot beyond    *)
(* the reader table (mdb_txn_renew0).                                      *)
THEOREM TypesAreKept == Spec => []TypeOK
<1>1. IInv => TypeOK
  BY DEF IInv
<1> QED
  BY <1>1, StoreInvariant, PTL

(* A committed scan is on the disk: the pages of the newest meta page are  *)
(* synced before it is written, whatever fails and whoever is killed.      *)
THEOREM ScansAreDurable == Spec => []CommittedIsDurable
<1>1. IInv => CommittedIsDurable
  BY DEF IInv, NewestIsGood, CommittedIsDurable
<1> QED
  BY <1>1, StoreInvariant, PTL

(* The free list and the two trees share the pages of the file out: none   *)
(* is lost, none is in two places (mdb_page_alloc, mdb_freelist_save).     *)
THEOREM PagesAreShared == Spec => []PagesAccountedFor
<1>1. IInv => PagesAccountedFor
  BY DEF IInv, NewestIsGood, GoodMeta, GoodList, Roots, FreeList, PagesAccountedFor
<1> QED
  BY <1>1, StoreInvariant, PTL

-----------------------------------------------------------------------------
(* ScanStore is implemented.  pending is what the one process finds whose  *)
(* transaction may still be committed.                                     *)
InScan == {"writing", "flushing", "synced"}

LEMMA PendingIs ==
  ASSUME OneWriter, NEW p \in Procs, pc[p] \in InScan
  PROVE  Pending = <<DataOf(txn[p])>>
<1>1. Scanning = {p}
  BY DEF Scanning, InScan, OneWriter, WriterPcs
<1>2. (CHOOSE q \in Scanning : TRUE) = p
  BY <1>1
<1> QED
  BY <1>1, <1>2 DEF Pending

LEMMA PendingWillBe ==
  ASSUME OneWriter', NEW p \in Procs, pc'[p] \in InScan
  PROVE  Pending' = <<DataOf(txn[p])'>>
<1>1. Scanning' = {p}
  BY DEF Scanning, InScan, OneWriter, WriterPcs
<1>2. (CHOOSE q \in Scanning' : TRUE) = p
  BY <1>1
<1> QED
  BY <1>1, <1>2 DEF Pending, DataOf, PageOf

LEMMA NonePending ==
  /\ (\A p \in Procs : pc[p] \notin InScan) => Pending = <<>>
  /\ (\A p \in Procs : pc'[p] \notin InScan) => Pending' = <<>>
BY DEF Pending, Scanning, InScan

(* Steps that a user of the store does not notice.                         *)
LEMMA Unnoticed ==
  ASSUME OneWriter, OneWriter', Stored' = Stored,
         \A q \in Procs : /\ pc'[q] \in InScan <=> pc[q] \in InScan
                          /\ pc[q] \in InScan => DataOf(txn[q])' = DataOf(txn[q])
  PROVE  UNCHANGED <<Stored, Pending>>
<1>1. CASE \A q \in Procs : pc[q] \notin InScan
  BY <1>1, NonePending
<1>2. CASE \E q \in Procs : pc[q] \in InScan
  <2>1. PICK q \in Procs : pc[q] \in InScan
    BY <1>2
  <2>2. Pending = <<DataOf(txn[q])>>
    BY <2>1, PendingIs
  <2>3. Pending' = <<DataOf(txn[q])'>>
    BY <2>1, PendingWillBe
  <2> QED
    BY <2>1, <2>2, <2>3
<1> QED
  BY <1>1, <1>2

(* The scan in progress is given up.                                       *)
LEMMA GivenUp ==
  ASSUME OneWriter, Stored' = Stored, NEW p \in Procs, pc[p] \in InScan,
         \A q \in Procs : pc'[q] \notin InScan
  PROVE  Table!Abandon
<1>1. Pending = <<DataOf(txn[p])>> /\ Pending' = <<>>
  BY PendingIs, NonePending
<1> QED
  BY <1>1 DEF Table!Abandon, Table!NoScan

LEMMA SimulatesNext ==
  ASSUME IInv, Next
  PROVE  [Table!Next]_<<Stored, Pending>>
<1> DEFINE Result == Table!Next \/ UNCHANGED <<Stored, Pending>>
<1>a. LocksType /\ OneWriter /\ LocksType' /\ OneWriter'
  BY OneWriterStep DEF IInv, TypeOK
<1>b. ASSUME UNCHANGED <<cache, disk, metas>> PROVE Stored' = Stored
  BY <1>b DEF Stored, DataIn, Newest
<1>c. ASSUME NEW q \in Procs, cache' = cache, txn'[q] = txn[q]
      PROVE  DataOf(txn[q])' = DataOf(txn[q])
  BY <1>c DEF DataOf, PageOf
(* Nobody else is scanning.                                                *)
<1>d. ASSUME NEW p \in Procs, pc[p] \in WriterPcs
      PROVE  \A q \in Procs \ {p} : pc[q] \notin InScan
  BY <1>a, <1>d DEF OneWriter, WriterPcs, InScan
<1>1. ASSUME NEW p \in Procs, Opens(p) \/ Closes(p) \/ Reads(p)
      PROVE  Result
  <2>1. /\ UNCHANGED <<cache, disk, metas>>
        /\ pc[p] \notin InScan /\ pc'[p] \notin InScan
        /\ \A r \in Procs \ {p} : pc'[r] = pc[r] /\ txn'[r] = txn[r]
    <3>1. CASE Opens(p)
      BY <1>a, <3>1 DEF Opens, OpenFirst, OpenSecond, OpenShared, Goto, fileVars, LocksType, InScan
    <3>2. CASE Closes(p)
      BY <1>a, <3>2 DEF Closes, CloseEnv, CloseLast, Goto, fileVars, LocksType, InScan
    <3>3. CASE BeginFails(p) \/ ClaimSlot(p) \/ EndRead(p)
      BY <1>a, <3>3 DEF BeginFails, ClaimSlot, EndRead, Goto, fileVars, LocksType, InScan
    <3>4. CASE LoadTxnid(p) \/ StoreTxnid(p) \/ CompareTxnid(p) \/ CopyRoots(p)
      BY <1>a, <3>4 DEF LoadTxnid, StoreTxnid, CompareTxnid, CopyRoots, Goto, fileVars,
         LocksType, InScan
    <3> QED
      BY <1>1, <3>1, <3>2, <3>3, <3>4 DEF Reads
  <2> QED
    BY <1>a, <1>b, <1>c, <2>1, Unnoticed
<1>2. ASSUME NEW p \in Procs, BeginWrite(p) PROVE Result
  <2>1. DataOf(txn[p])' = Stored /\ Stored' = Stored
    BY <1>2, BeginKeeps
  <2>2. pc'[p] = "writing"
    BY <1>2, <1>a DEF BeginWrite, Goto, LocksType
  <2>3. Pending' = <<Stored>>
    BY <1>a, <2>1, <2>2, PendingWillBe DEF InScan
  <2>4. Pending = <<>>
    <3>1. \A q \in Procs : pc[q] \notin InScan
      BY <1>2, <1>a, NotProcs DEF BeginWrite, OneWriter, WriterPcs, InScan
    <3> QED
      BY <3>1, NonePending
  <2> QED
    BY <2>1, <2>3, <2>4 DEF Table!Next, Table!Begin, Table!NoScan
<1>3. ASSUME NEW p \in Procs, Scans(p) PROVE Result
  <2>1. PICK ip \in Ips, mac \in Macs, name \in Names : ScanLine(p, ip, mac, name)
    BY <1>3 DEF Scans
  <2>2. pc[p] = "writing" /\ pc' = pc /\ UNCHANGED <<cache, disk, metas>>
    BY <2>1 DEF ScanLine, fileVars
  <2>3. Stored' = Stored
    BY <1>b, <2>2
  <2>4. Pending = <<DataOf(txn[p])>> /\ Pending' = <<DataOf(txn[p])'>>
    BY <1>a, <2>2, PendingIs, PendingWillBe DEF InScan
  <2>5. txn[p].txnid \in 1..MaxTxnid
    BY <2>1, ScanKeeps
  <2>6. CASE DataOf(txn[p])' = DataOf(txn[p])
    BY <2>3, <2>4, <2>6
  <2>7. CASE DataOf(txn[p])' = Table!WithLine(DataOf(txn[p]), ip, mac, name, txn[p].txnid)
    <3>1. Table!Line(ip, mac, name, txn[p].txnid)
      BY <2>3, <2>4, <2>7 DEF Table!Line, Table!NoScan
    <3> QED
      BY <2>5, <3>1 DEF Table!Next
  <2> QED
    BY <2>1, <2>6, <2>7, ScanKeeps
<1>4. ASSUME NEW p \in Procs, Commits(p) PROVE Result
  <2>1. /\ pc[p] \in WriterPcs
        /\ \A r \in Procs \ {p} : pc'[r] = pc[r]
    <3>1. CASE CommitNothing(p) \/ CommitSave(p)
      BY <1>a, <3>1 DEF CommitNothing, CommitSave, EndWrite, Goto, LocksType, WriterPcs
    <3>2. CASE FlushPage(p) \/ SyncPages(p) \/ WriteMeta(p)
      BY <1>a, <3>2 DEF FlushPage, SyncPages, WriteMeta, Goto, LocksType, WriterPcs
    <3>3. CASE Publish(p) \/ WriteFails(p)
      BY <1>a, <3>3 DEF Publish, WriteFails, EndWrite, Goto, LocksType, WriterPcs
    <3> QED
      BY <1>4, <3>1, <3>2, <3>3 DEF Commits
  <2>2. \A q \in Procs \ {p} : pc[q] \notin InScan /\ pc'[q] \notin InScan
    BY <1>d, <2>1
  <2>3. ASSUME pc[p] \in InScan, pc'[p] = "ended", Stored' = Stored PROVE Result
    <3>1. \A q \in Procs : pc'[q] \notin InScan
      BY <2>2, <2>3 DEF InScan
    <3> QED
      BY <1>a, <2>3, <3>1, GivenUp DEF Table!Next
  <2>4. CASE CommitNothing(p)
    <3>1. pc[p] = "writing" /\ pc'[p] = "ended" /\ UNCHANGED <<cache, disk, metas>>
      BY <1>a, <2>4 DEF CommitNothing, EndWrite, Goto, LocksType, fileVars
    <3> QED
      BY <1>b, <2>3, <3>1 DEF InScan
  <2>5. CASE CommitSave(p)
    <3>1. pc[p] = "writing" /\ UNCHANGED <<cache, disk, metas>>
      BY <2>5 DEF CommitSave, fileVars
    <3>2. CASE pc'[p] = "ended"
      BY <1>b, <2>3, <3>1, <3>2 DEF InScan
    <3>3. CASE pc'[p] # "ended"
      <4>1. pc'[p] = "flushing" /\ DataOf(txn[p])' = DataOf(txn[p])
        BY <2>5, <3>3, CommitKeeps
      <4> QED
        BY <1>a, <1>b, <2>2, <3>1, <4>1, Unnoticed DEF InScan
    <3> QED
      BY <3>2, <3>3
  <2>6. CASE FlushPage(p)
    <3>1. DataOf(txn[p])' = DataOf(txn[p]) /\ UNCHANGED <<disk, metas>>
      BY <2>6, FlushKeeps
    <3>2. pc' = pc
      BY <2>6 DEF FlushPage
    <3>3. Stored' = Stored
      BY <3>1 DEF Stored, DataIn, Newest
    <3> QED
      BY <1>a, <2>2, <3>1, <3>2, <3>3, Unnoticed
  <2>7. CASE SyncPages(p)
    <3>1. Stored' = Stored /\ UNCHANGED <<cache, txn>>
      BY <2>7, SyncKeeps
    <3>2. pc[p] = "flushing" /\ pc'[p] = "synced"
      BY <1>a, <2>7 DEF SyncPages, Goto, LocksType
    <3>3. DataOf(txn[p])' = DataOf(txn[p])
      BY <1>c, <3>1
    <3> QED
      BY <1>a, <2>2, <3>1, <3>2, <3>3, Unnoticed DEF InScan
  <2>8. CASE WriteMeta(p)
    <3>1. pc[p] = "synced" /\ pc'[p] = "written"
      BY <1>a, <2>8 DEF WriteMeta, Goto, LocksType
    <3>2. Stored' = DataOf(txn[p])
      BY <2>8, MetaIsWritten
    <3>3. Pending = <<DataOf(txn[p])>>
      BY <1>a, <3>1, PendingIs DEF InScan
    <3>4. Pending' = <<>>
      BY <2>2, <3>1, NonePending DEF InScan
    <3> QED
      BY <3>2, <3>3, <3>4 DEF Table!Next, Table!Commit, Table!NoScan
  <2>9. CASE Publish(p)
    <3>1. pc[p] = "written" /\ pc'[p] = "ended" /\ UNCHANGED <<cache, disk, metas>>
      BY <1>a, <2>9 DEF Publish, EndWrite, Goto, LocksType, fileVars
    <3> QED
      BY <1>a, <1>b, <2>2, <3>1, Unnoticed DEF InScan
  <2>10. CASE WriteFails(p)
    <3>1. pc[p] \in InScan /\ pc'[p] = "ended"
      BY <1>a, <2>10 DEF WriteFails, EndWrite, Goto, LocksType, InScan
    <3>2. Newest' = Newest /\ disk' = disk
      BY <2>10, FailureKeeps
    <3>3. Stored' = Stored
      BY <3>2 DEF Stored, DataIn
    <3> QED
      BY <2>3, <3>1, <3>3
  <2> QED
    BY <1>4, <2>4, <2>5, <2>6, <2>7, <2>8, <2>9, <2>10 DEF Commits
<1>5. ASSUME NEW p \in Procs, Gone(p) PROVE Result
  <2>1. /\ UNCHANGED <<cache, disk, metas>>
        /\ pc'[p] \notin InScan
        /\ \A r \in Procs \ {p} : pc'[r] = pc[r] /\ txn'[r] = txn[r]
    BY <1>a, <1>5 DEF Gone, Goto, fileVars, LocksType, InScan
  <2>2. CASE pc[p] \in InScan
    <3>1. \A q \in Procs : pc'[q] \notin InScan
      BY <1>d, <2>1, <2>2 DEF InScan, WriterPcs
    <3> QED
      BY <1>a, <1>b, <2>1, <2>2, <3>1, GivenUp DEF Table!Next
  <2>3. CASE pc[p] \notin InScan
    BY <1>a, <1>b, <1>c, <2>1, <2>3, Unnoticed
  <2> QED
    BY <2>2, <2>3
<1>6. CASE PowerFails
  <2>1. Stored' = Stored
    BY <1>6, PowerKeeps
  <2>2. \A q \in Procs : pc'[q] \notin InScan
    BY <1>6 DEF PowerFails, InScan
  <2>3. CASE \E q \in Procs : pc[q] \in InScan
    BY <1>a, <2>1, <2>2, <2>3, GivenUp DEF Table!Next
  <2>4. CASE \A q \in Procs : pc[q] \notin InScan
    BY <2>1, <2>2, <2>4, NonePending
  <2> QED
    BY <2>3, <2>4
<1> QED
  BY <1>1, <1>2, <1>3, <1>4, <1>5, <1>6, Steps

LEMMA StartsEmpty == Init => Table!Init
<1> SUFFICES ASSUME Init PROVE Table!Init
  OBVIOUS
<1>1. Stored = Nothing
  BY DEF Init, LmdbInit, Newest, InitialMeta, Stored, DataIn, NoPage
<1>2. [k \in {} |-> 0] = Nothing
  <2>1. [k \in {} |-> 0] \in [{} -> Nat]
    OBVIOUS
  <2> QED
    BY <2>1, EmptyFunction
<1>3. Pending = <<>>
  BY DEF Init, LmdbInit, Pending, Scanning
<1> QED
  BY <1>1, <1>2, <1>3 DEF Table!Init, Table!NoScan

(* Seen from outside, the tools and the library are a table that changes   *)
(* by whole scans, for any number of processes, pages and faults.          *)
THEOREM ScansAreWhole == Spec => ImplementsScanStore
<1>1. IInv /\ [Next]_vars => [Table!Next]_<<Stored, Pending>>
  <2> SUFFICES ASSUME IInv, [Next]_vars PROVE [Table!Next]_<<Stored, Pending>>
    OBVIOUS
  <2>1. CASE UNCHANGED vars
    <3>1. UNCHANGED <<cache, disk, metas, pc, txn>>
      BY <2>1 DEF vars, lmdbVars, fileVars
    <3>2. Stored' = Stored /\ Scanning' = Scanning
      BY <3>1 DEF Stored, DataIn, Newest, Scanning
    <3>3. Pending' = Pending
      BY <3>1, <3>2 DEF Pending, DataOf, PageOf
    <3> QED
      BY <3>2, <3>3
  <2> QED
    BY <2>1, SimulatesNext
<1> QED
  BY <1>1, StoreInvariant, StartsEmpty, PTL
     DEF Spec, ImplementsScanStore, Table!Spec, Table!storeVars

(* Names and times are stored where arp-history looks for them, and every  *)
(* mac with an ip has a whole row.                                         *)
WholeRows(table) ==
  /\ \A h \in Table!Hosts :
       Table!NameOf(h) \in DOMAIN table => table[Table!NameOf(h)] \in Names
  /\ \A h \in Table!Hosts :
       Table!SeenAt(h) \in DOMAIN table => table[Table!SeenAt(h)] \in 1..MaxTxnid
  /\ \A m \in Macs : Table!RowComplete(table, m)

AllWhole == WholeRows(Stored) /\ (Pending # Table!NoScan => WholeRows(Pending[1]))

(* The three kinds of keys do not overlap.                                 *)
LEMMA KeysDiffer ==
  ASSUME NEW g, NEW h
  PROVE  /\ Table!NameOf(g) # Table!IpOf(h) /\ Table!NameOf(g) # Table!SeenAt(h)
         /\ Table!IpOf(g) # Table!SeenAt(h)
         /\ Table!NameOf(g) = Table!NameOf(h) <=> g = h
         /\ Table!IpOf(g) = Table!IpOf(h) <=> g = h
         /\ Table!SeenAt(g) = Table!SeenAt(h) <=> g = h
BY DEF Table!NameOf, Table!IpOf, Table!SeenAt

(* Every line that is put into a table leaves it with whole rows: the five *)
(* puts of a line belong together (arp-scan-util.c, main).                 *)
LEMMA LineKeeps ==
  ASSUME NEW table, WholeRows(table), NEW ip \in Ips, NEW mac \in Macs, NEW name \in Names,
         NEW time \in 1..MaxTxnid
  PROVE  WholeRows(Table!WithLine(table, ip, mac, name, time))
<1> DEFINE after == Table!WithLine(table, ip, mac, name, time)
<1>1. DOMAIN after = DOMAIN table \cup
        {Table!NameOf(ip), Table!NameOf(mac), Table!IpOf(mac), Table!SeenAt(ip),
         Table!SeenAt(mac)}
  BY DEF Table!WithLine, Table!LineKeys
<1>2. \A k \in DOMAIN after :
        after[k] = IF k \notin Table!LineKeys(ip, mac) THEN table[k]
                   ELSE IF k = Table!IpOf(mac) THEN ip
                   ELSE IF k \in {Table!NameOf(ip), Table!NameOf(mac)} THEN name ELSE time
  BY DEF Table!WithLine
<1> HIDE DEF after
<1>3. ASSUME NEW h \in Table!Hosts, Table!NameOf(h) \in DOMAIN after
      PROVE  after[Table!NameOf(h)] \in Names
  <2>1. CASE h \in {ip, mac}
    BY <1>2, <1>3, <2>1, KeysDiffer DEF Table!LineKeys
  <2>2. CASE h \notin {ip, mac}
    <3>1. Table!NameOf(h) \notin Table!LineKeys(ip, mac)
      BY <2>2, KeysDiffer DEF Table!LineKeys
    <3> QED
      BY <1>1, <1>2, <1>3, <3>1 DEF WholeRows, Table!LineKeys
  <2> QED
    BY <2>1, <2>2
<1>4. ASSUME NEW h \in Table!Hosts, Table!SeenAt(h) \in DOMAIN after
      PROVE  after[Table!SeenAt(h)] \in 1..MaxTxnid
  <2>1. CASE h \in {ip, mac}
    BY <1>2, <1>4, <2>1, KeysDiffer DEF Table!LineKeys
  <2>2. CASE h \notin {ip, mac}
    <3>1. Table!SeenAt(h) \notin Table!LineKeys(ip, mac)
      BY <2>2, KeysDiffer DEF Table!LineKeys
    <3> QED
      BY <1>1, <1>2, <1>4, <3>1 DEF WholeRows, Table!LineKeys
  <2> QED
    BY <2>1, <2>2
<1>5. ASSUME NEW m \in Macs, Table!IpOf(m) \in DOMAIN after PROVE Table!RowComplete(after, m)
  <2>1. CASE m = mac
    <3>1. after[Table!IpOf(m)] = ip
      BY <1>2, <1>5, <2>1 DEF Table!LineKeys
    <3> QED
      BY <1>1, <2>1, <3>1 DEF Table!RowComplete
  <2>2. CASE m # mac
    <3>1. Table!IpOf(m) \notin Table!LineKeys(ip, mac)
      BY <2>2, KeysDiffer DEF Table!LineKeys
    <3>2. Table!IpOf(m) \in DOMAIN table /\ after[Table!IpOf(m)] = table[Table!IpOf(m)]
      BY <1>1, <1>2, <1>5, <3>1 DEF Table!LineKeys
    <3> QED
      BY <1>1, <3>2 DEF WholeRows, Table!RowComplete
  <2> QED
    BY <2>1, <2>2
<1>6. \A m \in Macs : Table!RowComplete(after, m)
  BY <1>5 DEF Table!RowComplete
<1> QED
  BY <1>3, <1>4, <1>6 DEF WholeRows, after

(* What is stored, and what a scan in progress finds, always has whole     *)
(* rows.                                                                   *)
THEOREM RowsAreWhole == Table!Spec => []AllWhole
<1>1. Table!Init => AllWhole
  BY DEF Table!Init, AllWhole, WholeRows, Table!RowComplete
<1>2. AllWhole /\ [Table!Next]_(Table!storeVars) => AllWhole'
  <2> SUFFICES ASSUME AllWhole, [Table!Next]_(Table!storeVars) PROVE AllWhole'
    OBVIOUS
  <2>1. CASE Table!Begin
    BY <2>1 DEF Table!Begin, AllWhole, WholeRows, Table!RowComplete
  <2>2. ASSUME NEW ip \in Ips, NEW mac \in Macs, NEW name \in Names, NEW time \in 1..MaxTxnid,
               Table!Line(ip, mac, name, time)
        PROVE  AllWhole'
    <3>1. WholeRows(Table!WithLine(Pending[1], ip, mac, name, time))
      BY <2>2, LineKeeps DEF AllWhole, Table!Line
    <3> QED
      BY <2>2, <3>1 DEF AllWhole, Table!Line, WholeRows, Table!RowComplete
  <2>3. CASE Table!Commit
    BY <2>3 DEF Table!Commit, AllWhole, WholeRows, Table!RowComplete
  <2>4. CASE Table!Abandon
    BY <2>4 DEF Table!Abandon, AllWhole, WholeRows, Table!RowComplete
  <2>5. CASE UNCHANGED Table!storeVars
    BY <2>5 DEF Table!storeVars, AllWhole, WholeRows, Table!RowComplete
  <2> QED
    BY <2>1, <2>2, <2>3, <2>4, <2>5 DEF Table!Next
<1> QED
  BY <1>1, <1>2, PTL DEF Table!Spec

(* arp-history finds a name and a time for every row, if 0 is not a name:  *)
(* it reads whole scans only (arp-history.c, print_table).                 *)
THEOREM RowsHaveEverything ==
  ASSUME NULL \notin Names
  PROVE  Spec => []RowsAreComplete
<1>1. IInv /\ AllWhole => RowsAreComplete
  <2> SUFFICES ASSUME IInv, AllWhole, NEW p \in Procs, pc[p] = "writing",
                      NEW row \in PrintTable(DataOf(txn[p]))
               PROVE  NULL \notin {row.name, row.ts}
    BY DEF RowsAreComplete
  <2> DEFINE table == DataOf(txn[p])
  <2>1. Pending = <<table>>
    BY PendingIs DEF IInv, InScan
  <2>2. WholeRows(table)
    BY <2>1 DEF AllWhole, Table!NoScan
  <2>3. PICK m \in Macs : /\ Table!IpOf(m) \in DOMAIN table
                          /\ row.name = (LET k == Table!NameOf(table[Table!IpOf(m)])
                                         IN IF k \in DOMAIN table THEN table[k] ELSE NULL)
                          /\ row.ts = (LET k == Table!SeenAt(m)
                                       IN IF k \in DOMAIN table THEN table[k] ELSE NULL)
    BY DEF PrintTable
  <2> HIDE DEF table
  <2>4. /\ table[Table!IpOf(m)] \in Ips
        /\ Table!NameOf(table[Table!IpOf(m)]) \in DOMAIN table
        /\ Table!SeenAt(m) \in DOMAIN table
    BY <2>2, <2>3 DEF WholeRows, Table!RowComplete, Table!IpOf
  <2>5. /\ table[Table!NameOf(table[Table!IpOf(m)])] \in Names
        /\ table[Table!SeenAt(m)] \in 1..MaxTxnid
    BY <2>2, <2>4 DEF WholeRows, Table!Hosts
  <2>6. row.name \in Names /\ row.ts \in 1..MaxTxnid
    BY <2>3, <2>4, <2>5 DEF Table!IpOf, Table!NameOf, Table!SeenAt
  <2> QED
    BY <2>6, Sizes DEF NULL
<1> QED
  BY <1>1, StoreInvariant, ScansAreWhole, RowsAreWhole, PTL DEF ImplementsScanStore

-----------------------------------------------------------------------------
(* What differs from the table that is stored has been announced.          *)
NameIn(table, k) == IF k \in DOMAIN table THEN table[k] ELSE NULL

Announced ==
  \A p \in Procs : pc[p] \in InScan =>
    \A h \in Ips \cup Macs :
      LET k == Table!NameOf(h)
      IN NameIn(DataOf(txn[p]), k) # NameIn(Stored, k) => k \in scan.announced

(* A scan in progress changes its table with lines only, and nobody else   *)
(* changes what is stored meanwhile.                                       *)
LEMMA ScanGoesOn ==
  ASSUME IInv, Next, NEW q \in Procs, pc'[q] \in InScan, ~BeginWrite(q)
  PROVE  /\ pc[q] \in InScan /\ Stored' = Stored
         /\ ~Scans(q) => DataOf(txn[q])' = DataOf(txn[q])
<1>a. LocksType /\ OneWriter /\ OneWriter'
  BY OneWriterStep DEF IInv, TypeOK
<1>b. ASSUME UNCHANGED <<cache, disk, metas>> PROVE Stored' = Stored
  BY <1>b DEF Stored, DataIn, Newest
<1>c. ASSUME cache' = cache, txn'[q] = txn[q] PROVE DataOf(txn[q])' = DataOf(txn[q])
  BY <1>c DEF DataOf, PageOf
<1>d. wmutex' = q /\ pc'[q] \in WriterPcs
  BY <1>a DEF OneWriter, WriterPcs, InScan
<1>1. ASSUME NEW p \in Procs, Opens(p) \/ Closes(p) \/ Reads(p) \/ Gone(p)
      PROVE  /\ pc[q] \in InScan /\ Stored' = Stored
             /\ DataOf(txn[q])' = DataOf(txn[q])
  <2>1. /\ UNCHANGED <<cache, disk, metas>>
        /\ pc'[p] \notin InScan
        /\ \A r \in Procs \ {p} : pc'[r] = pc[r] /\ txn'[r] = txn[r]
    <3>1. CASE Opens(p)
      BY <1>a, <3>1 DEF Opens, OpenFirst, OpenSecond, OpenShared, Goto, fileVars, LocksType, InScan
    <3>2. CASE Closes(p)
      BY <1>a, <3>2 DEF Closes, CloseEnv, CloseLast, Goto, fileVars, LocksType, InScan
    <3>3. CASE BeginFails(p) \/ ClaimSlot(p) \/ EndRead(p)
      BY <1>a, <3>3 DEF BeginFails, ClaimSlot, EndRead, Goto, fileVars, LocksType, InScan
    <3>4. CASE LoadTxnid(p) \/ StoreTxnid(p) \/ CompareTxnid(p) \/ CopyRoots(p)
      BY <1>a, <3>4 DEF LoadTxnid, StoreTxnid, CompareTxnid, CopyRoots, Goto, fileVars,
         LocksType, InScan
    <3>5. CASE Gone(p)
      BY <1>a, <3>5 DEF Gone, Goto, fileVars, LocksType, InScan
    <3> QED
      BY <1>1, <3>1, <3>2, <3>3, <3>4, <3>5 DEF Reads
  <2> QED
    BY <1>b, <1>c, <2>1
<1>2. ASSUME NEW p \in Procs, BeginWrite(p) PROVE FALSE
  <2>1. p = q
    BY <1>2, <1>d DEF BeginWrite
  <2> QED
    BY <1>2, <2>1
<1>3. ASSUME NEW p \in Procs, Scans(p)
      PROVE  p = q /\ pc[q] \in InScan /\ Stored' = Stored
  <2>1. PICK ip \in Ips, mac \in Macs, name \in Names : ScanLine(p, ip, mac, name)
    BY <1>3 DEF Scans
  <2>2. pc[p] = "writing" /\ pc' = pc /\ UNCHANGED <<cache, disk, metas>>
    BY <2>1 DEF ScanLine, fileVars
  <2>3. p = q
    BY <1>a, <2>2 DEF OneWriter, WriterPcs, InScan
  <2> QED
    BY <1>b, <2>2, <2>3
<1>4. ASSUME NEW p \in Procs, Commits(p)
      PROVE  /\ pc[q] \in InScan /\ Stored' = Stored
             /\ DataOf(txn[q])' = DataOf(txn[q])
  <2>1. /\ pc[p] \in WriterPcs
        /\ \A r \in Procs \ {p} : pc'[r] = pc[r]
    <3>1. CASE CommitNothing(p) \/ CommitSave(p)
      BY <1>a, <3>1 DEF CommitNothing, CommitSave, EndWrite, Goto, LocksType, WriterPcs
    <3>2. CASE FlushPage(p) \/ SyncPages(p) \/ WriteMeta(p)
      BY <1>a, <3>2 DEF FlushPage, SyncPages, WriteMeta, Goto, LocksType, WriterPcs
    <3>3. CASE Publish(p) \/ WriteFails(p)
      BY <1>a, <3>3 DEF Publish, WriteFails, EndWrite, Goto, LocksType, WriterPcs
    <3> QED
      BY <1>4, <3>1, <3>2, <3>3 DEF Commits
  <2>2. p = q
    BY <1>a, <1>d, <2>1 DEF OneWriter, WriterPcs, InScan
  <2>3. CASE CommitNothing(q) \/ WriteMeta(q) \/ Publish(q) \/ WriteFails(q)
    <3>1. pc'[q] \notin InScan
      BY <1>a, <2>3 DEF CommitNothing, WriteMeta, Publish, WriteFails, EndWrite, Goto, LocksType,
         InScan
    <3> QED
      BY <3>1
  <2>4. CASE CommitSave(q)
    <3>1. pc[q] = "writing" /\ UNCHANGED <<cache, disk, metas>>
      BY <2>4 DEF CommitSave, fileVars
    <3>2. pc'[q] # "ended"
      BY DEF InScan
    <3>3. DataOf(txn[q])' = DataOf(txn[q])
      BY <2>4, <3>2, CommitKeeps
    <3> QED
      BY <1>b, <3>1, <3>3 DEF InScan
  <2>5. CASE FlushPage(q)
    <3>1. DataOf(txn[q])' = DataOf(txn[q]) /\ UNCHANGED <<disk, metas>>
      BY <2>5, FlushKeeps
    <3>2. pc[q] = "flushing"
      BY <2>5 DEF FlushPage
    <3>3. Stored' = Stored
      BY <3>1 DEF Stored, DataIn, Newest
    <3> QED
      BY <3>1, <3>2, <3>3 DEF InScan
  <2>6. CASE SyncPages(q)
    <3>1. Stored' = Stored /\ UNCHANGED <<cache, txn>>
      BY <2>6, SyncKeeps
    <3>2. pc[q] = "flushing"
      BY <2>6 DEF SyncPages
    <3> QED
      BY <1>c, <3>1, <3>2 DEF InScan
  <2> QED
    BY <1>4, <2>2, <2>3, <2>4, <2>5, <2>6 DEF Commits
<1>5. CASE PowerFails
  BY <1>5 DEF PowerFails, InScan
<1> QED
  BY <1>1, <1>2, <1>3, <1>4, <1>5, Steps

(* What a scan has announced is forgotten only with its transaction.       *)
LEMMA AnnouncedStays ==
  ASSUME IInv, Next, NEW q \in Procs, pc'[q] \in InScan, ~BeginWrite(q), ~Scans(q)
  PROVE  scan' = scan
<1>1. wmutex' = q /\ wmutex = q
  BY ScanGoesOn, OneWriterStep DEF IInv, OneWriter, WriterPcs, InScan
<1>2. ASSUME NEW p \in Procs, Prepare(p) PROVE FALSE
  BY <1>1, <1>2 DEF Prepare, BeginWrite
<1>3. ASSUME NEW p \in Procs, Scans(p) PROVE FALSE
  <2>1. pc[p] = "writing"
    BY <1>3 DEF Scans, ScanLine
  <2>2. p = q
    BY <1>1, <2>1 DEF IInv, OneWriter, WriterPcs
  <2> QED
    BY <1>3, <2>2
<1>4. CASE PowerFails
  BY <1>4 DEF PowerFails, InScan
<1> QED
  BY <1>1, <1>2, <1>3, <1>4
     DEF Next, PopenFails, ScanLineAfterError, Commit, BeginRead, Library, Forget, Scans

LEMMA AnnouncedStep ==
  ASSUME IInv, Announced, Next
  PROVE  Announced'
<1> SUFFICES ASSUME NEW p \in Procs, pc'[p] \in InScan, NEW h \in Ips \cup Macs,
                    NameIn(DataOf(txn[p])', Table!NameOf(h)) # NameIn(Stored', Table!NameOf(h))
             PROVE  Table!NameOf(h) \in scan'.announced
  BY DEF Announced, NameIn, Table!NameOf
<1> DEFINE k == Table!NameOf(h)
<1>1. CASE BeginWrite(p)
  BY <1>1, BeginKeeps
<1>2. ASSUME ~BeginWrite(p), Scans(p) PROVE Table!NameOf(h) \in scan'.announced
  <2>1. PICK ip \in Ips, mac \in Macs, name \in Names : ScanLine(p, ip, mac, name)
    BY <1>2 DEF Scans
  <2> DEFINE before == DataOf(txn[p])
             names == {Table!NameOf(ip), Table!NameOf(mac)}
             unknown == names \ DOMAIN before
             renamed == {x \in names \cap DOMAIN before : before[x] # name}
  <2>2. pc[p] \in InScan /\ Stored' = Stored
    BY <1>2, ScanGoesOn
  <2>3. scan'.announced = scan.announced \cup unknown \cup renamed
    BY <2>1 DEF ScanLine
  <2>4. CASE NameIn(before, k) # NameIn(Stored, k)
    BY <2>2, <2>3, <2>4 DEF Announced
  <2>5. CASE NameIn(before, k) = NameIn(Stored, k)
    <3>1. NameIn(DataOf(txn[p])', k) # NameIn(before, k)
      BY <2>2, <2>5
    <3>2. DataOf(txn[p])' = Table!WithLine(before, ip, mac, name, txn[p].txnid)
      BY <2>1, <3>1, ScanKeeps
    <3>3. k \in names
      BY <3>1, <3>2 DEF Table!WithLine, Table!LineKeys, Table!NameOf, Table!IpOf, Table!SeenAt,
         NameIn
    <3>4. k \in DOMAIN DataOf(txn[p])' /\ DataOf(txn[p])'[k] = name
      BY <3>2, <3>3 DEF Table!WithLine, Table!LineKeys, Table!NameOf, Table!IpOf
    <3>5. k \in unknown \cup renamed
      BY <3>1, <3>3, <3>4 DEF NameIn
    <3> QED
      BY <2>3, <3>5
  <2> QED
    BY <2>4, <2>5
<1>3. ASSUME ~BeginWrite(p), ~Scans(p) PROVE Table!NameOf(h) \in scan'.announced
  <2>1. scan' = scan /\ pc[p] \in InScan /\ Stored' = Stored /\ DataOf(txn[p])' = DataOf(txn[p])
    BY <1>3, ScanGoesOn, AnnouncedStays
  <2> QED
    BY <2>1 DEF Announced
<1> QED
  BY <1>1, <1>2, <1>3

(* Whatever a scan changes in the names that are stored, it has announced  *)
(* (arp-scan-util.c, main).                                                *)
THEOREM ChangesWereAnnounced == Spec => ChangesAreAnnounced
<1>1. Init => Announced
  BY DEF Init, LmdbInit, Announced, InScan
<1>2. IInv /\ Announced /\ [Next]_vars => Announced'
  <2> SUFFICES ASSUME IInv, Announced, [Next]_vars PROVE Announced'
    OBVIOUS
  <2>1. CASE UNCHANGED vars
    <3>1. UNCHANGED <<cache, disk, metas, pc, txn, scan>>
      BY <2>1 DEF vars, lmdbVars, fileVars
    <3>2. Stored' = Stored
      BY <3>1 DEF Stored, DataIn, Newest
    <3>3. \A p \in Procs : DataOf(txn[p])' = DataOf(txn[p])
      BY <3>1 DEF DataOf, PageOf
    <3> QED
      BY <3>1, <3>2, <3>3 DEF Announced, NameIn, Table!NameOf
  <2> QED
    BY <2>1, AnnouncedStep
<1>3. IInv /\ Announced /\ [Next]_vars =>
        [\A h \in Ips \cup Macs :
           LET k == Table!NameOf(h)
               Known(table) == IF k \in DOMAIN table THEN table[k] ELSE NULL
           IN Known(Stored') # Known(Stored) => k \in scan.announced]_vars
  <2> SUFFICES ASSUME IInv, Announced, Next, NEW h \in Ips \cup Macs,
                      NameIn(Stored', Table!NameOf(h)) # NameIn(Stored, Table!NameOf(h))
               PROVE  Table!NameOf(h) \in scan.announced
    BY DEF NameIn
  <2>1. Stored' # Stored
    OBVIOUS
  <2>2. Table!Commit
    BY <2>1, SimulatesNext DEF Table!Next, Table!Begin, Table!Line, Table!Abandon
  <2>3. Pending # <<>> /\ Stored' = Pending[1]
    BY <2>2 DEF Table!Commit, Table!NoScan
  <2>4. PICK p \in Procs : pc[p] \in InScan
    BY <2>3, NonePending
  <2>5. Pending = <<DataOf(txn[p])>>
    BY <2>4, PendingIs DEF IInv
  <2>6. Stored' = DataOf(txn[p])
    BY <2>3, <2>5
  <2> QED
    BY <2>4, <2>6 DEF Announced
<1> QED
  BY <1>1, <1>2, <1>3, StoreInvariant, PTL DEF Spec, ChangesAreAnnounced

-----------------------------------------------------------------------------
(***************************************************************************)
(* Proof that a snapshot stays what it is for as long as it is read, for   *)
(* any number of processes, readers, pages and transactions, if a failed   *)
(* write of a meta page leaves nothing in the cache (CacheKeeps is FALSE). *)
(*                                                                         *)
(* A reader pins the transaction number it read from the lock file, but    *)
(* copies its roots later from a meta page that may be two transactions    *)
(* newer by then, and writers look at the reader table without its lock.   *)
(* The argument: a root that any pinned reader has, or may still copy, is  *)
(* in the newest trees or in a record of the free list numbered above its  *)
(* pin (Reach), and no writer takes records above the oldest pin           *)
(* (Cautious), although it remembers an answer of mdb_find_oldest that may *)
(* be out of date.                                                         *)
(***************************************************************************)

(* The transaction has taken over no record numbered b or more, nor may.   *)
Cautious(t, b) == t.pgoldest <= b /\ (t.pglast = 0 \/ t.pglast < b)

(* Pages that cannot be handed out as long as snapshot b is in use.        *)
Reach(m, B, b) == {NoPage, m.main} \cup After(B, b)

(* The free list L of a transaction that started with list B: it keeps the *)
(* records that were not taken over, and records what was freed.           *)
KeepsRecords(t, m, B, L) ==
  /\ \A b \in Nat : b >= t.pglast => After(B, b) \subseteq After(L, b)
  /\ t.freed \subseteq After(L, m.txnid)

-----------------------------------------------------------------------------
LEMMA FetchIsCautious ==
  ASSUME NEW Values, NEW t \in WriteTxn(Values), NEW b \in Nat, Cautious(t, b),
         FindOldest(t) \in Nat, FindOldest(t) <= b,
         NEW n \in Nat, DOMAIN IdlOf(t) \subseteq 1..n, t.pglast <= n
  PROVE  LET u == FetchRecords(t)
         IN Cautious(u, b) /\ t.pglast <= u.pglast
<1> DEFINE u == FetchRecords(t)
           B == IdlOf(t)
           fresh == FindOldest(t)
           old == {id \in DOMAIN B : id > t.pglast /\ MayReuse(t, fresh, id)}
           full == {id \in old : B[id] # {}}
           last == IF full = {} THEN Max(old \cup {t.pglast}) ELSE Min(full)
<1>1. CASE t.pghead # {}
  BY <1>1 DEF FetchRecords, WriteTxn
<1>2. CASE t.pghead = {}
  <2>1. t.pglast \in Nat /\ t.pgoldest \in Nat
    BY DEF WriteTxn
  <2>2. old \in SUBSET Nat /\ full \in SUBSET Nat
    BY <2>1
  <2>3. \A id \in old : t.pglast < id /\ id < b
    <3> SUFFICES ASSUME NEW id \in old PROVE t.pglast < id /\ id < b
      OBVIOUS
    <3>1. id \in Nat /\ id > t.pglast /\ MayReuse(t, fresh, id)
      BY <2>2
    <3> QED
      BY <2>1, <3>1 DEF MayReuse, Cautious
  <2>4. last \in old \cup {t.pglast}
    <3>1. CASE full = {}
      <4>1. old \cup {t.pglast} \in SUBSET Nat
        BY <2>1, <2>2
      <4>2. \A y \in old \cup {t.pglast} : y <= n
        OBVIOUS
      <4> HIDE DEF old
      <4> QED
        BY <3>1, <4>1, <4>2, MaxOfNat
    <3>2. CASE full # {}
      <4>1. Min(full) \in full
        <5> HIDE DEF full
        <5> QED
          BY <2>2, <3>2, MinOfNat
      <4> QED
        BY <3>2, <4>1
    <3> QED
      BY <3>1, <3>2
  <2>5. /\ u.pglast = last
        /\ u.pgoldest \in {t.pgoldest, fresh}
    <3>1. u = [t EXCEPT !.pglast = last,
                        !.pghead = IF full = {} THEN {} ELSE B[last],
                        !.pgoldest = IF full # {} /\ last < @ THEN @ ELSE fresh]
      BY <1>2 DEF FetchRecords
    <3> HIDE DEF last, full, fresh
    <3> QED
      BY <3>1 DEF WriteTxn
  <2>6. (last = t.pglast \/ (t.pglast < last /\ last < b)) /\ last \in Nat
    <3> HIDE DEF last, old
    <3>1. old \subseteq Nat /\ (last \in old \/ last = t.pglast)
      BY <2>2, <2>4
    <3>2. CASE last \in old
      BY <2>3, <3>1, <3>2
    <3>3. CASE last = t.pglast
      BY <2>1, <3>3
    <3> QED
      BY <3>1, <3>2, <3>3
  <2> HIDE DEF last, fresh, u
  <2>7. fresh <= b /\ fresh \in Nat
    BY DEF fresh
  <2> QED
    BY <2>1, <2>5, <2>6, <2>7 DEF Cautious, u
<1> QED
  BY <1>1, <1>2

(* Taking a page from me_pghead or from the end, and using it as a root,   *)
(* has nothing to do with records.                                         *)
LEMMA TouchIsCautious ==
  ASSUME NEW t, NEW m, NEW B, NEW tree \in {"main", "free"}, NEW b \in Nat,
         GoodMeta(m, B), Books(Tables, t, m, B), IdlOf(t) = B,
         Cautious(t, b), FindOldest(t) \in Nat, FindOldest(t) <= b
  PROVE  Cautious(Touch(t, tree), b)
<1> DEFINE f == FetchRecords(t)
           a == TakePage(f)
           c == ContentOf(t, t[tree])
<1>1. CASE t[tree] \in DOMAIN t.dirty
  BY <1>1 DEF Touch
<1>2. CASE t[tree] \notin DOMAIN t.dirty
  <2>1. Touch(t, tree) = MoveRoot(t, tree, a)
    BY <1>2 DEF Touch, PageAlloc
  <2>2. f \in WriteTxn(Tables) /\ Cautious(f, b)
    <3>1. m.txnid \in Nat /\ DOMAIN B \subseteq 1..m.txnid
      BY DEF GoodMeta, GoodList, Meta
    <3>2. t \in WriteTxn(Tables) /\ t.pglast <= m.txnid
      BY <3>1 DEF Books, Started
    <3>3. f \in WriteTxn(Tables)
      BY FetchKeepsBooks DEF Books
    <3> QED
      BY <3>1, <3>2, <3>3, FetchIsCautious
  <2> HIDE DEF f
  <2>3. a.t.pglast = f.pglast /\ a.t.pgoldest = f.pgoldest
    BY <2>2 DEF TakePage, WriteTxn
  <2>4. MoveRoot(t, tree, a).pglast = a.t.pglast /\ MoveRoot(t, tree, a).pgoldest = a.t.pgoldest
    <3>1. a.t \in WriteTxn(Tables)
      BY FetchKeepsBooks, TakeKeepsBooks, Sizes DEF Books, f
    <3> HIDE DEF a
    <3>2. CASE tree = "main"
      BY <3>1, <3>2 DEF MoveRoot, WriteTxn
    <3>3. CASE tree = "free"
      BY <3>1, <3>3 DEF MoveRoot, WriteTxn
    <3> QED
      BY <3>2, <3>3
  <2> QED
    BY <2>1, <2>2, <2>3, <2>4 DEF Cautious
<1> QED
  BY <1>1, <1>2

LEMMA PutIsCautious ==
  ASSUME NEW t, NEW m, NEW B, NEW table \in Tables, NEW b \in Nat,
         cache \in File, GoodMeta(m, B), m.last < MaxPg, Books(Tables, t, m, B), IdlOf(t) = B,
         ~t.error, Cautious(t, b), FindOldest(t) \in Nat, FindOldest(t) <= b
  PROVE  Cautious(PutAll(t, table), b)
<1> DEFINE v == Touch(t, "main")
<1>1. Cautious(v, b)
  BY TouchIsCautious
<1>2. v \in WriteTxn(Tables)
  BY TouchKeepsBooks, NothingIsTable, Sizes DEF Books, File
<1> HIDE DEF v
<1>3. PutAll(t, table) = IF v.error THEN v ELSE [v EXCEPT !.dirty[v.main].data = table]
  BY DEF PutAll, PutEntries, v
<1> QED
  BY <1>1, <1>2, <1>3 DEF Cautious, WriteTxn

(* Saving the free list touches its page first, and keeps the records that *)
(* it has not taken over even then.                                        *)
LEMMA SaveIsCautious ==
  ASSUME NEW t, NEW m, NEW B, NEW b \in Nat,
         cache \in File, GoodMeta(m, B), m.last < MaxPg, Books(Tables, t, m, B), IdlOf(t) = B,
         ~t.error, Cautious(t, b), FindOldest(t) \in Nat, FindOldest(t) <= b
  PROVE  Cautious(FreelistSave(t), b)
<1> DEFINE v == Touch(t, "free")
<1>1. Cautious(v, b)
  BY TouchIsCautious
<1>2. v \in WriteTxn(Tables)
  BY TouchKeepsBooks, NothingIsTable, Sizes DEF Books, File
<1> HIDE DEF v
<1>3. \/ FreelistSave(t) = t
      \/ FreelistSave(t) = v
      \/ FreelistSave(t) = [v EXCEPT !.dirty[v.free].idl = Records(v)]
  BY DEF FreelistSave, SaveRecords, v
<1> QED
  BY <1>1, <1>2, <1>3 DEF Cautious, WriteTxn

LEMMA SaveKeepsRecords ==
  ASSUME NEW t, NEW m, NEW B,
         cache \in File, GoodMeta(m, B), m.last < MaxPg, Books(Tables, t, m, B), IdlOf(t) = B,
         ~t.error, FindOldest(t) \in Nat, ~FreelistSave(t).error
  PROVE  LET u == FreelistSave(t) IN KeepsRecords(u, m, B, IdlOf(u))
<1> DEFINE u == FreelistSave(t)
<1>1. CASE ~ (t.pglast > 0 \/ t.freed # {})
  <2>1. u = t /\ t.freed = {}
    BY <1>1 DEF FreelistSave
  <2> QED
    BY <2>1 DEF KeepsRecords
<1>2. CASE t.pglast > 0 \/ t.freed # {}
  <2> DEFINE v == Touch(t, "free")
             g == v.free
  <2>1. /\ Books(Tables, v, m, B) /\ IdlOf(v) = B
        /\ ~v.error => v.free \in DOMAIN v.dirty
    BY TouchKeepsBooks, NothingIsTable, Sizes DEF File
  <2>2. ~v.error /\ u = [v EXCEPT !.dirty[v.free].idl = Records(v)]
    BY <1>2 DEF FreelistSave, SaveRecords
  <2> HIDE DEF v
  <2>3. v \in WriteTxn(Tables) /\ g \in DOMAIN v.dirty
        /\ v.dirty \in [DOMAIN v.dirty -> Contents(Tables)]
    BY <2>1, <2>2, PartialDef DEF Books, WriteTxn
  <2>4. u.pglast = v.pglast /\ u.freed = v.freed /\ u.free = v.free
        /\ u.dirty = [v.dirty EXCEPT ![g].idl = Records(v)]
    BY <2>2, <2>3 DEF WriteTxn
  <2>5. IdlOf(u) = Records(v)
    <3>1. g # NoPage
      BY <2>1, <2>3 DEF Books, Own
    <3>2. v.dirty[g] \in Contents(Tables)
      BY <2>3
    <3> HIDE DEF u
    <3>3. PageOf(u, g).idl = Records(v)
      BY <2>3, <2>4, <3>2 DEF PageOf, Contents
    <3> QED
      BY <2>4, <3>1, <3>3 DEF IdlOf
  <2> HIDE DEF u
  <2>6. /\ B \in Lists /\ DOMAIN B \subseteq 1..m.txnid /\ m.txnid \in Nat
        /\ v.txnid = m.txnid + 1 /\ v.pglast \in {0} \cup DOMAIN B /\ v.pglast \in Nat
    BY <2>1, <2>3 DEF GoodMeta, GoodList, Meta, Books, Started, WriteTxn
  <2>7. ASSUME NEW id \in DOMAIN B, id > v.pglast
        PROVE  id \in DOMAIN Records(v) /\ Records(v)[id] = B[id]
    <3>1. id # v.pglast /\ id # v.txnid
      BY <2>6, <2>7
    <3> QED
      BY <2>1, <2>7, <3>1 DEF Records, With
  <2>8. v.txnid \in DOMAIN Records(v) /\ Records(v)[v.txnid] = v.freed
    <3>1. v.txnid # v.pglast
      BY <2>6
    <3> QED
      BY <3>1 DEF Records, With
  <2>9. ASSUME NEW b \in Nat, b >= v.pglast
        PROVE  After(B, b) \subseteq After(Records(v), b)
    <3>1. \A id \in DOMAIN B : id > b => id > v.pglast
      BY <2>6, <2>9
    <3> QED
      BY <2>7, <3>1 DEF After
  <2>10. v.freed \subseteq After(Records(v), m.txnid)
    <3>1. v.txnid > m.txnid
      BY <2>6
    <3> QED
      BY <2>8, <3>1 DEF After
  <2> QED
    BY <2>4, <2>5, <2>9, <2>10 DEF KeepsRecords, u
<1> QED
  BY <1>1, <1>2

-----------------------------------------------------------------------------
Pinned == {p \in Procs : pc[p] \in {"pinned", "reading"}}

(* A reader has a slot of its own in the part of the table that is looked  *)
(* at, and what it pins is there for everybody to see.                     *)
SlotsHeld ==
  \A p \in Procs :
    /\ pc[p] \in ReaderPcs => txn[p].slot \in 1..numreaders /\ readers[txn[p].slot].pid = p
    /\ pc[p] \in {"stored", "pinned", "reading"} => readers[txn[p].slot].txnid = txn[p].txnid

(* Nobody pins what is yet to come.                                        *)
PinsArePast ==
  /\ mti_txnid <= Newest.txnid
  /\ \A p \in Pinned : txn[p].txnid <= Newest.txnid

WritersCareful ==
  \A p \in Procs : pc[p] \in InScan =>
    /\ Cautious(txn[p], Newest.txnid)
    /\ \A q \in Pinned : Cautious(txn[p], txn[q].txnid)

RecordsKept ==
  \A p \in Procs : pc[p] \in {"flushing", "synced"} =>
    KeepsRecords(txn[p], Newest, FreeList, IdlOf(txn[p]))

HistoryIsWhole == DOMAIN history = 0..Newest.txnid

SnapshotsInReach ==
  \A p \in Procs : pc[p] = "reading" =>
    /\ txn[p].main \in Reach(Newest, FreeList, txn[p].txnid)
    /\ DataIn(cache, txn[p].main) = txn[p].sees
    /\ \E id \in DOMAIN history : id >= txn[p].txnid /\ history[id] = txn[p].sees

(* The other meta page may still be copied from by a reader that pinned    *)
(* its transaction, or one before.                                         *)
Older == metas[(Newest.txnid + 1) % 2]

OlderIsGood ==
  Newest.txnid > 0 =>
    /\ Older.txnid = Newest.txnid - 1
    /\ Older.main \in Reach(Newest, FreeList, Older.txnid)
    /\ DataIn(cache, Older.main) = history[Older.txnid]
    /\ Older.main # NoPage => cache[Older.main] = disk[Older.main]

SInv ==
  /\ SlotsHeld
  /\ PinsArePast
  /\ WritersCareful
  /\ RecordsKept
  /\ HistoryIsWhole
  /\ SnapshotsInReach
  /\ OlderIsGood

LEMMA InitSInv == Init => SInv
<1> SUFFICES ASSUME Init PROVE SInv
  OBVIOUS
<1> USE DEF Init, LmdbInit
<1>1. Newest.txnid = 0
  BY DEF Newest, InitialMeta
<1>2. DOMAIN history = {0}
  BY NothingType DEF With
<1>3. SlotsHeld /\ WritersCareful /\ RecordsKept /\ SnapshotsInReach
  BY DEF SlotsHeld, WritersCareful, RecordsKept, SnapshotsInReach, ReaderPcs, InScan
<1>4. PinsArePast
  BY <1>1 DEF PinsArePast, Pinned
<1>5. HistoryIsWhole
  BY <1>1, <1>2 DEF HistoryIsWhole
<1>6. OlderIsGood
  BY <1>1 DEF OlderIsGood
<1> QED
  BY <1>3, <1>4, <1>5, <1>6 DEF SInv

-----------------------------------------------------------------------------
(* mdb_find_oldest reads the table without its lock, but never misses a    *)
(* snapshot that is pinned.                                                *)
LEMMA OldestIsBound ==
  ASSUME IInv, SlotsHeld, NEW t, t.txnid \in Nat, t.txnid > 0
  PROVE  /\ FindOldest(t) \in Nat
         /\ FindOldest(t) <= t.txnid - 1
         /\ \A q \in Pinned : FindOldest(t) <= txn[q].txnid
<1> DEFINE others == {readers[i].txnid : i \in {j \in 1..numreaders : readers[j].pid # "nobody"}}
           S == {t.txnid - 1} \cup others
<1>1. 1..numreaders \subseteq Slots
  BY Sizes DEF IInv, TypeOK, ReadersType, Slots
<1>2. others \subseteq Nat
  BY <1>1 DEF IInv, TypeOK, ReadersType
<1>3. S \in SUBSET Nat /\ S # {}
  BY <1>2
<1>4. \A y \in S : Min(S) <= y
  BY <1>3, MinOfNat
<1>5. ASSUME NEW q \in Pinned PROVE txn[q].txnid \in S
  <2>1. /\ txn[q].slot \in 1..numreaders /\ readers[txn[q].slot].pid = q
        /\ readers[txn[q].slot].txnid = txn[q].txnid
    BY DEF SlotsHeld, Pinned, ReaderPcs
  <2>2. q # "nobody"
    BY NotProcs DEF Pinned
  <2> QED
    BY <2>1, <2>2
<1>6. t.txnid - 1 \in S
  OBVIOUS
<1>7. FindOldest(t) = Min(S)
  BY DEF FindOldest
<1> HIDE DEF S
<1> QED
  BY <1>4, <1>5, <1>6, <1>7, OldestIsNat DEF IInv, TypeOK

LEMMA Types ==
  ASSUME IInv
  PROVE  /\ LocksType /\ OneWriter /\ ReadersType
         /\ Newest \in Meta /\ Newest.txnid \in Nat
         /\ cache \in File /\ disk \in File
         /\ \A q \in Pinned : txn[q].txnid \in Nat
         /\ \A p \in Procs : pc[p] \in InScan => wmutex = p
         /\ \A p \in Procs : pc[p] \in InScan =>
              txn[p] \in WriteTxn(Tables) /\ txn[p].txnid = Newest.txnid + 1
<1>1. Newest \in Meta /\ Newest.txnid \in Nat
  BY NewestType DEF IInv, TypeOK, Meta
<1>2. \A q \in Pinned : txn[q].txnid \in Nat
  BY DEF IInv, TypeOK, ReadersType, Pinned, ReaderPcs
<1>3. ASSUME NEW p \in Procs, pc[p] \in InScan
      PROVE  txn[p] \in WriteTxn(Tables) /\ txn[p].txnid = Newest.txnid + 1
  BY <1>3 DEF IInv, WriterIsGood, WriterOK, InScan, Books, Saved, Started
<1> QED
  BY <1>1, <1>2, <1>3 DEF IInv, TypeOK, FileType, OneWriter, WriterPcs, InScan

(* The lock file.                                                          *)
LEMMA SlotsStep ==
  ASSUME IInv, SlotsHeld, Next
  PROVE  SlotsHeld'
<1> USE DEF Goto, ReaderPcs
<1>a. LocksType /\ OneWriter /\ ReadersType
  BY Types
<1>b. SlotsHeld
  OBVIOUS
<1>c. ASSUME NEW p \in Procs, pc'[p] \notin ReaderPcs, UNCHANGED <<readers, numreaders>>,
             \A q \in Procs \ {p} : pc'[q] = pc[q] /\ txn'[q] = txn[q]
      PROVE  SlotsHeld'
  BY <1>b, <1>c DEF SlotsHeld
<1>1. ASSUME NEW p \in Procs, Opens(p) PROVE SlotsHeld'
  <2>1. CASE OpenFirst(p)
    <3>1. \A q \in Procs : pc'[q] \notin ReaderPcs
      BY <1>a, <2>1 DEF OpenFirst, OneWriter, LocksType
    <3> QED
      BY <3>1 DEF SlotsHeld
  <2>2. CASE OpenSecond(p) \/ OpenShared(p)
    BY <1>a, <1>c, <2>2 DEF OpenSecond, OpenShared, lockVars, LocksType
  <2> QED
    BY <1>1, <2>1, <2>2 DEF Opens
<1>2. ASSUME NEW p \in Procs, CloseEnv(p) \/ Gone(p) PROVE SlotsHeld'
  <2>1. /\ numreaders' = numreaders /\ pc'[p] \notin ReaderPcs
        /\ \A q \in Procs \ {p} : pc'[q] = pc[q] /\ txn'[q] = txn[q]
        /\ \A i \in Slots : /\ readers'[i].txnid = readers[i].txnid
                            /\ readers[i].pid # p => readers'[i].pid = readers[i].pid
    BY <1>a, <1>2 DEF CloseEnv, Gone, LocksType, ReadersType
  <2>2. 1..numreaders \subseteq Slots
    BY <1>a, Sizes DEF ReadersType, Slots
  <2> QED
    BY <1>b, <2>1, <2>2 DEF SlotsHeld
<1>3. ASSUME NEW p \in Procs, CloseLast(p) PROVE SlotsHeld'
  BY <1>a, <1>c, <1>3 DEF CloseLast, LocksType
<1>4. ASSUME NEW p \in Procs, ClaimSlot(p) PROVE SlotsHeld'
  <2> DEFINE unused == {i \in 1..numreaders : readers[i].pid = "nobody"}
             slot == IF unused = {} THEN numreaders + 1 ELSE Min(unused)
  <2>1. numreaders \in Nat /\ unused \in SUBSET Nat
    BY <1>a, Sizes DEF ReadersType
  <2>2. /\ slot \in 1..numreaders + 1
        /\ slot <= numreaders => readers[slot].pid = "nobody"
    <3>1. unused # {} => Min(unused) \in unused
      BY <2>1, MinOfNat
    <3> QED
      BY <2>1, <3>1
  <2>3. CASE slot <= MaxReaders
    <3>1. /\ readers' = [readers EXCEPT ![slot] = [pid |-> p, txnid |-> NotReading]]
          /\ numreaders' = Max({numreaders, slot})
          /\ txn' = [txn EXCEPT ![p] = [txnid |-> 0, slot |-> slot]]
          /\ pc' = [pc EXCEPT ![p] = "claimed"]
      BY <1>4, <2>1, <2>2, <2>3, Sizes DEF ClaimSlot
    <3> HIDE DEF slot
    <3>2. numreaders' >= numreaders /\ numreaders' >= slot /\ numreaders' \in Nat
      <4>1. {numreaders, slot} \in SUBSET Nat /\ \A y \in {numreaders, slot} : y <= numreaders + 1
        BY <2>1, <2>2
      <4>2. /\ Max({numreaders, slot}) \in {numreaders, slot}
            /\ \A y \in {numreaders, slot} : Max({numreaders, slot}) >= y
        BY <2>1, <4>1, MaxOfNat
      <4> QED
        BY <2>1, <2>2, <3>1, <4>2
    <3>3. slot \in Slots
      BY <2>1, <2>2, <2>3, Sizes DEF Slots
    <3>4. ASSUME NEW q \in Procs \ {p}, pc[q] \in ReaderPcs
          PROVE  /\ txn[q].slot \in 1..numreaders' /\ txn[q].slot # slot
                 /\ readers'[txn[q].slot] = readers[txn[q].slot]
      <4>1. txn[q].slot \in 1..numreaders /\ readers[txn[q].slot].pid = q
        BY <1>b, <3>4 DEF SlotsHeld
      <4>2. txn[q].slot # slot
        BY <2>1, <2>2, <4>1, NotProcs
      <4> QED
        BY <1>a, <2>1, <3>1, <3>2, <4>1, <4>2 DEF ReadersType
    <3>5. slot \in 1..numreaders' /\ readers'[slot].pid = p
      BY <1>a, <2>2, <3>1, <3>2, <3>3 DEF ReadersType
    <3>6. /\ txn'[p].slot = slot /\ pc'[p] = "claimed"
          /\ \A q \in Procs \ {p} : pc'[q] = pc[q] /\ txn'[q] = txn[q]
      BY <1>a, <3>1 DEF LocksType
    <3> QED
      BY <1>b, <3>4, <3>5, <3>6 DEF SlotsHeld
  <2>4. CASE slot > MaxReaders
    <3>1. UNCHANGED <<readers, numreaders, txn>> /\ pc' = [pc EXCEPT ![p] = "ended"]
      BY <1>4, <2>1, <2>2, <2>4, Sizes DEF ClaimSlot
    <3> QED
      BY <1>a, <1>c, <3>1 DEF LocksType
  <2> QED
    BY <2>1, <2>2, <2>3, <2>4, Sizes
<1>5. ASSUME NEW p \in Procs, LoadTxnid(p) \/ CompareTxnid(p) \/ CopyRoots(p) PROVE SlotsHeld'
  <2>1. /\ UNCHANGED <<readers, numreaders>>
        /\ \A q \in Procs \ {p} : pc'[q] = pc[q] /\ txn'[q] = txn[q]
        /\ txn'[p].slot = txn[p].slot /\ pc[p] \in ReaderPcs
        /\ \/ pc'[p] \in {"claimed", "loaded"}
           \/ pc[p] \in {"stored", "pinned"} /\ txn'[p].txnid = txn[p].txnid
    <3>1. CASE LoadTxnid(p)
      BY <1>a, <3>1 DEF LoadTxnid, LocksType, ReadersType, lockVars
    <3>2. CASE CompareTxnid(p)
      BY <1>a, <3>2 DEF CompareTxnid, LocksType, lockVars
    <3>3. CASE CopyRoots(p)
      BY <1>a, <3>3 DEF CopyRoots, LocksType, lockVars
    <3> QED
      BY <1>5, <3>1, <3>2, <3>3
  <2> QED
    BY <1>b, <2>1 DEF SlotsHeld
<1>6. ASSUME NEW p \in Procs, StoreTxnid(p) \/ EndRead(p) PROVE SlotsHeld'
  <2>1. /\ numreaders' = numreaders /\ txn' = txn /\ pc[p] \in ReaderPcs
        /\ \A q \in Procs \ {p} : pc'[q] = pc[q]
        /\ \/ pc'[p] = "ended"
           \/ pc'[p] = "stored" /\ readers' = [readers EXCEPT ![txn[p].slot].txnid = txn[p].txnid]
        /\ \E id : readers' = [readers EXCEPT ![txn[p].slot].txnid = id]
    BY <1>a, <1>6 DEF StoreTxnid, EndRead, LocksType
  <2>2. txn[p].slot \in Slots /\ txn[p].slot \in 1..numreaders /\ readers[txn[p].slot].pid = p
    BY <1>a, <1>b, <2>1 DEF SlotsHeld, ReadersType
  <2>3. /\ readers'[txn[p].slot].pid = p
        /\ pc'[p] = "stored" => readers'[txn[p].slot].txnid = txn[p].txnid
    BY <1>a, <2>1, <2>2 DEF ReadersType
  <2>4. ASSUME NEW q \in Procs \ {p}, pc[q] \in ReaderPcs
        PROVE  readers'[txn[q].slot] = readers[txn[q].slot]
    <3>1. readers[txn[q].slot].pid = q /\ txn[q].slot \in Slots
      BY <1>a, <1>b, <2>4 DEF SlotsHeld, ReadersType
    <3>2. txn[q].slot # txn[p].slot
      BY <2>2, <3>1
    <3> QED
      BY <1>a, <2>1, <3>1, <3>2 DEF ReadersType
  <2> QED
    BY <1>b, <2>1, <2>2, <2>3, <2>4 DEF SlotsHeld
<1>7. ASSUME NEW p \in Procs, BeginFails(p) PROVE SlotsHeld'
  BY <1>a, <1>c, <1>7 DEF BeginFails, LocksType, lockVars
<1>8. ASSUME NEW p \in Procs, BeginWrite(p) PROVE SlotsHeld'
  <2>1. /\ numreaders' = numreaders /\ pc'[p] \notin ReaderPcs
        /\ \A q \in Procs \ {p} : pc'[q] = pc[q] /\ txn'[q] = txn[q]
        /\ \A i \in Slots : /\ readers'[i].txnid = readers[i].txnid
                            /\ readers[i].pid # "dead" => readers'[i].pid = readers[i].pid
    BY <1>a, <1>8 DEF BeginWrite, WithoutDead, LocksType, ReadersType
  <2>2. 1..numreaders \subseteq Slots
    BY <1>a, Sizes DEF ReadersType, Slots
  <2> QED
    BY <1>b, <2>1, <2>2, NotProcs DEF SlotsHeld
<1>9. ASSUME NEW p \in Procs, Scans(p) \/ Commits(p) PROVE SlotsHeld'
  <2>1. CASE Scans(p)
    BY <1>a, <1>c, <2>1 DEF Scans, ScanLine, LocksType, lockVars
  <2>2. CASE CommitNothing(p) \/ CommitSave(p)
    BY <1>a, <1>c, <2>2 DEF CommitNothing, CommitSave, EndWrite, LocksType
  <2>3. CASE FlushPage(p) \/ SyncPages(p) \/ WriteMeta(p)
    BY <1>a, <1>c, <2>3 DEF FlushPage, SyncPages, WriteMeta, LocksType, lockVars
  <2>4. CASE Publish(p) \/ WriteFails(p)
    BY <1>a, <1>c, <2>4 DEF Publish, WriteFails, EndWrite, LocksType
  <2> QED
    BY <1>9, <2>1, <2>2, <2>3, <2>4 DEF Commits
<1>10. CASE PowerFails
  BY <1>10 DEF PowerFails, SlotsHeld
<1> QED
  BY <1>1, <1>2, <1>3, <1>4, <1>5, <1>6, <1>7, <1>8, <1>9, <1>10, Steps DEF Closes, Reads

-----------------------------------------------------------------------------
(* What the meta pages say changes when one is written, and only then.     *)
LEMMA Ground ==
  ASSUME IInv, Next, \A p \in Procs : ~WriteMeta(p)
  PROVE  Newest' = Newest /\ FreeList' = FreeList /\ history' = history
<1>1. Newest' = Newest
  BY NewestStays
<1>2. CASE UNCHANGED <<cache, disk, metas, history>>
  BY <1>1, <1>2 DEF FreeList, IdlIn
<1>3. ASSUME NEW p \in Procs, FlushPage(p)
      PROVE  FreeList' = FreeList /\ history' = history
  BY <1>1, <1>3 DEF FlushPage, FreeList, IdlIn
<1>4. ASSUME NEW p \in Procs, SyncPages(p)
      PROVE  FreeList' = FreeList /\ history' = history
  BY <1>4, SyncKeeps DEF SyncPages
<1>5. ASSUME NEW p \in Procs, WriteFails(p)
      PROVE  FreeList' = FreeList /\ history' = history
  BY <1>1, <1>5, FailureKeeps DEF FreeList, IdlIn
<1>6. CASE PowerFails
  <2>1. /\ disk' = cache' /\ history' = history
        /\ \A g \in DOMAIN cache : cache'[g] \in {cache[g], disk[g]}
    BY <1>6 DEF PowerFails
  <2>2. Roots(Newest) \subseteq DOMAIN cache
    <3>1. Newest.last \in Nat /\ Newest.last < MaxPg
      BY Types DEF IInv, NewestIsGood, Meta
    <3>2. Roots(Newest) \subseteq 2..Newest.last
      BY DEF IInv, NewestIsGood, GoodMeta, GoodList
    <3> QED
      BY <3>1, <3>2, Types, Sizes DEF File
  <2>3. Newest.free # NoPage => disk'[Newest.free] = disk[Newest.free]
    BY <2>1, <2>2 DEF IInv, NewestIsGood, Roots
  <2> QED
    BY <1>1, <2>1, <2>3 DEF FreeList, IdlIn
<1> QED
  BY <1>1, <1>2, <1>3, <1>4, <1>5, <1>6, FileSteps

(* A snapshot is pinned by comparing it with the newest one announced.     *)
LEMMA PinsStep ==
  ASSUME IInv, SlotsHeld, Next
  PROVE  /\ mti_txnid' = mti_txnid \/ mti_txnid' = Newest.txnid
         /\ \A q \in Procs : pc'[q] \in {"pinned", "reading"} =>
              /\ txn'[q].txnid = txn[q].txnid
              /\ q \in Pinned \/ txn[q].txnid = mti_txnid
<1> USE DEF Goto
<1>a. LocksType /\ OneWriter /\ ReadersType
  BY Types
<1>b. ASSUME NEW p \in Procs, pc'[p] \notin {"pinned", "reading"},
             \A q \in Procs \ {p} : pc'[q] = pc[q] /\ txn'[q] = txn[q]
      PROVE  \A q \in Procs : pc'[q] \in {"pinned", "reading"} =>
               txn'[q].txnid = txn[q].txnid /\ q \in Pinned
  BY <1>b DEF Pinned
<1>1. ASSUME NEW p \in Procs, Opens(p)
      PROVE  /\ mti_txnid' = mti_txnid \/ mti_txnid' = Newest.txnid
             /\ pc'[p] \notin {"pinned", "reading"}
             /\ \A q \in Procs \ {p} : pc'[q] = pc[q] /\ txn'[q] = txn[q]
  BY <1>a, <1>1 DEF Opens, OpenFirst, OpenSecond, OpenShared, lockVars, LocksType
<1>2. ASSUME NEW p \in Procs, Closes(p) \/ Gone(p)
      PROVE  /\ mti_txnid' = mti_txnid
             /\ pc'[p] \notin {"pinned", "reading"}
             /\ \A q \in Procs \ {p} : pc'[q] = pc[q] /\ txn'[q] = txn[q]
  BY <1>a, <1>2 DEF Closes, CloseEnv, CloseLast, Gone, LocksType
<1>3. ASSUME NEW p \in Procs, BeginFails(p) \/ ClaimSlot(p) \/ EndRead(p)
      PROVE  /\ mti_txnid' = mti_txnid
             /\ pc'[p] \notin {"pinned", "reading"}
             /\ \A q \in Procs \ {p} : pc'[q] = pc[q] /\ txn'[q] = txn[q]
  BY <1>a, <1>3 DEF BeginFails, ClaimSlot, EndRead, lockVars, LocksType
<1>4. ASSUME NEW p \in Procs, LoadTxnid(p) \/ StoreTxnid(p)
      PROVE  /\ mti_txnid' = mti_txnid
             /\ pc'[p] \notin {"pinned", "reading"}
             /\ \A q \in Procs \ {p} : pc'[q] = pc[q] /\ txn'[q] = txn[q]
  BY <1>a, <1>4 DEF LoadTxnid, StoreTxnid, lockVars, LocksType
<1>5. ASSUME NEW p \in Procs, CompareTxnid(p) \/ CopyRoots(p)
      PROVE  /\ mti_txnid' = mti_txnid
             /\ \A q \in Procs : pc'[q] \in {"pinned", "reading"} =>
                  /\ txn'[q].txnid = txn[q].txnid
                  /\ q \in Pinned \/ txn[q].txnid = mti_txnid
  <2>1. CASE CompareTxnid(p)
    <3>1. /\ mti_txnid' = mti_txnid /\ txn' = txn
          /\ \A q \in Procs \ {p} : pc'[q] = pc[q]
          /\ pc'[p] = "pinned" => readers[txn[p].slot].txnid = mti_txnid
          /\ readers[txn[p].slot].txnid = txn[p].txnid
      BY <1>a, <2>1 DEF CompareTxnid, lockVars, LocksType, SlotsHeld
    <3>2. pc'[p] = "pinned" \/ pc'[p] = "claimed"
      BY <1>a, <2>1 DEF CompareTxnid, LocksType
    <3> QED
      BY <3>1, <3>2 DEF Pinned
  <2>2. CASE CopyRoots(p)
    <3>1. /\ mti_txnid' = mti_txnid /\ pc[p] = "pinned"
          /\ txn'[p].txnid = txn[p].txnid
          /\ \A q \in Procs \ {p} : pc'[q] = pc[q] /\ txn'[q] = txn[q]
      BY <1>a, <2>2 DEF CopyRoots, lockVars, LocksType
    <3> QED
      BY <3>1 DEF Pinned
  <2> QED
    BY <1>5, <2>1, <2>2
<1>6. ASSUME NEW p \in Procs, BeginWrite(p)
      PROVE  /\ mti_txnid' = mti_txnid \/ mti_txnid' = Newest.txnid
             /\ pc'[p] \notin {"pinned", "reading"}
             /\ \A q \in Procs \ {p} : pc'[q] = pc[q] /\ txn'[q] = txn[q]
  BY <1>a, <1>6 DEF BeginWrite, LastTxnid, LocksType
<1>7. ASSUME NEW p \in Procs, Scans(p) \/ Commits(p)
      PROVE  /\ mti_txnid' = mti_txnid \/ mti_txnid' = Newest.txnid
             /\ pc'[p] \notin {"pinned", "reading"}
             /\ \A q \in Procs \ {p} : pc'[q] = pc[q] /\ txn'[q] = txn[q]
  <2>1. CASE Scans(p)
    BY <1>a, <2>1 DEF Scans, ScanLine, lockVars, LocksType
  <2>2. CASE CommitNothing(p) \/ CommitSave(p)
    BY <1>a, <2>2 DEF CommitNothing, CommitSave, EndWrite, LocksType
  <2>3. CASE FlushPage(p) \/ SyncPages(p) \/ WriteMeta(p)
    BY <1>a, <2>3 DEF FlushPage, SyncPages, WriteMeta, lockVars, LocksType
  <2>4. CASE WriteFails(p)
    BY <1>a, <2>4 DEF WriteFails, EndWrite, LocksType
  <2>5. CASE Publish(p)
    <3>1. txn[p].txnid = Newest.txnid
      BY <2>5 DEF Publish, IInv, TxnidIsCurrent
    <3> QED
      BY <1>a, <2>5, <3>1 DEF Publish, EndWrite, LocksType
  <2> QED
    BY <1>7, <2>1, <2>2, <2>3, <2>4, <2>5 DEF Commits
<1>8. CASE PowerFails
  BY <1>8 DEF PowerFails
<1> QED
  BY <1>b, <1>1, <1>2, <1>3, <1>4, <1>5, <1>6, <1>7, <1>8, Steps DEF Reads

LEMMA NoMetaInScan ==
  ASSUME IInv, Next, NEW p \in Procs, pc'[p] \in InScan
  PROVE  \A q \in Procs : ~WriteMeta(q)
<1> SUFFICES ASSUME NEW q \in Procs, WriteMeta(q) PROVE FALSE
  OBVIOUS
<1>1. LocksType /\ OneWriter
  BY Types
<1>2. pc[q] = "synced" /\ pc'[q] = "written" /\ (p # q => pc'[p] = pc[p])
  BY <1>1 DEF WriteMeta, Goto, LocksType
<1>3. p # q /\ pc[p] \in WriterPcs /\ pc[q] \in WriterPcs
  BY <1>2 DEF InScan, WriterPcs
<1> QED
  BY <1>1, <1>3 DEF OneWriter

(* What a writer does to its own transaction.                              *)
LEMMA SameTxn ==
  ASSUME IInv, Next, NEW q \in Procs, pc[q] \in InScan, pc'[q] \in InScan,
         ~BeginWrite(q), ~Scans(q), ~CommitSave(q), ~FlushPage(q)
  PROVE  txn'[q] = txn[q]
<1>a. LocksType /\ OneWriter
  BY Types
<1>1. ASSUME NEW p \in Procs, Opens(p) \/ Closes(p) \/ Reads(p) \/ BeginWrite(p) \/ Gone(p)
      PROVE  txn'[q] = txn[q]
  <2>1. p # q => txn'[q] = txn[q]
    <3>1. CASE Opens(p) \/ Closes(p) \/ BeginWrite(p) \/ Gone(p)
      BY <1>a, <3>1 DEF Opens, OpenFirst, OpenSecond, OpenShared, Closes, CloseEnv, CloseLast,
         BeginWrite, Gone, LocksType
    <3>2. CASE Reads(p)
      BY <1>a, <3>2 DEF Reads, BeginFails, ClaimSlot, LoadTxnid, StoreTxnid, CompareTxnid,
         CopyRoots, EndRead, LocksType
    <3> QED
      BY <1>1, <3>1, <3>2
  <2>2. p = q => pc'[p] \notin InScan
    <3>1. CASE Opens(p) \/ Closes(p) \/ Gone(p)
      BY <1>a, <3>1 DEF Opens, OpenFirst, OpenSecond, OpenShared, Closes, CloseEnv, CloseLast,
         Gone, Goto, LocksType, InScan
    <3>2. CASE Reads(p)
      BY <1>a, <3>2 DEF Reads, BeginFails, ClaimSlot, LoadTxnid, StoreTxnid, CompareTxnid,
         CopyRoots, EndRead, Goto, LocksType, InScan
    <3> QED
      BY <1>1, <3>1, <3>2
  <2> QED
    BY <2>1, <2>2
<1>2. ASSUME NEW p \in Procs, Scans(p) \/ Commits(p)
      PROVE  txn'[q] = txn[q]
  <2>1. pc[p] \in WriterPcs
    BY <1>2 DEF Scans, ScanLine, Commits, CommitNothing, CommitSave, FlushPage, SyncPages,
       WriteMeta, Publish, WriteFails, WriterPcs
  <2>2. p = q
    BY <1>a, <2>1 DEF OneWriter, WriterPcs, InScan
  <2>3. CASE SyncPages(q) \/ WriteMeta(q)
    BY <2>3 DEF SyncPages, WriteMeta
  <2>4. CASE CommitNothing(q) \/ Publish(q) \/ WriteFails(q)
    BY <1>a, <2>4 DEF CommitNothing, Publish, WriteFails, EndWrite, Goto, LocksType, InScan
  <2> QED
    BY <1>2, <2>2, <2>3, <2>4 DEF Commits
<1>3. CASE PowerFails
  BY <1>3 DEF PowerFails, InScan
<1> QED
  BY <1>1, <1>2, <1>3, Steps

LEMMA PinsArePastStep ==
  ASSUME IInv, SlotsHeld, PinsArePast, Next
  PROVE  PinsArePast'
<1>1. Newest.txnid \in Nat /\ mti_txnid \in Nat /\ Newest'.txnid \in Nat
  BY NextIInv, Types DEF LocksType, IInv, TypeOK, FileType, Newest, Meta
<1>2. Newest'.txnid >= Newest.txnid
  <2>1. ASSUME NEW p \in Procs, WriteMeta(p) PROVE Newest'.txnid = Newest.txnid + 1
    BY <2>1, MetaIsWritten
  <2>2. CASE \A p \in Procs : ~WriteMeta(p)
    BY <1>1, <2>2, Ground
  <2> QED
    BY <1>1, <2>1, <2>2
<1>3. mti_txnid' <= Newest'.txnid
  BY <1>1, <1>2, PinsStep DEF PinsArePast
<1>4. ASSUME NEW q \in Procs, pc'[q] \in {"pinned", "reading"}
      PROVE  txn'[q].txnid <= Newest'.txnid
  <2>1. txn'[q].txnid = txn[q].txnid /\ (q \in Pinned \/ txn[q].txnid = mti_txnid)
    BY <1>4, PinsStep
  <2>2. txn[q].txnid \in Nat /\ txn[q].txnid <= Newest.txnid
    BY <1>1, <2>1, Types DEF PinsArePast
  <2> QED
    BY <1>1, <1>2, <2>1, <2>2
<1> QED
  BY <1>3, <1>4 DEF PinsArePast, Pinned

LEMMA CarefulStep ==
  ASSUME IInv, Next, NEW p \in Procs, pc'[p] \in InScan, NEW b \in Nat,
         pc[p] \in InScan => Cautious(txn[p], b),
         pc[p] = "writing" => FindOldest(txn[p]) <= b
  PROVE  Cautious(txn'[p], b)
<1>a. LocksType /\ OneWriter /\ OneWriter'
  BY OneWriterStep, Types
<1>1. CASE BeginWrite(p)
  <2>1. txn'[p].pglast = 0 /\ txn'[p].pgoldest = 0
    BY <1>a, <1>1 DEF BeginWrite, NewWrite, LocksType
  <2> QED
    BY <2>1 DEF Cautious
<1>2. CASE ~BeginWrite(p)
  <2>1. pc[p] \in InScan
    BY <1>2, ScanGoesOn
  <2>2. Cautious(txn[p], b)
    BY <2>1
  <2>3. ASSUME NEW ip \in Ips, NEW mac \in Macs, NEW name \in Names, ScanLine(p, ip, mac, name)
        PROVE  Cautious(txn'[p], b)
    <3> DEFINE table == Table!WithLine(DataOf(txn[p]), ip, mac, name, txn[p].txnid)
    <3>1. pc[p] = "writing" /\ ~txn[p].error /\ txn'[p] = PutAll(txn[p], table)
      BY <1>a, <2>3 DEF ScanLine, LocksType
    <3>2. table \in Tables
      BY <2>3, <3>1, ScanKeeps, WithLineType, WritersGround
    <3> HIDE DEF table
    <3>3. cache \in File
      BY Types
    <3> QED
      BY <2>2, <3>1, <3>2, <3>3, PutIsCautious, WritersGround
  <2>4. CASE CommitSave(p)
    <3>1. pc[p] = "writing" /\ ~txn[p].error
      BY <2>4 DEF CommitSave
    <3>2. txn'[p] = FreelistSave(txn[p])
      BY <1>a, <2>4 DEF CommitSave, EndWrite, Goto, LocksType, InScan
    <3>3. cache \in File
      BY Types
    <3> QED
      BY <2>2, <3>1, <3>2, <3>3, SaveIsCautious, WritersGround
  <2>5. CASE FlushPage(p)
    BY <2>2, <2>5, FlushKeeps DEF Cautious
  <2>6. CASE ~Scans(p) /\ ~CommitSave(p) /\ ~FlushPage(p)
    <3>1. txn'[p] = txn[p]
      BY <1>2, <2>1, <2>6, SameTxn
    <3> QED
      BY <2>2, <3>1
  <2> QED
    BY <2>3, <2>4, <2>5, <2>6 DEF Scans
<1> QED
  BY <1>1, <1>2

LEMMA WritersCarefulStep ==
  ASSUME IInv, SlotsHeld, PinsArePast, WritersCareful, Next
  PROVE  WritersCareful'
<1> SUFFICES ASSUME NEW p \in Procs, pc'[p] \in InScan
             PROVE  /\ Cautious(txn'[p], Newest'.txnid)
                    /\ \A q \in Pinned' : Cautious(txn'[p], txn'[q].txnid)
  BY DEF WritersCareful
<1>1. Newest' = Newest /\ Newest.txnid \in Nat
  BY NoMetaInScan, Ground, Types
<1>2. ASSUME pc[p] = "writing"
      PROVE  /\ FindOldest(txn[p]) <= Newest.txnid
             /\ \A q \in Pinned : FindOldest(txn[p]) <= txn[q].txnid
  <2>1. txn[p].txnid = Newest.txnid + 1
    BY <1>2, WritersGround
  <2>2. txn[p].txnid \in Nat /\ txn[p].txnid > 0 /\ txn[p].txnid - 1 = Newest.txnid
    BY <1>1, <2>1
  <2> QED
    BY <2>2, OldestIsBound
<1>3. Cautious(txn'[p], Newest'.txnid)
  BY <1>1, <1>2, CarefulStep DEF WritersCareful
<1>4. ASSUME NEW q \in Pinned' PROVE Cautious(txn'[p], txn'[q].txnid)
  <2>1. q \in Procs /\ txn'[q].txnid = txn[q].txnid /\ (q \in Pinned \/ txn[q].txnid = mti_txnid)
    BY <1>4, PinsStep DEF Pinned
  <2>2. CASE q \in Pinned
    <3>1. txn[q].txnid \in Nat
      BY <2>2, Types
    <3>2. Cautious(txn'[p], txn[q].txnid)
      BY <1>2, <2>2, <3>1, CarefulStep DEF WritersCareful
    <3> QED
      BY <2>1, <3>2
  <2>3. CASE q \notin Pinned /\ pc[p] \in InScan
    <3>1. mti_txnid = Newest.txnid
      BY <2>3 DEF IInv, TxnidIsCurrent, InScan
    <3> QED
      BY <1>1, <1>3, <2>1, <2>3, <3>1
  <2>4. CASE pc[p] \notin InScan
    <3>1. txn[q].txnid \in Nat
      BY <2>1, Types DEF LocksType
    <3>2. pc[p] # "writing"
      BY <2>4 DEF InScan
    <3>3. Cautious(txn'[p], txn[q].txnid)
      BY <2>4, <3>1, <3>2, CarefulStep
    <3> QED
      BY <2>1, <3>3
  <2> QED
    BY <2>2, <2>3, <2>4
<1> QED
  BY <1>3, <1>4

LEMMA StaysInScan ==
  ASSUME IInv, Next, NEW q \in Procs, pc[q] \in InScan, pc'[q] \in InScan,
         ~BeginWrite(q), ~Scans(q), ~CommitSave(q), ~FlushPage(q)
  PROVE  cache' = cache /\ (pc[q] = "writing" => pc'[q] = "writing")
<1>a. LocksType /\ OneWriter
  BY Types
<1>1. ASSUME NEW p \in Procs, Opens(p) \/ Closes(p) \/ Reads(p) \/ BeginWrite(p) \/ Gone(p)
      PROVE  cache' = cache /\ (pc[q] = "writing" => pc'[q] = "writing")
  <2>1. cache' = cache
    BY <1>1 DEF Opens, OpenFirst, OpenSecond, OpenShared, Closes, CloseEnv, CloseLast,
       BeginWrite, Gone, Reads, BeginFails, ClaimSlot, LoadTxnid, StoreTxnid, CompareTxnid,
       CopyRoots, EndRead, fileVars
  <2>2. pc'[q] = pc[q] \/ (p = q /\ pc'[q] \notin InScan) \/ BeginWrite(q)
    <3>1. CASE Opens(p) \/ Closes(p) \/ Gone(p) \/ BeginWrite(p)
      BY <1>a, <3>1 DEF Opens, OpenFirst, OpenSecond, OpenShared, Closes, CloseEnv, CloseLast,
         Gone, BeginWrite, Goto, LocksType, InScan
    <3>2. CASE Reads(p)
      BY <1>a, <3>2 DEF Reads, BeginFails, ClaimSlot, LoadTxnid, StoreTxnid, CompareTxnid,
         CopyRoots, EndRead, Goto, LocksType, InScan
    <3> QED
      BY <1>1, <3>1, <3>2
  <2> QED
    BY <2>1, <2>2
<1>2. ASSUME NEW p \in Procs, Scans(p) \/ Commits(p)
      PROVE  cache' = cache /\ (pc[q] = "writing" => pc'[q] = "writing")
  <2>1. pc[p] \in WriterPcs
    BY <1>2 DEF Scans, ScanLine, Commits, CommitNothing, CommitSave, FlushPage, SyncPages,
       WriteMeta, Publish, WriteFails, WriterPcs
  <2>2. p = q
    BY <1>a, <2>1 DEF OneWriter, WriterPcs, InScan
  <2>3. CASE SyncPages(q) \/ WriteMeta(q)
    BY <2>3 DEF SyncPages, WriteMeta
  <2>4. CASE CommitNothing(q) \/ Publish(q) \/ WriteFails(q)
    BY <1>a, <2>4 DEF CommitNothing, Publish, WriteFails, EndWrite, Goto, LocksType, InScan
  <2> QED
    BY <1>2, <2>2, <2>3, <2>4 DEF Commits
<1>3. CASE PowerFails
  BY <1>3 DEF PowerFails, InScan
<1> QED
  BY <1>1, <1>2, <1>3, Steps

LEMMA RecordsKeptStep ==
  ASSUME IInv, RecordsKept, Next
  PROVE  RecordsKept'
<1> SUFFICES ASSUME NEW p \in Procs, pc'[p] \in {"flushing", "synced"}
             PROVE  KeepsRecords(txn'[p], Newest', FreeList', IdlOf(txn[p])')
  BY DEF RecordsKept
<1>a. LocksType /\ OneWriter
  BY Types
<1>1. Newest' = Newest /\ FreeList' = FreeList
  BY NoMetaInScan, Ground DEF InScan
<1>2. ~BeginWrite(p) /\ ~Scans(p)
  BY <1>a DEF BeginWrite, Scans, ScanLine, Goto, LocksType
<1>3. pc[p] \in InScan /\ pc'[p] \in InScan
  BY <1>2, ScanGoesOn DEF InScan
<1>4. CASE CommitSave(p)
  <2>1. pc[p] = "writing" /\ ~txn[p].error
    BY <1>4 DEF CommitSave
  <2>2. /\ txn'[p] = FreelistSave(txn[p]) /\ ~FreelistSave(txn[p]).error
        /\ cache' = cache
    BY <1>a, <1>4 DEF CommitSave, EndWrite, Goto, LocksType, fileVars
  <2>3. cache \in File
    BY Types
  <2> DEFINE u == FreelistSave(txn[p])
  <2>4. KeepsRecords(u, Newest, FreeList, IdlOf(u))
    BY <2>1, <2>2, <2>3, SaveKeepsRecords, WritersGround
  <2> HIDE DEF u
  <2>5. txn'[p] = u
    BY <2>2 DEF u
  <2>6. IdlOf(txn[p])' = IdlOf(u)
    BY <2>2, <2>5 DEF IdlOf, PageOf
  <2> QED
    BY <1>1, <2>4, <2>5, <2>6
<1>5. CASE FlushPage(p)
  <2>1. KeepsRecords(txn[p], Newest, FreeList, IdlOf(txn[p]))
    BY <1>5 DEF RecordsKept, FlushPage
  <2> QED
    BY <1>1, <1>5, <2>1, FlushKeeps DEF KeepsRecords
<1>6. CASE ~CommitSave(p) /\ ~FlushPage(p)
  <2>1. txn'[p] = txn[p]
    BY <1>2, <1>3, <1>6, SameTxn
  <2>2. pc[p] \in {"flushing", "synced"} /\ cache' = cache
    BY <1>2, <1>3, <1>6, StaysInScan DEF InScan
  <2>3. IdlOf(txn[p])' = IdlOf(txn[p])
    BY <2>1, <2>2 DEF IdlOf, PageOf
  <2> QED
    BY <1>1, <2>1, <2>2, <2>3 DEF RecordsKept
<1> QED
  BY <1>4, <1>5, <1>6

LEMMA HistoryStep ==
  ASSUME IInv, HistoryIsWhole, Next
  PROVE  HistoryIsWhole'
<1>1. Newest.txnid \in Nat
  BY Types
<1>2. ASSUME NEW p \in Procs, WriteMeta(p) PROVE HistoryIsWhole'
  <2>1. history' = With(history, txn[p].txnid, DataIn(cache, txn[p].main))
    BY <1>2 DEF WriteMeta
  <2>2. txn[p].txnid = Newest.txnid + 1 /\ Newest'.txnid = Newest.txnid + 1
    BY <1>2, MetaIsWritten
  <2>3. DOMAIN history' = DOMAIN history \cup {Newest.txnid + 1}
    BY <2>1, <2>2 DEF With
  <2>4. DOMAIN history' = 0..(Newest.txnid + 1)
    <3> DEFINE n == Newest.txnid
    <3>1. DOMAIN history = 0..n /\ n \in Nat /\ DOMAIN history' = DOMAIN history \cup {n + 1}
      BY <1>1, <2>3 DEF HistoryIsWhole
    <3> HIDE DEF n
    <3>2. (0..n) \cup {n + 1} = 0..(n + 1)
      BY <3>1
    <3> QED
      BY <3>1, <3>2 DEF n
  <2> QED
    BY <2>2, <2>4 DEF HistoryIsWhole
<1>3. CASE \A p \in Procs : ~WriteMeta(p)
  BY <1>3, Ground DEF HistoryIsWhole
<1> QED
  BY <1>2, <1>3

-----------------------------------------------------------------------------
(* The pages of a snapshot, or of one that may still be copied: what is in *)
(* reach stays in reach when a transaction is committed ...                *)
LEMMA ReachGrows ==
  ASSUME IInv, RecordsKept, NEW p \in Procs, WriteMeta(p),
         NEW b \in Nat, b <= Newest.txnid, txn[p].pglast <= b,
         NEW g \in Reach(Newest, FreeList, b)
  PROVE  g \in Reach(Newest', FreeList', b)
<1> DEFINE t == txn[p]
           L == IdlOf(t)
<1>1. Newest'.main = t.main /\ Newest'.free = t.free
  BY MetaIsWritten
<1>2. /\ Saved(Tables, t, Newest, FreeList) /\ t.dirty = Nothing /\ disk = cache /\ disk' = disk
  BY DEF IInv, WriterIsGood, WriterOK, WriteMeta
<1>3. FreeList' = L
  <2>1. FreeList' = IdlIn(disk, t.free)
    BY <1>1, <1>2 DEF FreeList
  <2> QED
    BY <1>2, <2>1, NothingType DEF IdlOf, IdlIn, PageOf
<1>4. KeepsRecords(t, Newest, FreeList, L)
  BY DEF RecordsKept, WriteMeta
<1>5. Newest.txnid \in Nat /\ t.pglast \in Nat
  BY <1>2, Types DEF Saved, WriteTxn
<1>6. CASE g = NoPage
  BY <1>6 DEF Reach
<1>7. CASE g \in After(FreeList, b)
  <2>1. g \in After(L, b)
    BY <1>4, <1>5, <1>7 DEF KeepsRecords
  <2> QED
    BY <1>3, <2>1 DEF Reach
<1>8. CASE g = Newest.main /\ g # NoPage
  <2>1. CASE g = t.main
    BY <1>1, <2>1 DEF Reach
  <2>2. CASE g # t.main
    <3>1. Newest.main # Newest.free
      BY <1>8 DEF IInv, NewestIsGood, GoodMeta
    <3>2. t.free # g
      BY <1>2, <1>8, <3>1 DEF Saved, Started, Own
    <3>3. g \in t.freed
      BY <1>2, <1>8, <2>2, <3>2 DEF Saved, Started, Roots
    <3>4. g \in After(L, Newest.txnid)
      BY <1>4, <3>3 DEF KeepsRecords
    <3>5. After(L, Newest.txnid) \subseteq After(L, b)
      <4>1. L \in Lists
        BY <1>2 DEF Saved, GoodList
      <4>2. DOMAIN L \subseteq Nat
        BY <4>1, PartialDef DEF Lists
      <4> HIDE DEF L
      <4> QED
        BY <1>5, <4>2 DEF After
    <3> QED
      BY <1>3, <3>4, <3>5 DEF Reach
  <2> QED
    BY <2>1, <2>2
<1> QED
  BY <1>6, <1>7, <1>8 DEF Reach

(* ... and is not written to before that.                                  *)
LEMMA ReachUntouched ==
  ASSUME IInv, RecordsKept, NEW p \in Procs, FlushPage(p),
         NEW b \in Nat, txn[p].pglast <= b,
         NEW g \in Reach(Newest, FreeList, b)
  PROVE  g \notin Own(txn[p], Newest)
<1> DEFINE t == txn[p]
           L == IdlOf(t)
<1>1. /\ Saved(Tables, t, Newest, FreeList) /\ KeepsRecords(t, Newest, FreeList, L)
  BY DEF IInv, WriterIsGood, WriterOK, RecordsKept, FlushPage
<1>2. CASE g = NoPage \/ g = Newest.main
  BY <1>2 DEF Own
<1>3. CASE g \in After(FreeList, b)
  <2>1. g \in After(L, b)
    BY <1>1, <1>3 DEF KeepsRecords
  <2>2. \A id \in DOMAIN L : L[id] \cap ({t.main, t.free} \ {NoPage}) = {}
    BY <1>1 DEF Saved, GoodList
  <2> QED
    BY <2>1, <2>2 DEF After, Own
<1> QED
  BY <1>2, <1>3 DEF Reach

LEMMA PageKept ==
  ASSUME IInv, RecordsKept, Next, NEW b \in Nat,
         NEW g \in Reach(Newest, FreeList, b), g # NoPage,
         \A p \in Procs : pc[p] = "flushing" => txn[p].pglast <= b,
         PowerFails => cache[g] = disk[g]
  PROVE  cache'[g] = cache[g]
<1>1. g \in 2..MaxPg - 1
  <2>1. Roots(Newest) \cup UNION {FreeList[id] : id \in DOMAIN FreeList} = 2..Newest.last
    BY DEF IInv, NewestIsGood, GoodMeta, GoodList
  <2>2. g \in 2..Newest.last
    BY <2>1 DEF Reach, After, Roots
  <2>3. Newest.last \in Nat /\ Newest.last < MaxPg
    BY Types DEF IInv, NewestIsGood, Meta
  <2> QED
    BY <2>2, <2>3, Sizes
<1>2. ASSUME NEW p \in Procs, FlushPage(p) PROVE cache'[g] = cache[g]
  <2>1. txn[p].pglast <= b
    BY <1>2 DEF FlushPage
  <2>2. g \notin Own(txn[p], Newest)
    BY <1>2, <2>1, ReachUntouched
  <2>3. PICK h \in Own(txn[p], Newest) : \A i \in 2..MaxPg - 1 : i # h => cache'[i] = cache[i]
    BY <1>2, FlushKeeps
  <2> QED
    BY <1>1, <2>2, <2>3
<1>3. ASSUME NEW p \in Procs, SyncPages(p) \/ WriteMeta(p) \/ WriteFails(p)
      PROVE  cache'[g] = cache[g]
  BY <1>3 DEF SyncPages, WriteMeta, WriteFails
<1>4. CASE PowerFails
  <2>1. g \in DOMAIN cache
    BY <1>1, Types DEF File
  <2>2. PICK lost \in SUBSET {i \in DOMAIN cache : cache[i] # disk[i]} :
          cache' = [i \in DOMAIN cache |-> IF i \in lost THEN disk[i] ELSE cache[i]]
    BY <1>4 DEF PowerFails
  <2> QED
    BY <1>4, <2>1, <2>2
<1> QED
  BY <1>2, <1>3, <1>4, FileSteps

LEMMA OlderStep ==
  ASSUME IInv, RecordsKept, WritersCareful, HistoryIsWhole, OlderIsGood, Next,
         CacheKeeps = FALSE
  PROVE  OlderIsGood'
<1> DEFINE n == Newest.txnid
<1>1. n \in Nat /\ metas \in [0..1 -> Meta]
  BY Types DEF IInv, TypeOK, FileType
<1>2. ASSUME NEW p \in Procs, WriteMeta(p) PROVE OlderIsGood'
  <2> DEFINE t == txn[p]
  <2>1. t.txnid = n + 1 /\ Newest'.txnid = n + 1
    BY <1>2, MetaIsWritten
  <2>2. /\ \E new : metas' = [metas EXCEPT ![t.txnid % 2] = new]
        /\ history' = With(history, t.txnid, DataIn(cache, t.main))
        /\ UNCHANGED <<cache, disk>> /\ pc[p] = "synced"
    BY <1>2 DEF WriteMeta
  <2> HIDE DEF t
  <2>3. Older' = Newest
    <3>1. n % 2 \in 0..1 /\ n % 2 # (n + 1) % 2 /\ (n + 2) % 2 = n % 2
      BY <1>1, Turns
    <3>2. Older' = metas'[n % 2]
      <4>1. Older' = metas'[(Newest'.txnid + 1) % 2]
        BY DEF Older
      <4>2. Newest'.txnid + 1 = n + 2
        BY <1>1, <2>1
      <4> QED
        BY <3>1, <4>1, <4>2
    <3>3. metas'[n % 2] = metas[n % 2]
      BY <1>1, <2>1, <2>2, <3>1
    <3> QED
      BY <3>2, <3>3 DEF IInv, MetasTakeTurns
  <2>4. Newest.main \in Reach(Newest', FreeList', n)
    <3>1. t.pglast <= n
      <4>1. Cautious(t, n) /\ t.pglast \in Nat
        BY <2>2, Types DEF WritersCareful, InScan, WriteTxn, t
      <4> QED
        BY <1>1, <4>1 DEF Cautious
    <3>2. Newest.main \in Reach(Newest, FreeList, n)
      BY DEF Reach
    <3> QED
      BY <1>1, <1>2, <3>1, <3>2, ReachGrows DEF t
  <2>5. DataIn(cache', Newest.main) = history'[n]
    <3>1. DataIn(cache, Newest.main) = Stored
      BY DEF IInv, NewestIsGood, Stored, DataIn, Roots
    <3>2. Stored = history[n]
      BY DEF IInv, NewestIsGood
    <3>3. n \in DOMAIN history /\ n # n + 1
      BY <1>1 DEF HistoryIsWhole
    <3>4. history'[n] = history[n]
      BY <2>1, <2>2, <3>3 DEF With
    <3> QED
      BY <2>2, <3>1, <3>2, <3>4
  <2>6. Newest.main # NoPage => cache'[Newest.main] = disk'[Newest.main]
    BY <2>2 DEF IInv, NewestIsGood, Roots
  <2>7. Older'.txnid = n /\ Newest'.txnid - 1 = n
    BY <1>1, <2>1, <2>3
  <2> QED
    BY <2>3, <2>4, <2>5, <2>6, <2>7 DEF OlderIsGood
<1>3. CASE (\A p \in Procs : ~WriteMeta(p)) /\ n > 0
  <2>1. Newest' = Newest /\ FreeList' = FreeList /\ history' = history
    BY <1>3, Ground
  <2>2. metas' = metas
    <3>1. ASSUME NEW p \in Procs, FlushPage(p) \/ SyncPages(p) \/ WriteFails(p)
          PROVE  metas' = metas
      BY <3>1 DEF FlushPage, SyncPages, WriteFails
    <3>2. CASE PowerFails
      BY <3>2 DEF PowerFails
    <3> QED
      BY <1>3, <3>1, <3>2, FileSteps
  <2>3. Older' = Older
    BY <2>1, <2>2 DEF Older
  <2>4. /\ Older.txnid = n - 1
        /\ Older.main \in Reach(Newest, FreeList, n - 1)
        /\ DataIn(cache, Older.main) = history[n - 1]
        /\ Older.main # NoPage => cache[Older.main] = disk[Older.main]
    BY <1>3 DEF OlderIsGood
  <2>5. n - 1 \in Nat
    BY <1>1, <1>3
  <2>6. ASSUME NEW p \in Procs, pc[p] = "flushing" PROVE txn[p].pglast <= n - 1
    <3>1. Cautious(txn[p], n) /\ txn[p].pglast \in Nat
      BY <2>6, Types DEF WritersCareful, InScan, WriteTxn
    <3> QED
      BY <1>1, <1>3, <3>1 DEF Cautious
  <2>7. Older.main # NoPage => cache'[Older.main] = cache[Older.main]
    BY <2>4, <2>5, <2>6, PageKept
  <2>8. Older.main # NoPage => cache'[Older.main] = disk'[Older.main]
    <3>1. CASE UNCHANGED <<cache, disk, metas, history>>
      BY <2>4, <3>1
    <3>2. ASSUME NEW p \in Procs, FlushPage(p) \/ WriteFails(p)
          PROVE  disk' = disk
      BY <3>2 DEF FlushPage, WriteFails
    <3>3. ASSUME NEW p \in Procs, SyncPages(p)
          PROVE  disk' = cache'
      BY <3>3, SyncKeeps
    <3>4. CASE PowerFails
      BY <3>4 DEF PowerFails
    <3> QED
      BY <1>3, <2>4, <2>7, <3>1, <3>2, <3>3, <3>4, FileSteps
  <2>9. DataIn(cache', Older.main) = DataIn(cache, Older.main)
    BY <2>7 DEF DataIn
  <2> HIDE DEF n
  <2>10. Newest'.txnid - 1 = n - 1
    BY <2>1 DEF n
  <2> QED
    BY <2>1, <2>3, <2>4, <2>8, <2>9, <2>10 DEF OlderIsGood
<1>4. CASE (\A p \in Procs : ~WriteMeta(p)) /\ ~(n > 0)
  BY <1>1, <1>4, Ground DEF OlderIsGood
<1> QED
  BY <1>2, <1>3, <1>4

LEMMA ReachFurther ==
  ASSUME IInv, NEW a \in Nat, NEW b \in Nat, b <= a, NEW g \in Reach(Newest, FreeList, a)
  PROVE  g \in Reach(Newest, FreeList, b)
<1>1. FreeList \in Lists
  BY DEF IInv, NewestIsGood, GoodMeta, GoodList
<1>2. DOMAIN FreeList \subseteq Nat
  BY <1>1, PartialDef DEF Lists
<1>3. After(FreeList, a) \subseteq After(FreeList, b)
  BY <1>2 DEF After
<1> QED
  BY <1>3 DEF Reach

LEMMA ReadsOn ==
  ASSUME IInv, Next, NEW q \in Procs, pc'[q] = "reading", ~CopyRoots(q)
  PROVE  pc[q] = "reading" /\ txn'[q] = txn[q]
<1> USE DEF Goto
<1>a. LocksType
  BY Types
<1>1. ASSUME NEW p \in Procs, Opens(p) \/ Closes(p) \/ BeginWrite(p) \/ Gone(p)
      PROVE  pc[q] = "reading" /\ txn'[q] = txn[q]
  BY <1>a, <1>1 DEF Opens, OpenFirst, OpenSecond, OpenShared, Closes, CloseEnv, CloseLast,
     BeginWrite, Gone, LocksType
<1>2. ASSUME NEW p \in Procs, Reads(p)
      PROVE  pc[q] = "reading" /\ txn'[q] = txn[q]
  BY <1>a, <1>2 DEF Reads, BeginFails, ClaimSlot, LoadTxnid, StoreTxnid, CompareTxnid,
     CopyRoots, EndRead, LocksType
<1>3. ASSUME NEW p \in Procs, Scans(p) \/ Commits(p)
      PROVE  pc[q] = "reading" /\ txn'[q] = txn[q]
  <2>1. CASE Scans(p)
    BY <1>a, <2>1 DEF Scans, ScanLine, LocksType
  <2>2. CASE CommitNothing(p) \/ CommitSave(p)
    BY <1>a, <2>2 DEF CommitNothing, CommitSave, EndWrite, LocksType
  <2>3. CASE FlushPage(p) \/ SyncPages(p) \/ WriteMeta(p)
    BY <1>a, <2>3 DEF FlushPage, SyncPages, WriteMeta, LocksType
  <2>4. CASE Publish(p) \/ WriteFails(p)
    BY <1>a, <2>4 DEF Publish, WriteFails, EndWrite, LocksType
  <2> QED
    BY <1>3, <2>1, <2>2, <2>3, <2>4 DEF Commits
<1>4. CASE PowerFails
  BY <1>4 DEF PowerFails
<1> QED
  BY <1>1, <1>2, <1>3, <1>4, Steps

(* What a reader has, and what it copies when it starts to read.           *)
LEMMA SnapshotsStep ==
  ASSUME IInv, SInv, Next
  PROVE  SnapshotsInReach'
<1> SUFFICES ASSUME NEW q \in Procs, pc'[q] = "reading"
             PROVE  /\ txn'[q].main \in Reach(Newest', FreeList', txn'[q].txnid)
                    /\ DataIn(cache', txn'[q].main) = txn'[q].sees
                    /\ \E id \in DOMAIN history' :
                         id >= txn'[q].txnid /\ history'[id] = txn'[q].sees
  BY DEF SnapshotsInReach
<1> DEFINE n == Newest.txnid
           b == txn[q].txnid
<1>a. LocksType
  BY Types
<1>b. n \in Nat /\ metas \in [0..1 -> Meta]
  BY Types DEF IInv, TypeOK, FileType
<1>1. CASE CopyRoots(q)
  <2> DEFINE meta == metas[b % 2]
  <2>1. /\ txn'[q].txnid = b /\ txn'[q].main = meta.main
        /\ txn'[q].sees = DataIn(cache, meta.main)
        /\ cache' = cache /\ pc[q] = "pinned"
    BY <1>1, <1>a DEF CopyRoots, LocksType, fileVars
  <2>2. b \in Nat /\ b <= n
    BY <2>1, Types DEF SInv, PinsArePast, Pinned
  <2>3. Newest' = Newest /\ FreeList' = FreeList /\ history' = history
    <3>1. \A p \in Procs : ~WriteMeta(p)
      BY <1>1, <1>a, <2>1 DEF CopyRoots, WriteMeta, Goto, LocksType, fileVars
    <3> QED
      BY <3>1, Ground
  <2>4. \E id \in DOMAIN history :
          /\ id >= b /\ history[id] = DataIn(cache, meta.main)
          /\ meta.main \in Reach(Newest, FreeList, b)
    <3>1. CASE b % 2 = n % 2
      <4>1. meta = Newest
        BY <3>1 DEF IInv, MetasTakeTurns
      <4>2. DataIn(cache, Newest.main) = history[n]
        BY DEF IInv, NewestIsGood, Stored, DataIn, Roots
      <4>3. n \in DOMAIN history
        BY <1>b DEF SInv, HistoryIsWhole
      <4>4. Newest.main \in Reach(Newest, FreeList, b)
        BY DEF Reach
      <4> QED
        BY <1>b, <2>2, <4>1, <4>2, <4>3, <4>4
    <3>2. CASE b % 2 # n % 2
      <4>1. b <= n - 1 /\ n > 0 /\ n - 1 \in Nat
        BY <1>b, <2>2, <3>2
      <4>2. b % 2 = (n + 1) % 2
        BY <1>b, <2>2, <3>2
      <4>3. meta = Older
        BY <4>2 DEF Older
      <4>4. /\ Older.txnid = n - 1
            /\ Older.main \in Reach(Newest, FreeList, n - 1)
            /\ DataIn(cache, Older.main) = history[n - 1]
        BY <4>1 DEF SInv, OlderIsGood
      <4>5. n - 1 \in DOMAIN history
        BY <1>b, <4>1 DEF SInv, HistoryIsWhole
      <4>6. Older.main \in Reach(Newest, FreeList, b)
        BY <1>b, <2>2, <4>1, <4>4, ReachFurther
      <4> QED
        BY <2>2, <4>1, <4>3, <4>4, <4>5, <4>6
    <3> QED
      BY <3>1, <3>2
  <2> HIDE DEF meta, b
  <2> QED
    BY <2>1, <2>3, <2>4
<1>2. CASE ~CopyRoots(q)
  <2>1. pc[q] = "reading" /\ txn'[q] = txn[q]
    BY <1>2, ReadsOn
  <2>2. /\ txn[q].main \in Reach(Newest, FreeList, b)
        /\ DataIn(cache, txn[q].main) = txn[q].sees
        /\ \E id \in DOMAIN history : id >= b /\ history[id] = txn[q].sees
    BY <2>1 DEF SInv, SnapshotsInReach
  <2>3. q \in Pinned /\ b \in Nat /\ b <= n
    BY <2>1, Types DEF SInv, PinsArePast, Pinned
  <2>4. ASSUME NEW p \in Procs, pc[p] \in InScan PROVE txn[p].pglast <= b
    <3>1. Cautious(txn[p], b) /\ txn[p].pglast \in Nat
      BY <2>3, <2>4, Types DEF SInv, WritersCareful, WriteTxn
    <3> QED
      BY <2>3, <3>1 DEF Cautious
  <2>5. DataIn(cache', txn[q].main) = DataIn(cache, txn[q].main)
    <3>1. ~PowerFails
      BY DEF PowerFails
    <3>2. txn[q].main # NoPage => cache'[txn[q].main] = cache[txn[q].main]
      BY <2>2, <2>3, <2>4, <3>1, PageKept DEF SInv, InScan
    <3> QED
      BY <3>2 DEF DataIn
  <2>6. /\ txn[q].main \in Reach(Newest', FreeList', b)
        /\ \E id \in DOMAIN history' : id >= b /\ history'[id] = txn[q].sees
    <3>1. ASSUME NEW p \in Procs, WriteMeta(p)
          PROVE  /\ txn[q].main \in Reach(Newest', FreeList', b)
                 /\ \E id \in DOMAIN history' : id >= b /\ history'[id] = txn[q].sees
      <4>1. txn[p].pglast <= b
        BY <2>4, <3>1 DEF WriteMeta, InScan
      <4>2. txn[q].main \in Reach(Newest', FreeList', b)
        BY <2>2, <2>3, <3>1, <4>1, ReachGrows DEF SInv
      <4>3. /\ history' = With(history, txn[p].txnid, DataIn(cache, txn[p].main))
            /\ txn[p].txnid = n + 1
        BY <3>1, MetaIsWritten DEF WriteMeta
      <4>4. PICK id \in DOMAIN history : id >= b /\ history[id] = txn[q].sees
        BY <2>2
      <4>5. id # n + 1
        BY <1>b, <4>4 DEF SInv, HistoryIsWhole
      <4>6. id \in DOMAIN history' /\ history'[id] = history[id]
        BY <4>3, <4>4, <4>5 DEF With
      <4> QED
        BY <4>2, <4>4, <4>6
    <3>2. CASE \A p \in Procs : ~WriteMeta(p)
      BY <2>2, <3>2, Ground
    <3> QED
      BY <3>1, <3>2
  <2> HIDE DEF b
  <2>7. txn'[q].txnid = b
    BY <2>1 DEF b
  <2> QED
    BY <2>1, <2>2, <2>5, <2>6, <2>7
<1> QED
  BY <1>1, <1>2

-----------------------------------------------------------------------------
LEMMA NextSInv == ASSUME CacheKeeps = FALSE PROVE IInv /\ SInv /\ [Next]_vars => SInv'
<1> SUFFICES ASSUME CacheKeeps = FALSE, IInv, SInv, [Next]_vars PROVE SInv'
  OBVIOUS
<1>1. CASE Next
  <2>1. SlotsHeld' /\ PinsArePast'
    BY <1>1, SlotsStep, PinsArePastStep DEF SInv
  <2>2. WritersCareful' /\ RecordsKept'
    BY <1>1, WritersCarefulStep, RecordsKeptStep DEF SInv
  <2>3. HistoryIsWhole' /\ OlderIsGood'
    BY <1>1, HistoryStep, OlderStep DEF SInv
  <2>4. SnapshotsInReach'
    BY <1>1, SnapshotsStep
  <2> QED
    BY <2>1, <2>2, <2>3, <2>4 DEF SInv
<1>2. CASE UNCHANGED vars
  <2>1. UNCHANGED <<cache, disk, metas, mti_txnid, readers, numreaders, pc, txn, history>>
    BY <1>2 DEF vars, lmdbVars, fileVars, lockVars
  <2>2. Newest' = Newest /\ FreeList' = FreeList /\ Pinned' = Pinned
    BY <2>1 DEF Newest, FreeList, IdlIn, Pinned
  <2>3. SlotsHeld' /\ PinsArePast' /\ HistoryIsWhole'
    BY <2>1, <2>2 DEF SInv, SlotsHeld, PinsArePast, HistoryIsWhole
  <2>4. WritersCareful' /\ SnapshotsInReach'
    BY <2>1, <2>2 DEF SInv, WritersCareful, SnapshotsInReach
  <2>5. RecordsKept'
    BY <2>1, <2>2 DEF SInv, RecordsKept, IdlOf, PageOf
  <2>6. Older' = Older
    BY <2>1, <2>2 DEF Older
  <2>7. OlderIsGood'
    BY <2>1, <2>2, <2>6 DEF SInv, OlderIsGood
  <2> QED
    BY <2>3, <2>4, <2>5, <2>7 DEF SInv
<1> QED
  BY <1>1, <1>2

(* Every transaction reads what was committed when it got its snapshot,    *)
(* for as long as it lasts: no page it can reach is written to, however    *)
(* many transactions recycle pages meanwhile, if a failed write of a meta  *)
(* page is not kept by the cache (mdb_page_alloc, mdb_find_oldest,         *)
(* mdb_txn_renew0, mdb_freelist_save).                                     *)
THEOREM SnapshotsStayIntact ==
  ASSUME CacheKeeps = FALSE
  PROVE  Spec => []SnapshotsIntact
<1>1. IInv /\ SInv => SnapshotsIntact
  <2> SUFFICES ASSUME IInv, SInv PROVE SnapshotsIntact
    OBVIOUS
  <2>1. ASSUME NEW p \in Procs, pc[p] = "reading"
        PROVE  /\ \E id \in DOMAIN history : id >= txn[p].txnid /\ history[id] = txn[p].sees
               /\ DataIn(cache, txn[p].main) = txn[p].sees
    BY <2>1 DEF SInv, SnapshotsInReach
  <2>2. ASSUME NEW p \in Procs, pc[p] = "writing", txn[p].dirty = Nothing
        PROVE  DataIn(cache, txn[p].main) = history[txn[p].txnid - 1]
    <3>1. /\ Books(Tables, txn[p], Newest, FreeList)
          /\ txn[p].txnid = Newest.txnid + 1 /\ Newest.txnid \in Nat
      BY <2>2, WritersGround
    <3>2. Own(txn[p], Newest) = {}
      BY <2>2, <3>1, NothingType DEF Books
    <3>3. txn[p].main = Newest.main
      BY <3>1, <3>2 DEF Books, Started
    <3>4. DataIn(cache, Newest.main) = history[Newest.txnid]
      BY DEF IInv, NewestIsGood, Stored, DataIn, Roots
    <3>5. txn[p].txnid - 1 = Newest.txnid
      BY <3>1
    <3> QED
      BY <3>3, <3>4, <3>5
  <2> QED
    BY <2>1, <2>2 DEF SnapshotsIntact
<1>2. Init => SInv
  BY InitSInv
<1>3. IInv /\ SInv /\ [Next]_vars => SInv'
  BY NextSInv
<1> QED
  BY <1>1, <1>2, <1>3, StoreInvariant, PTL DEF Spec
=============================================================================
