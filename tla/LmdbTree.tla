------------------------------ MODULE LmdbTree ------------------------------
(***************************************************************************)
(* The B+tree of the LMDB that sntools is built with: lookups, insertions  *)
(* that split pages, deletions that move nodes between pages and merge     *)
(* them, pages copied before they are changed, data of an entry on an      *)
(* overflow page when it is too big for a node, and the cursor that        *)
(* arp-history walks the table with.                                       *)
(*                                                                         *)
(* A node is a record of key, data and page, page being the child of a     *)
(* branch node and the overflow page of a leaf node.  A transaction is a   *)
(* record of the tree's pages and of what the transaction did with them,   *)
(* path being the pages of the cursor that is used for it, from the root   *)
(* (mc_pg).  Pages, nodes and levels count from 1.  The code keeps the     *)
(* place of a page in its parent in that cursor (mc_ki), which it adjusts; *)
(* here it is looked up.                                                   *)
(* There are no sorted duplicates and no nested transactions, which        *)
(* sntools does not use.                                                   *)
(***************************************************************************)
EXTENDS Integers, FiniteSets, SequencesExt

CONSTANTS
  Keys,       (* a set of positive integers, in the order of mdb_cmp_memn   *)
  Data,       (* what may be stored                                         *)
  KeySize,    (* from keys to sizes                                         *)
  DataSize,   (* from data to sizes                                         *)
  Cap         (* space for nodes on a page, me_psize - PAGEHDRSZ            *)

NoPage == 0          (* P_INVALID                                           *)
NullKey == 0         (* key of the first node of a branch page              *)
NoData == "none"
NodeHeader == 1      (* NODESIZE + sizeof(indx_t)                           *)
PageRef == 1         (* sizeof(pgno_t)                                      *)
NodeMax == Cap \div 2                                      (* me_nodemax    *)

(* The longest key leaves room for two nodes on a page, whatever they hold  *)
(* (MDB_MAXKEYSIZE).                                                        *)
ASSUME SizesAssumption ==
  /\ Keys \subseteq Nat \ {0}
  /\ \A key \in Keys : KeySize[key] \in Nat /\ NodeHeader + KeySize[key] + PageRef <= NodeMax
  /\ \A data \in Data : DataSize[data] \in Nat
  /\ Cap \in Nat /\ NodeHeader + PageRef <= NodeMax

(* mdb_leaf_size and mdb_branch_size.                                       *)
KeyLen(key) == IF key = NullKey THEN 0 ELSE KeySize[key]
IsBig(node) == node.page # NoPage \/ NodeHeader + KeyLen(node.key) + DataSize[node.data] > NodeMax
LeafSize(node) ==
  NodeHeader + KeyLen(node.key) + (IF IsBig(node) THEN PageRef ELSE DataSize[node.data])
BranchSize(node) == NodeHeader + KeyLen(node.key)
NodeSize(kind, node) == IF kind = "leaf" THEN LeafSize(node) ELSE BranchSize(node)

SizeOf(kind, nodes) ==
  LET sum[n \in 0..Len(nodes)] ==
        IF n = 0 THEN 0 ELSE sum[n - 1] + NodeSize(kind, nodes[n])
  IN  sum[Len(nodes)]
SizeLeft(page) == Cap - SizeOf(page.kind, page.nodes)
Branch(key, child) == [key |-> key, data |-> NoData, page |-> child]

EmptyTree ==
  [pg |-> <<>>, root |-> NoPage, depth |-> 0, entries |-> 0,
   leafs |-> 0, branches |-> 0, overflows |-> 0,
   dirty |-> {}, loose |-> <<>>, freed |-> {}, full |-> FALSE, new |-> NoPage,
   path |-> <<>>]

(* The pages of the tree, children after their parent: below the leaves     *)
(* there are the overflow pages.                                            *)
Preorder(t) ==
  LET under[n \in 0..t.depth + 1] ==
        [g \in 0..Len(t.pg) |->
           IF n = 0 \/ g = NoPage THEN <<>>
           ELSE <<g>> \o FlattenSeq([i \in 1..Len(t.pg[g].nodes) |->
                                        under[n - 1][t.pg[g].nodes[i].page]])]
  IN  under[t.depth + 1][t.root]
InTree(t) == ToSet(Preorder(t)) \cap 1..Len(t.pg)

(* Where page h refers to page g.                                           *)
Slot(t, h, g) == CHOOSE i \in 1..Len(t.pg[h].nodes) : t.pg[h].nodes[i].page = g

-----------------------------------------------------------------------------
(* Lookup.  mdb_node_search is a binary search between low and high; the    *)
(* result is the first node that is not below the key.  A turn of its loop: *)
Halve(s, nodes, key) ==
  LET i == (s.low + s.high) \div 2
  IN IF s.exact \/ s.low > s.high THEN s
     ELSE IF nodes[i].key = key THEN [s EXCEPT !.low = i, !.exact = TRUE]
     ELSE IF key > nodes[i].key THEN [s EXCEPT !.low = i + 1]
     ELSE [s EXCEPT !.high = i - 1]

NodeSearch(nodes, key, first) ==
  LET search[n \in 0..Len(nodes)] ==
        IF n = 0 THEN [low |-> first, high |-> Len(nodes), exact |-> FALSE]
        ELSE Halve(search[n - 1], nodes, key)
      found == search[Len(nodes)]
  IN  [i |-> found.low, exact |-> found.exact]

LeafSearch(page, key) == NodeSearch(page.nodes, key, 1)

(* mdb_page_search_root: the child to follow.  The first key of a branch    *)
(* page is never looked at.                                                 *)
ChildIndex(page, key) ==
  LET found == NodeSearch(page.nodes, key, 2)
  IN IF found.exact THEN found.i ELSE found.i - 1

(* mdb_page_search_lowest                                                   *)
LowestKey(t, g) ==
  LET down[n \in 0..t.depth] ==
        IF n = 0 THEN g
        ELSE IF t.pg[down[n - 1]].kind = "leaf" THEN down[n - 1]
        ELSE t.pg[down[n - 1]].nodes[1].page
  IN  t.pg[down[t.depth]].nodes[1].key

(* mdb_node_read                                                            *)
NodeRead(t, node) == IF node.page = NoPage THEN node.data ELSE t.pg[node.page].nodes[1].data

-----------------------------------------------------------------------------
(* Pages.  mdb_page_alloc gives out the loose pages first, the last one     *)
(* that came loose before the others.                                       *)
PageAlloc(t) ==
  IF t.loose # <<>> THEN [t EXCEPT !.new = Head(t.loose), !.loose = Tail(@)]
  ELSE LET g == Len(t.pg) + 1
       IN [t EXCEPT !.new = g, !.dirty = @ \cup {g},
                    !.pg = Append(@, [kind |-> "leaf", nodes |-> <<>>])]

PageNew(t, kind) ==
  LET a == PageAlloc(t)
  IN [a EXCEPT !.pg[a.new] = [kind |-> kind, nodes |-> <<>>],
               !.leafs = @ + (IF kind = "leaf" THEN 1 ELSE 0),
               !.branches = @ + (IF kind = "branch" THEN 1 ELSE 0),
               !.overflows = @ + (IF kind = "overflow" THEN 1 ELSE 0)]

(* mdb_page_touch: a page of an earlier transaction is replaced by a copy   *)
(* in its parent, which has been touched before; the root has none.         *)
Relink(t, parent, g, copy) ==
  IF parent = NoPage THEN [t EXCEPT !.root = copy]
  ELSE [t EXCEPT !.pg[parent].nodes[Slot(t, parent, g)].page = copy]
PageTouch(t, parent, g) ==
  LET a == PageAlloc(t)
  IN IF g \in t.dirty THEN [t EXCEPT !.new = g]
     ELSE Relink([a EXCEPT !.pg[a.new] = t.pg[g], !.freed = @ \cup {g}], parent, g, a.new)

(* mdb_cursor_touch: every page from the root to the leaf of the key, which *)
(* mdb_page_search has put on the path.                                     *)
Follow(t) == [t EXCEPT !.path = Append(@, t.new)]
TouchChild(t, g, key) ==
  IF t.pg[g].kind = "leaf" THEN t
  ELSE Follow(PageTouch(t, g, t.pg[g].nodes[ChildIndex(t.pg[g], key)].page))
TouchNext(t, key) == TouchChild(t, t.path[Len(t.path)], key)
TouchRoot(t) == Follow(PageTouch([t EXCEPT !.path = <<>>], NoPage, t.root))
TouchDown(t, key) ==
  LET down[n \in 0..Len(t.pg)] ==
        IF n = 0 THEN TouchRoot(t) ELSE TouchNext(down[n - 1], key)
  IN  down[Len(t.pg)]

(* mdb_page_loose                                                           *)
PageLoose(t, g) ==
  IF g \in t.dirty THEN [t EXCEPT !.loose = <<g>> \o @] ELSE [t EXCEPT !.freed = @ \cup {g}]

(* mdb_ovpage_free, while no record of the free list has been taken over.   *)
OvpageFree(t, g) ==
  IF g = NoPage THEN t ELSE [t EXCEPT !.freed = @ \cup {g}, !.overflows = @ - 1]

-----------------------------------------------------------------------------
(* Nodes.  Data that is too big for a node goes to a page of its own.       *)
Stored(t, kind, node) ==
  LET a == PageNew(t, "overflow")
  IN IF kind = "branch" \/ ~IsBig(node) \/ node.page # NoPage
     THEN [t |-> t, node |-> node]
     ELSE [t |-> [a EXCEPT !.pg[a.new].nodes = <<node>>],
           node |-> [node EXCEPT !.data = NoData, !.page = a.new]]

(* mdb_node_add, at index i of page g; MDB_PAGE_FULL if there is no room.   *)
NodeAdd(t, g, i, node) ==
  LET kind == t.pg[g].kind
      s == Stored(t, kind, node)
  IN IF NodeSize(kind, node) > SizeLeft(t.pg[g]) THEN [t EXCEPT !.full = TRUE]
     ELSE [s.t EXCEPT !.pg[g].nodes = InsertAt(@, i, s.node)]

NodeDel(t, g, i) == [t EXCEPT !.pg[g].nodes = RemoveAt(@, i)]

-----------------------------------------------------------------------------
(* Mutant: in the middle, whatever the sizes are.                           *)
SplitInTheMiddle(kind, all, new) == Len(all) \div 2 + 1

(* mdb_page_split: where to split the nodes of a page with the new one      *)
(* among them, so that both pages can hold theirs; the new one is at index  *)
(* new.  The result is the first node that moves to the right page.         *)
SplitIndex(kind, all, new) ==
  LET n == Len(all) - 1                       (* nkeys                      *)
      middle == (n + 1) \div 2                (* the code's, from 0         *)
      Before(i) == SizeOf(kind, SubSeq(all, 1, i))
      After(i) == SizeOf(kind, SubSeq(all, i, n + 1))
      lastUp == IF new > n THEN n ELSE middle + (IF kind = "leaf" THEN 2 ELSE 1)
      up == {i \in 1..lastUp : Before(i) > Cap \/ i = lastUp}
      down == {i \in middle + 1..n + 1 : After(i) > Cap \/ i = middle + 1}
  IN IF new <= middle + 1 \/ new > n
     THEN CHOOSE i \in up : \A j \in up : i <= j
     ELSE (CHOOSE i \in down : \A j \in down : i >= j) + 1

(* The first key of a branch page is not stored.                            *)
Filed(kind, nodes) ==
  IF kind = "branch" /\ nodes # <<>> THEN [nodes EXCEPT ![1].key = NullKey] ELSE nodes

(* The root gets a parent before it is split.                               *)
GrowRoot(t) ==
  LET a == PageNew(t, "branch")
  IN [a EXCEPT !.pg[a.new].nodes = <<Branch(NullKey, t.root)>>,
               !.root = a.new, !.depth = @ + 1, !.path = <<a.new>> \o @]

(* mdb_page_split: a node u.node is to be at index u.i of page u.g, which   *)
(* is on level u.l of the path and full.  A right page is to be hung into   *)
(* its parent, which may be split in turn; u.todo has the splits that the   *)
(* nodes are not dealt out for yet, the upper ones first.                   *)
Hang(u, a, right, l, all, split) ==
  [t |-> a, l |-> l - 1, g |-> a.path[l - 1], i |-> Slot(a, a.path[l - 1], u.g) + 1,
   node |-> Branch(all[split].key, right),
   todo |-> <<[g |-> u.g, right |-> right, i |-> u.i, all |-> all, split |-> split]>> \o u.todo]
SplitAt(u, a, right, l, all) ==
  Hang(u, a, right, l, all, SplitIndex(u.t.pg[u.g].kind, all, u.i))
SplitWith(u, a) ==
  SplitAt(u, IF u.l = 1 THEN GrowRoot(a) ELSE a, a.new, IF u.l = 1 THEN 2 ELSE u.l,
          InsertAt(u.t.pg[u.g].nodes, u.i, u.node))
PageSplit(u) == SplitWith(u, PageNew(u.t, u.t.pg[u.g].kind))

(* The nodes of a split page, the new one among them, go to two pages.      *)
Dealt(s, d, all) ==
  LET kind == s.t.pg[d.g].kind
      left == Filed(kind, SubSeq(all, 1, d.split - 1))
      moved == Filed(kind, SubSeq(all, d.split, Len(all)))
  IN [s.t EXCEPT !.pg[d.g].nodes = left, !.pg[d.right].nodes = moved,
                 !.full = @ \/ SizeOf(kind, left) > Cap \/ SizeOf(kind, moved) > Cap]
DealStored(s, d) == Dealt(s, d, [d.all EXCEPT ![d.i] = s.node])
Deal(t, d) == DealStored(Stored(t, t.pg[d.g].kind, d.all[d.i]), d)

(* The end of mdb_cursor_put, and of the part of mdb_page_split that hangs  *)
(* the right page into the parent: pages are split until one has room.      *)
HasRoom(u) == NodeSize(u.t.pg[u.g].kind, u.node) <= SizeLeft(u.t.pg[u.g])
SplitUp(t, l, g, i, node) ==
  LET up[n \in 0..l] ==
        IF n = 0 THEN [t |-> t, l |-> l, g |-> g, i |-> i, node |-> node, todo |-> <<>>]
        ELSE IF HasRoom(up[n - 1]) THEN up[n - 1] ELSE PageSplit(up[n - 1])
  IN  up[l]
DealOut(u) ==
  LET dealt[n \in 0..Len(u.todo)] ==
        IF n = 0 THEN NodeAdd(u.t, u.g, u.i, u.node) ELSE Deal(dealt[n - 1], u.todo[n])
  IN  dealt[Len(u.todo)]
Place(t, l, g, i, node) == DealOut(SplitUp(t, l, g, i, node))

(* mdb_update_key: for a longer key there may not be room.                  *)
UpdateKey(t, l, g, i, key) ==
  IF SizeLeft(t.pg[g]) < KeyLen(key) - KeyLen(t.pg[g].nodes[i].key)
  THEN Place(NodeDel(t, g, i), l, g, i, Branch(key, t.pg[g].nodes[i].page))
  ELSE [t EXCEPT !.pg[g].nodes[i].key = key]

-----------------------------------------------------------------------------
(* mdb_node_move.  A branch node that was or becomes the first of its page  *)
(* loses its key, one that no longer is gets the lowest key below it.       *)
KeyAt(t, g, i) ==
  IF i = 1 /\ t.pg[g].kind = "branch" THEN LowestKey(t, g) ELSE t.pg[g].nodes[i].key

(* Mutant: the parent keeps the old separator.                              *)
SeparateNot(t, l, g) == t

Separate(t, l, g) ==       (* update the parent's key for page g           *)
  LET parent == t.path[l - 1]
  IN IF Slot(t, parent, g) = 1 THEN t
     ELSE UpdateKey(t, l - 1, parent, Slot(t, parent, g), t.pg[g].nodes[1].key)
DropFirstKey(t, l, g) ==
  IF t.pg[g].kind = "branch" THEN UpdateKey(t, l, g, 1, NullKey) ELSE t
SeparateAnew(t, l, g) == DropFirstKey(Separate(t, l, g), l, g)

MoveNode(t, l, src, si, dst, di, node) ==
  LET c == IF di = 1 /\ t.pg[dst].kind = "branch"
           THEN UpdateKey(t, l, dst, 1, LowestKey(t, dst)) ELSE t
  IN NodeDel(NodeAdd(c, dst, di, node), src, si)
MoveAt(t, l, src, si, dst, di) ==
  MoveNode(t, l, src, si, dst, di, [t.pg[src].nodes[si] EXCEPT !.key = KeyAt(t, src, si)])
MoveBetween(t, l, src, dst, fromleft) ==
  IF fromleft THEN SeparateAnew(MoveAt(t, l, src, Len(t.pg[src].nodes), dst, 1), l, dst)
  ELSE SeparateAnew(MoveAt(t, l, src, 1, dst, Len(t.pg[dst].nodes) + 1), l, src)

(* The neighbour source and the page of the path are on level l.            *)
TouchDest(t, l, src, b, fromleft) == MoveBetween(b, l, src, b.new, fromleft)
TouchSource(a, l, fromleft) ==
  TouchDest(a, l, a.new, PageTouch(a, a.path[l - 1], a.path[l]), fromleft)
NodeMove(t, l, source, fromleft) ==
  TouchSource(PageTouch(t, t.path[l - 1], source), l, fromleft)

(* mdb_page_merge, without the rebalancing of the parent at its end.        *)
MergeInto(t, l, src, dst, both) ==
  LET kind == t.pg[src].kind
      parent == t.path[l - 1]
  IN PageLoose(NodeDel([t EXCEPT !.pg[dst].nodes = both, !.full = @ \/ SizeOf(kind, both) > Cap,
                                 !.leafs = @ - (IF kind = "leaf" THEN 1 ELSE 0),
                                 !.branches = @ - (IF kind = "branch" THEN 1 ELSE 0)],
                       parent, Slot(t, parent, src)),
               src)
MergeTouched(a, l, src) ==
  MergeInto(a, l, src, a.new,
            a.pg[a.new].nodes \o [i \in 1..Len(a.pg[src].nodes) |->
                                    [a.pg[src].nodes[i] EXCEPT !.key = KeyAt(a, src, i)]])
(* Mutant: the page that receives the nodes is not touched.                 *)
PageMergeUntouched(t, l, src, dest) == MergeTouched([t EXCEPT !.new = dest], l, src)

PageMerge(t, l, src, dest) == MergeTouched(PageTouch(t, t.path[l - 1], dest), l, src)

(* mdb_rebalance: a page is left alone if it holds enough, FILL_THRESHOLD   *)
(* being a quarter of the space.                                            *)
MinKeys(page) == IF page.kind = "branch" THEN 2 ELSE 1
FullEnough(page) == page.kind = "branch" \/ 4 * SizeOf(page.kind, page.nodes) >= Cap

(* Mutant: the root page that is given up is not counted.                   *)
RebalanceRootKeepsCount(t) ==
  LET g == t.root
      nodes == t.pg[g].nodes
  IN IF nodes = <<>>
     THEN [t EXCEPT !.root = NoPage, !.depth = 0, !.leafs = 0, !.freed = @ \cup {g}]
     ELSE IF t.pg[g].kind = "branch" /\ Len(nodes) = 1
     THEN [t EXCEPT !.root = nodes[1].page, !.depth = @ - 1, !.freed = @ \cup {g}]
     ELSE t

(* mdb_rebalance of the root: an empty tree has no page, and a branch page  *)
(* with one child gives way to it.                                          *)
RebalanceRoot(t) ==
  LET g == t.root
      nodes == t.pg[g].nodes
  IN IF nodes = <<>>
     THEN [t EXCEPT !.root = NoPage, !.depth = 0, !.leafs = 0, !.freed = @ \cup {g}]
     ELSE IF t.pg[g].kind = "branch" /\ Len(nodes) = 1
     THEN [t EXCEPT !.root = nodes[1].page, !.depth = @ - 1, !.branches = @ - 1,
                    !.freed = @ \cup {g}]
     ELSE t

(* The page on level r.l, 0 when nothing is left to do.                     *)
RebalanceLevel(r) ==
  LET t == r.t
      l == r.l
      g == t.path[l]
      parent == t.path[l - 1]
      fromleft == Slot(t, parent, g) # 1
      neighbour == t.pg[parent].nodes[Slot(t, parent, g) + (IF fromleft THEN -1 ELSE 1)].page
      page == t.pg[neighbour]
      Done(u) == [t |-> u, l |-> 0]
  IN IF l = 0 THEN r
     ELSE IF FullEnough(t.pg[g]) /\ Len(t.pg[g].nodes) >= MinKeys(t.pg[g]) THEN Done(t)
     ELSE IF l = 1 THEN Done(RebalanceRoot(t))
     ELSE IF FullEnough(page) /\ Len(page.nodes) > MinKeys(page)
     THEN Done(NodeMove(t, l, neighbour, fromleft))
     ELSE [t |-> IF fromleft THEN PageMerge(t, l, g, neighbour) ELSE PageMerge(t, l, neighbour, g),
           l |-> l - 1]
Rebalance(t, l) ==
  LET up[n \in 0..l] == IF n = 0 THEN [t |-> t, l |-> l] ELSE RebalanceLevel(up[n - 1])
  IN  up[l].t

-----------------------------------------------------------------------------
(* mdb_put, that is mdb_cursor_put without flags.  An entry that exists is  *)
(* overwritten in place if its data has the same size, or if it is on an    *)
(* overflow page of this transaction.                                       *)
FirstLeaf(t) ==
  LET a == PageNew(t, "leaf") IN [a EXCEPT !.root = a.new, !.depth = 1, !.path = <<a.new>>]

OverwriteAt(t, l, g, i, node) ==
  LET old == t.pg[g].nodes[i]
  IN IF old.page \in t.dirty THEN [t EXCEPT !.pg[old.page].nodes = <<node>>]
     ELSE IF old.page = NoPage /\ DataSize[old.data] = DataSize[node.data]
     THEN [t EXCEPT !.pg[g].nodes[i] = node]
     ELSE Place(NodeDel(OvpageFree(t, old.page), g, i), l, g, i, node)

PutAt(t, l, g, node) ==
  LET found == LeafSearch(t.pg[g], node.key)
  IN IF found.exact THEN OverwriteAt(t, l, g, found.i, node)
     ELSE Place([t EXCEPT !.entries = @ + 1], l, g, found.i, node)

Ended(t) == [t EXCEPT !.path = <<>>, !.new = NoPage]
PutWhere(a, node) == PutAt(a, Len(a.path), a.path[Len(a.path)], node)
MdbPut(t, key, data) ==
  Ended(PutWhere(IF t.root = NoPage THEN FirstLeaf(t) ELSE TouchDown(t, key),
                 [key |-> key, data |-> data, page |-> NoPage]))

(* mdb_del of a key that exists: mdb_cursor_del and mdb_cursor_del0.        *)
DelAt(t, l, g, i) ==
  Rebalance([NodeDel(OvpageFree(t, t.pg[g].nodes[i].page), g, i) EXCEPT !.entries = @ - 1], l)
DelWhere(a, g, key) == DelAt(a, Len(a.path), g, LeafSearch(a.pg[g], key).i)
DelFound(a, key) == DelWhere(a, a.path[Len(a.path)], key)
MdbDel(t, key) == Ended(DelFound(TouchDown(t, key), key))

-----------------------------------------------------------------------------
(* The cursor.  mc_pg and mc_ki are stacks of which mc_snum entries are in  *)
(* use; what was pushed before stays there.  out is what a call returns:    *)
(* key and data, or nothing for MDB_NOTFOUND.                               *)
NewCursor == [init |-> FALSE, eof |-> FALSE, snum |-> 0, pg |-> <<>>, ki |-> <<>>, out |-> <<>>]

PutIn(stack, level, x) ==
  IF level > Len(stack) THEN Append(stack, x) ELSE [stack EXCEPT ![level] = x]

(* mdb_cursor_push                                                          *)
Push(c, g) ==
  LET n == c.snum + 1
  IN [c EXCEPT !.snum = n, !.pg = PutIn(@, n, g), !.ki = PutIn(@, n, 1)]

TopPage(t, c) == t.pg[c.pg[c.snum]]
TopNode(t, c) == TopPage(t, c).nodes[c.ki[c.snum]]
SetTop(c, i) == [c EXCEPT !.ki[c.snum] = i]
NotFound(c) == [c EXCEPT !.out = <<>>]
Found(t, c) == [c EXCEPT !.out = <<TopNode(t, c).key, NodeRead(t, TopNode(t, c))>>]

(* mdb_page_search_root to the first leaf, to the last one or to that of a  *)
(* key.  On the way to the last leaf a cursor that is set is believed.      *)
ToFirst == 0         (* MDB_PS_FIRST                                        *)
ToLast == -1         (* MDB_PS_LAST                                         *)
SearchOn(t, c, goal) ==
  LET page == TopPage(t, c)
      i == CASE goal = ToFirst -> 1
             [] goal = ToLast -> Len(page.nodes)
             [] OTHER -> ChildIndex(page, goal)
  IN IF page.kind = "leaf" THEN [c EXCEPT !.init = TRUE, !.eof = FALSE]
     ELSE IF goal = ToLast /\ c.init /\ c.ki[c.snum] = i THEN [c EXCEPT !.snum = @ + 1]
     ELSE Push(SetTop(c, i), page.nodes[i].page)
SearchRoot(t, c, goal) ==
  LET down[n \in 0..t.depth] == IF n = 0 THEN c ELSE SearchOn(t, down[n - 1], goal)
  IN  down[t.depth]

(* mdb_page_search; the index in the root page is left as it was.           *)
PageSearch(t, c, goal) ==
  IF c.pg = <<>> THEN SearchRoot(t, Push(c, t.root), goal)
  ELSE SearchRoot(t, [c EXCEPT !.snum = 1, !.pg[1] = t.root], goal)

(* mdb_cursor_sibling: up to the first page that has a node further on, and *)
(* down from it again; <<>> if there is none.                               *)
Further(t, c, right, l) ==
  c.ki[l] # IF right THEN Len(t.pg[c.pg[l]].nodes) ELSE 1
Enter(t, c, right) ==
  LET child == Push(c, TopNode(t, c).page)
  IN IF right THEN child ELSE SetTop(child, Len(TopPage(t, child).nodes))
DownFrom(t, c, levels, right) ==
  LET down[n \in 0..levels] == IF n = 0 THEN c ELSE Enter(t, down[n - 1], right)
  IN  down[levels]
Sibling(t, c, right) ==
  LET levels == {l \in 1..c.snum - 1 : Further(t, c, right, l)}
      l == CHOOSE l \in levels : \A m \in levels : l >= m
      up == [c EXCEPT !.snum = l]
  IN IF levels = {} THEN <<>>
     ELSE <<DownFrom(t, SetTop(up, up.ki[l] + (IF right THEN 1 ELSE -1)), c.snum - l, right)>>

CursorFirst(t, c) ==
  LET d == IF c.init /\ c.snum = 1 THEN c ELSE PageSearch(t, c, ToFirst)
  IN IF t.root = NoPage THEN NotFound(c)
     ELSE Found(t, [SetTop(d, 1) EXCEPT !.init = TRUE, !.eof = FALSE])

CursorLast(t, c) ==
  LET d == IF c.init /\ c.snum = 1 THEN c ELSE PageSearch(t, c, ToLast)
  IN IF t.root = NoPage THEN NotFound(c)
     ELSE Found(t, [SetTop(d, Len(TopPage(t, d).nodes)) EXCEPT !.init = TRUE, !.eof = TRUE])

CursorNext(t, c) ==
  LET n == Len(TopPage(t, c).nodes)
      d == [c EXCEPT !.eof = FALSE]
      s == Sibling(t, d, TRUE)
  IN IF ~c.init THEN CursorFirst(t, c)
     ELSE IF c.eof /\ c.ki[c.snum] >= n THEN NotFound(c)
     ELSE IF c.ki[c.snum] + 1 <= n THEN Found(t, SetTop(d, c.ki[c.snum] + 1))
     ELSE IF s = <<>> THEN NotFound([d EXCEPT !.eof = TRUE])
     ELSE Found(t, s[1])

(* A cursor that is not set starts behind the last entry.                   *)
PrevSibling(t, c, s) == IF s = <<>> THEN NotFound(c) ELSE Found(t, s[1])
PrevFrom(t, c) ==
  IF c.ki[c.snum] > 1 THEN Found(t, SetTop(c, c.ki[c.snum] - 1))
  ELSE PrevSibling(t, c, Sibling(t, c, FALSE))
BehindLast(last) == SetTop(last, last.ki[last.snum] + 1)
CursorPrev(t, c) ==
  LET d == IF c.init THEN c ELSE BehindLast(CursorLast(t, c))
  IN IF t.root = NoPage THEN NotFound(c) ELSE PrevFrom(t, [d EXCEPT !.eof = FALSE])

(* Mutant: the next page is not looked at.                                  *)
SetOnThisLeaf(t, c, key, range) ==
  LET found == LeafSearch(TopPage(t, c), key)
      d == SetTop(c, found.i)
  IN IF (~range /\ ~found.exact) \/ found.i > Len(TopPage(t, c).nodes) THEN NotFound(d)
     ELSE Found(t, [d EXCEPT !.init = TRUE, !.eof = FALSE])

(* mdb_cursor_set, second half: look for the key on the leaf page, and go   *)
(* to the next one if all it has is below the key.                          *)
SetOnLeaf(t, c, key, range) ==
  LET found == LeafSearch(TopPage(t, c), key)
      d == SetTop(c, found.i)
      s == Sibling(t, d, TRUE)
  IN IF ~range /\ ~found.exact THEN NotFound(d)
     ELSE IF found.i <= Len(TopPage(t, c).nodes) THEN Found(t, [d EXCEPT !.init = TRUE, !.eof = FALSE])
     ELSE IF s = <<>> THEN NotFound([d EXCEPT !.eof = TRUE])
     ELSE Found(t, [s[1] EXCEPT !.init = TRUE, !.eof = FALSE])

(* mdb_cursor_set for MDB_SET and MDB_SET_RANGE: a cursor that is set may   *)
(* be on the right page already, or on the last one.                        *)
CursorSet(t, c, key, range) ==
  LET nodes == TopPage(t, c).nodes
      n == Len(nodes)
      Here(i) == Found(t, [SetTop(c, i) EXCEPT !.eof = FALSE])
      rightmost == \A l \in 1..c.snum - 1 : c.ki[l] = Len(t.pg[c.pg[l]].nodes)
  IN IF t.root = NoPage THEN NotFound(c)
     ELSE IF ~c.init THEN SetOnLeaf(t, PageSearch(t, [c EXCEPT !.pg = <<>>, !.ki = <<>>], key), key, range)
     ELSE IF key = nodes[1].key THEN Here(1)
     ELSE IF key > nodes[1].key /\ n > 1 /\ key = nodes[n].key THEN Here(n)
     ELSE IF key > nodes[1].key /\ n > 1 /\ key < nodes[n].key
     THEN IF c.ki[c.snum] <= n /\ key = nodes[c.ki[c.snum]].key THEN Here(c.ki[c.snum])
          ELSE SetOnLeaf(t, [c EXCEPT !.eof = FALSE], key, range)
     ELSE IF key > nodes[1].key /\ rightmost THEN NotFound(SetTop(c, n + 1))
     ELSE IF c.snum = 1
     THEN IF range THEN Here(1) ELSE NotFound(SetTop(c, 1))
     ELSE SetOnLeaf(t, PageSearch(t, c, key), key, range)

(* mdb_get, through a new cursor with MDB_SET: the data, or nothing.        *)
MdbGet(t, key) ==
  LET out == CursorSet(t, NewCursor, key, FALSE).out
  IN IF out = <<>> THEN <<>> ELSE <<out[2]>>
=============================================================================
