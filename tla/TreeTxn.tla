------------------------------- MODULE TreeTxn -------------------------------
(***************************************************************************)
(* Write transactions on the tree of LmdbTree, one after the other, each   *)
(* committed or given up, and cursors on what was committed.  Which pages  *)
(* are given out is LmdbTxn's business: here every transaction gets pages  *)
(* that nobody has used.  When it is committed the pages are numbered anew *)
(* from the root, so that trees of the same shape are the same state.      *)
(***************************************************************************)
EXTENDS LmdbTree, TLC

CONSTANTS
  Values,     (* from keys to the data they may have                        *)
  MaxOps      (* bound: changes in one transaction                          *)

VARIABLES
  base,       (* the committed tree                                         *)
  txn,        (* the tree as the transaction has it                         *)
  ops,        (* changes the transaction has made                           *)
  table,      (* history: the table that base should be                     *)
  now,        (* history: the table that txn should be                      *)
  cursor,     (* a cursor on base                                           *)
  call        (* history: the last call of the cursor, what it returned, and*)
              (* the key the cursor was on before and is on after it        *)

vars == <<base, txn, ops, table, now, cursor, call>>

NotSet == 0            (* the cursor has not been used                      *)
Unknown == -1          (* nothing is promised after a failed search         *)
NoCall == [op |-> "none", key |-> NotSet, from |-> NotSet, out |-> <<>>, at |-> NotSet]

Init ==
  /\ base = EmptyTree /\ txn = EmptyTree
  /\ ops = 0
  /\ table = <<>> /\ now = <<>>
  /\ cursor = NewCursor /\ call = NoCall

CloseCursor == cursor' = NewCursor /\ call' = NoCall

Put(key, data) ==
  /\ ops < MaxOps
  /\ ops' = ops + 1
  /\ txn' = MdbPut(txn, key, data)
  /\ now' = (key :> data) @@ now
  /\ CloseCursor
  /\ UNCHANGED <<base, table>>

Del(key) ==
  /\ ops < MaxOps
  /\ key \in DOMAIN now
  /\ ops' = ops + 1
  /\ txn' = MdbDel(txn, key)
  /\ now' = [k \in DOMAIN now \ {key} |-> now[k]]
  /\ CloseCursor
  /\ UNCHANGED <<base, table>>

(* The committed tree, its pages numbered from the root.                    *)
Renumbered(t) ==
  LET order == Preorder(t)
      NewNumber(g) == IF g = NoPage THEN NoPage ELSE CHOOSE i \in 1..Len(order) : order[i] = g
      Page(page) == [page EXCEPT !.nodes =
                       [i \in 1..Len(@) |-> [@[i] EXCEPT !.page = NewNumber(@)]]]
  IN [t EXCEPT !.pg = [i \in 1..Cardinality(InTree(t)) |-> Page(t.pg[order[i]])],
               !.root = NewNumber(@), !.new = NoPage,
               !.dirty = {}, !.loose = <<>>, !.freed = {}]

Commit ==
  /\ ops > 0
  /\ base' = Renumbered(txn)
  /\ txn' = base'
  /\ table' = now
  /\ ops' = 0
  /\ UNCHANGED <<now, cursor, call>>

Abort ==
  /\ ops > 0
  /\ txn' = base
  /\ now' = table
  /\ ops' = 0
  /\ UNCHANGED <<base, table, cursor, call>>

(* A call of mdb_cursor_get.                                                *)
Walk(op, key) ==
  /\ ops = 0
  /\ cursor' = CASE op = "first" -> CursorFirst(base, cursor)
                 [] op = "last" -> CursorLast(base, cursor)
                 [] op = "next" -> CursorNext(base, cursor)
                 [] op = "prev" -> CursorPrev(base, cursor)
                 [] op = "range" -> CursorSet(base, cursor, key, TRUE)
  /\ call' = [op |-> op, key |-> key, out |-> cursor'.out,
              from |-> IF op \in {"next", "prev"} THEN call.at ELSE NotSet,
              at |-> IF cursor'.out # <<>> THEN cursor'.out[1]
                     ELSE IF op \in {"next", "prev"} THEN call.at ELSE Unknown]
  /\ UNCHANGED <<base, txn, ops, table, now>>

Next ==
  \/ \E key \in Keys : \E data \in Values[key] : Put(key, data)
  \/ \E key \in Keys : Del(key)
  \/ Commit
  \/ Abort
  \/ \E op \in {"first", "last", "next", "prev"} : Walk(op, NotSet)
  \/ \E key \in Keys : Walk("range", key)

Spec == Init /\ [][Next]_vars
-----------------------------------------------------------------------------
(* Every lookup finds what was last stored under the key, through any       *)
(* history of splits, moves and merges (mdb_get, mdb_page_search,           *)
(* mdb_node_search).                                                        *)
LookupsAgree ==
  \A key \in Keys : MdbGet(txn, key) = IF key \in DOMAIN now THEN <<now[key]>> ELSE <<>>

(* The shape of the tree: every leaf is as deep as the tree claims, no      *)
(* branch page has less than two children and no leaf is empty, as the      *)
(* assertions of the code have it, the keys of a page are in order, but for *)
(* that of the first child, and nothing is put on a page that has no room   *)
(* for it, "since all callers already calculate the page's free space"      *)
(* (mdb_page_split, mdb_rebalance, mdb_node_add).                           *)
LeafDepths(t) ==
  LET depths[n \in 0..t.depth] ==
        [g \in 1..Len(t.pg) |->
           IF t.pg[g].kind = "leaf" THEN {1}
           ELSE IF n = 0 THEN {}
           ELSE {d + 1 : d \in UNION {depths[n - 1][t.pg[g].nodes[i].page] :
                                       i \in 1..Len(t.pg[g].nodes)}}]
  IN  depths[t.depth][t.root]
TreeIsSound ==
  /\ ~txn.full
  /\ txn.root # NoPage => LeafDepths(txn) = {txn.depth}
  /\ \A g \in InTree(txn) :
       LET page == txn.pg[g]
       IN page.kind # "overflow" =>
            /\ Len(page.nodes) >= IF page.kind = "branch" THEN 2 ELSE 1
            /\ SizeLeft(page) >= 0
            /\ \A i, j \in 1..Len(page.nodes) : i < j => page.nodes[i].key < page.nodes[j].key
            /\ page.kind = "branch" => page.nodes[1].key = NullKey

(* The pages of the committed tree are not written to, so that readers of   *)
(* it are not disturbed and a crash leaves it whole (mdb_page_touch before  *)
(* every change).                                                           *)
CommittedPagesUntouched == \A g \in 1..Len(base.pg) : txn.pg[g] = base.pg[g]

(* A page is in the tree, loose, or freed, and in one place only; and the   *)
(* counters that mdb_stat shows are those of the tree (md_entries,          *)
(* md_leaf_pages, md_branch_pages, md_overflow_pages).                      *)
PagesAndCountersAgree ==
  LET pages == Preorder(txn)
      Count(kind) == Cardinality({g \in ToSet(pages) : txn.pg[g].kind = kind})
  IN /\ IsInjective(pages \o txn.loose)
     /\ ToSet(pages \o txn.loose) \cup txn.freed = 1..Len(txn.pg)
     /\ ToSet(pages \o txn.loose) \cap txn.freed = {}
     /\ txn.entries = Cardinality(DOMAIN now)
     /\ txn.leafs = Count("leaf")
     /\ txn.branches = Count("branch")
     /\ txn.overflows = Count("overflow")

(* The cursor goes through the table in order, forwards and backwards, and  *)
(* finds the first key that is not below the one it is set to, whatever it  *)
(* was used for before (mdb_cursor_next, _prev, _set, _first, _last).       *)
CursorFollowsTable ==
  LET keys == DOMAIN table
      Above(k) == {x \in keys : x > k}
      Below(k) == {x \in keys : x < k}
      Least(S) == IF S = {} THEN <<>> ELSE LET k == CHOOSE x \in S : \A y \in S : x <= y IN <<k, table[k]>>
      Greatest(S) == IF S = {} THEN <<>> ELSE LET k == CHOOSE x \in S : \A y \in S : x >= y IN <<k, table[k]>>
      from == call.from
  IN ops = 0 =>
     CASE call.op = "first" -> call.out = Least(keys)
       [] call.op = "last" -> call.out = Greatest(keys)
       [] call.op = "range" -> call.out = Least(keys \cap ({call.key} \cup Above(call.key)))
       [] call.op = "next" /\ from # Unknown -> call.out = Least(Above(from))
       [] call.op = "prev" /\ from = NotSet -> call.out = Greatest(keys)
       [] call.op = "prev" /\ from > NotSet -> call.out = Greatest(Below(from))
       [] OTHER -> TRUE
=============================================================================
