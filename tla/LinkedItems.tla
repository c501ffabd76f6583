----------------------------- MODULE LinkedItems -----------------------------
(***************************************************************************)
(* src/lib/linked_items.c on the heap: items with a prev and a next        *)
(* pointer, the functions that link, unlink and sort them, and a caller    *)
(* that keeps the chain's first item in `start' the way hostwatch.c,       *)
(* snort-scan-util.c and the test do.  Every function but the sort is one  *)
(* step; the sort is one step per item it visits, for it changes pointers  *)
(* while it follows them.                                                  *)
(***************************************************************************)
EXTENDS Integers, Sequences, FiniteSets, SequencesExt

CONSTANTS Items,   (* the addresses malloc returns                 *)
          Keys,    (* what the comparison function looks at        *)
          MaxSorts (* bound: calls of linked_item_sort             *)

NULL == "NULL"

ASSUME LinkedItemsAssumption ==
  /\ IsFiniteSet(Items)
  /\ NULL \notin Items
  /\ Keys \subseteq Int
  /\ MaxSorts \in Nat

VARIABLES
  heap,     (* [prev, next], each a pointer for every item           *)
  key,      (* what is stored in an item besides the pointers        *)
  start,    (* the caller's pointer to the first item                *)
  last, curr,   (* the sort's local variables; changed is 1 when this  *)
  changed,      (* pass has swapped something, however often           *)
  pc,       (* "caller", or where the sort is: "pass", "visit"       *)
  nsorts,
  order     (* history: the items from first to last, by what was    *)
            (* asked for; during a sort, as it was at the call       *)

vars == <<heap, key, start, last, curr, changed, pc, nsorts, order>>

Pointers == Items \cup {NULL}

Init ==
  /\ heap = [prev |-> [i \in Items |-> NULL], next |-> [i \in Items |-> NULL]]
  /\ key \in [Items -> Keys]
  /\ start = NULL
  /\ last = NULL
  /\ curr = NULL
  /\ changed = 0
  /\ pc = "caller"
  /\ nsorts = 0
  /\ order = <<>>

-----------------------------------------------------------------------------
(* Mutant: the item behind the new one still points back to p.             *)
LinkedOneWay(h, p, item) ==
  LET behind == IF p = NULL THEN NULL ELSE h.next[p]
  IN  [prev |-> [h.prev EXCEPT ![item] = p],
       next |-> [i \in Items |-> IF i = item THEN behind
                                 ELSE IF i = p THEN item ELSE h.next[i]]]

(* linked_item_append: item goes between p and the item behind p.          *)
Linked(h, p, item) ==
  LET behind == IF p = NULL THEN NULL ELSE h.next[p]
  IN  [prev |-> [i \in Items |-> IF i = item THEN p
                                 ELSE IF i = behind THEN item ELSE h.prev[i]],
       next |-> [i \in Items |-> IF i = item THEN behind
                                 ELSE IF i = p THEN item ELSE h.next[i]]]

(* linked_item_remove: the neighbours of item are linked to each other;    *)
(* its own pointers stay as they are.                                      *)
Unlinked(h, item) ==
  LET before == h.prev[item]
      behind == h.next[item]
  IN  [prev |-> [i \in Items |-> IF i = behind THEN before ELSE h.prev[i]],
       next |-> [i \in Items |-> IF i = before THEN behind ELSE h.next[i]]]

(* free: what the memory of the items in gone holds is nobody's any more.  *)
Freed(h, gone) ==
  [prev |-> [i \in Items |-> IF i \in gone THEN NULL ELSE h.prev[i]],
   next |-> [i \in Items |-> IF i \in gone THEN NULL ELSE h.next[i]]]

(* The items from p on; linked_item_last and linked_item_count walk them.  *)
(* A chain that runs in a circle shows as one that repeats items.          *)
Chain(h, p) ==
  LET n == Cardinality(Items)
      at[k \in 0..n] == IF k = 0 THEN p
                        ELSE IF at[k - 1] = NULL THEN NULL ELSE h.next[at[k - 1]]
  IN  [k \in {k \in 1..n + 1 : at[k - 1] # NULL} |-> at[k - 1]]

LastOf(h, p)  == IF p = NULL THEN NULL ELSE Last(Chain(h, p))
CountOf(h, p) == Len(Chain(h, p))

-----------------------------------------------------------------------------
InCaller == pc = "caller"

(* Where an item stands in the chain.                                      *)
Place(item) == CHOOSE i \in DOMAIN order : order[i] = item

(* linked_item_create(linked_item_last(start), ...), as create_item and    *)
(* add_bytes do it.                                                        *)
CreateLast(item) ==
  /\ InCaller
  /\ item \notin ToSet(order)
  /\ heap' = Linked(heap, LastOf(heap, start), item)
  /\ start' = IF start = NULL THEN item ELSE start
  /\ order' = Append(order, item)
  /\ UNCHANGED <<key, last, curr, changed, pc, nsorts>>

(* linked_item_create(p, ...) in the middle of a chain, as the test does.  *)
CreateBehind(p, item) ==
  /\ InCaller
  /\ p \in ToSet(order) /\ item \notin ToSet(order)
  /\ heap' = Linked(heap, p, item)
  /\ order' = InsertAt(order, Place(p) + 1, item)
  /\ UNCHANGED <<key, start, last, curr, changed, pc, nsorts>>

(* linked_item_remove and free, the caller's pointer following its head as *)
(* in remove_byte_count_before.                                            *)
RemoveItem(item) ==
  /\ InCaller
  /\ item \in ToSet(order)
  /\ heap' = Freed(Unlinked(heap, item), {item})
  /\ start' = IF start = item THEN heap.next[item] ELSE start
  /\ order' = RemoveAt(order, Place(item))
  /\ UNCHANGED <<key, last, curr, changed, pc, nsorts>>

(* linked_item_free frees every item of the chain.                         *)
FreeAll ==
  /\ InCaller
  /\ start # NULL
  /\ heap' = Freed(heap, ToSet(Chain(heap, start)))
  /\ start' = NULL
  /\ order' = <<>>
  /\ UNCHANGED <<key, last, curr, changed, pc, nsorts>>

(* linked_item_sort is called; with start NULL it returns at once.         *)
CallSort ==
  /\ InCaller
  /\ nsorts < MaxSorts
  /\ start # NULL
  /\ nsorts' = nsorts + 1
  /\ pc' = "pass"
  /\ UNCHANGED <<heap, key, start, last, curr, changed, order>>

-----------------------------------------------------------------------------
(* Mutants: a comparison that swaps equal items; one that swaps too few.   *)
SwapDueOnEqual == last # NULL /\ key[last] <= key[curr]
SwapDueByTwo   == last # NULL /\ key[last] + 1 < key[curr]

(* The comparison function of hostwatch.c: more bytes go first.            *)
SwapDue == last # NULL /\ key[last] < key[curr]

(* A pass over the chain begins.                                           *)
BeginPass ==
  /\ pc = "pass"
  /\ changed' = 0
  /\ last' = NULL
  /\ curr' = start
  /\ pc' = "visit"
  /\ UNCHANGED <<heap, key, start, nsorts, order>>

(* Mutant: start is not moved when the first item is swapped.              *)
VisitKeepsStart ==
  /\ pc = "visit"
  /\ curr # NULL
  /\ IF SwapDue
     THEN /\ heap' = Linked(Unlinked(heap, last), curr, last)
          /\ changed' = 1
     ELSE UNCHANGED <<heap, changed>>
  /\ last' = curr
  /\ curr' = heap'.next[curr]
  /\ UNCHANGED <<key, start, pc, nsorts, order>>

(* The sort looks at one item and swaps it with the one before it if that  *)
(* is due; then it goes on from the item behind curr, after a swap the one *)
(* it has just moved there.                                                *)
Visit ==
  /\ pc = "visit"
  /\ curr # NULL
  /\ IF SwapDue
     THEN /\ heap' = Linked(Unlinked(heap, last), curr, last)
          /\ start' = IF last = start THEN curr ELSE start
          /\ changed' = 1
     ELSE UNCHANGED <<heap, start, changed>>
  /\ last' = curr
  /\ curr' = heap'.next[curr]
  /\ UNCHANGED <<key, pc, nsorts, order>>

KeyAbove(i, j) == key[i] > key[j]

INSTANCE Ranking WITH Above <- KeyAbove

(* The pass is over: another one if it changed anything, else the sort     *)
(* returns start, and its local variables are gone.                        *)
EndPass ==
  /\ pc = "visit"
  /\ curr = NULL
  /\ last' = NULL
  /\ changed' = 0
  /\ IF changed > 0
     THEN pc' = "pass" /\ UNCHANGED order
     ELSE pc' = "caller" /\ order' = StableSort(order)
  /\ UNCHANGED <<heap, key, start, curr, nsorts>>

-----------------------------------------------------------------------------
Sort == BeginPass \/ Visit \/ EndPass

Next ==
  \/ \E item \in Items : CreateLast(item) \/ RemoveItem(item)
  \/ \E p, item \in Items : CreateBehind(p, item)
  \/ FreeAll
  \/ CallSort
  \/ Sort

Spec == Init /\ [][Next]_vars

(* The sort runs to its end; nothing is assumed of the caller.             *)
FairSpec == Spec /\ WF_vars(Sort)

-----------------------------------------------------------------------------
(* Whatever sequence of calls built the chain, it holds the items asked    *)
(* for, in the order asked for; after a sort, in the order of a stable     *)
(* sort, each item once.                                                   *)
ChainIsOrder == InCaller => Chain(heap, start) = order

(* A sort never loses or doubles an item, not even for a moment: start     *)
(* leads to every item at every step, and whoever stands behind an item    *)
(* points back to it.                                                      *)
SortKeepsItems ==
  LET chain == Chain(heap, start)
  IN  /\ Len(chain) = Len(order) /\ ToSet(chain) = ToSet(order)
      /\ \A k \in DOMAIN chain :
           heap.prev[chain[k]] = IF k = 1 THEN NULL ELSE chain[k - 1]

(* linked_item_sort returns, whatever the keys, equal ones included.       *)
SortReturns == (pc # "caller") ~> (pc = "caller")
=============================================================================
