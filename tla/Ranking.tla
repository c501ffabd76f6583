------------------------------- MODULE Ranking -------------------------------
(***************************************************************************)
(* What linked_item_sort makes of a chain, as an operator on sequences:    *)
(* the elements by rank, those of equal rank in the order they had.  The   *)
(* module LinkedItems shows that the bubble sort on prev and next pointers *)
(* of src/lib/linked_items.c computes it.                                  *)
(***************************************************************************)
EXTENDS Integers, Sequences, FiniteSets

CONSTANT Above(_, _)   (* Above(x, y): x belongs in front of y; the comparison *)
                       (* that makes the sort swap a y right before an x       *)

StableSort(s) ==
  LET Before(j, i) == \/ Above(s[j], s[i])
                      \/ j < i /\ ~Above(s[i], s[j])
      rank(i) == Cardinality({j \in DOMAIN s : Before(j, i)}) + 1
  IN  [k \in DOMAIN s |-> s[CHOOSE i \in DOMAIN s : rank(i) = k]]
=============================================================================
