----------------------------- MODULE MCTreeTxn -----------------------------
(* TreeTxn with short and long keys and data of three sizes, the last of   *)
(* which goes to an overflow page.                                         *)
EXTENDS TreeTxn

MCKeySize == <<1, 1, 3, 3, 3, 3>>
MCDataSize == [empty |-> 0, small |-> 2, other |-> 2, big |-> 6]
MCValues == <<{"empty"}, {"empty"}, {"empty"}, {"empty", "big"}, {"small", "other"}, {"small"}>>
=============================================================================
