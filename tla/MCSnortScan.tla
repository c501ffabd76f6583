----------------------------- MODULE MCSnortScan -----------------------------
(* SnortScan for TLC: the pairs are model values and interchangeable.      *)
EXTENDS SnortScan, TLC

PairSymmetry == Permutations(Pairs)
=============================================================================
