---------------------------- MODULE MCArpStore ----------------------------
(* ArpStore with processes and host names that are interchangeable.        *)
EXTENDS ArpStore, TLC

Symmetry == Permutations(Procs) \cup Permutations(Names)
=============================================================================
