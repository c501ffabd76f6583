------------------------------- MODULE SeqFilter -------------------------------
(***************************************************************************)
(* The elements of a sequence that are in a set.  It is SelectSeq with a   *)
(* set in the place of the operator, written as a recursive function that  *)
(* the proofs can unfold.                                                  *)
(***************************************************************************)
EXTENDS Integers, Sequences

(* The elements of s that are in S, in the order they have in s.           *)
Filter(s, S) ==
  LET upto[n \in 0..Len(s)] ==
        IF n = 0 THEN <<>>
        ELSE IF s[n] \in S THEN Append(upto[n - 1], s[n])
        ELSE upto[n - 1]
  IN  upto[Len(s)]
=============================================================================
