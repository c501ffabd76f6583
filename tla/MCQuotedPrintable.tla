-------------------------- MODULE MCQuotedPrintable --------------------------
(* QuotedPrintable with all short lines of output, as fgets returns them.  *)
EXTENDS QuotedPrintable

MCTexts ==
  {Append(s, "lf") : s \in UNION {[1..k -> {"plain", "low", "high", "dot", "cr"}] : k \in 0..3}}
=============================================================================
