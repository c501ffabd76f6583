----------------------------- MODULE MCHttpExec -----------------------------
(* HttpExec with short inputs of text and of table lines.                  *)
EXTENDS HttpExec

MCInputs == {<<>>, << <<0, 1>>, <<2>> >>}
=============================================================================
