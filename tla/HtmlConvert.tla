----------------------------- MODULE HtmlConvert -----------------------------
(***************************************************************************)
(* lib/html_convert.c: lines of text become paragraphs, lines with         *)
(* tabulators become rows of a table.  A line is the sequence of its cells *)
(* and has more than one if there is a tabulator; of a cell only its       *)
(* number of characters matters, the newline in the last one included.     *)
(***************************************************************************)
EXTENDS Integers, Sequences, SequencesExt

UNDEFINED == "undefined"
TEXT == "text"
TABLE == "table"

Tag(name) == [tag |-> name, size |-> 0]
Cell(size) == [tag |-> "characters", size |-> size]

(* html, html_last = NULL, and html_curr_paragraph_type.                    *)
NewHtml == [html |-> <<>>, ended |-> TRUE, block |-> UNDEFINED]

(* __html_append: the first one after html_finish begins a new conversion.  *)
HtmlAppend(h, items) ==
  [h EXCEPT !.html = (IF h.ended THEN <<>> ELSE @) \o items, !.ended = FALSE]

(* Mutant: a table is left open when a paragraph follows.                   *)
HtmlFinishTextBlock(h) == IF h.block = TEXT THEN HtmlAppend(h, <<Tag("</p>")>>) ELSE h

(* __html_finish_block                                                      *)
HtmlFinishBlock(h) ==
  CASE h.block = TEXT -> HtmlAppend(h, <<Tag("</p>")>>)
    [] h.block = TABLE -> HtmlAppend(h, <<Tag("</table>")>>)
    [] OTHER -> h

(* Another kind of block than the one before begins.                        *)
HtmlEnterBlock(h, block, tag) ==
  IF h.block = block THEN h
  ELSE [HtmlAppend(HtmlFinishBlock(h), <<Tag(tag)>>) EXCEPT !.block = block]

(* The cells of a row; the last one is left out if it has but one character.*)
HtmlRow(line) ==
  LET n == Len(line)
      Separated(i) == <<Cell(line[i]), Tag("</td><td>")>>
  IN <<Tag("<tr><td>")>> \o FlattenSeq([i \in 1..n - 1 |-> Separated(i)])
       \o (IF line[n] > 1 THEN <<Cell(line[n])>> ELSE <<>>) \o <<Tag("</td></tr>")>>

(* html_append_text                                                         *)
HtmlAppendText(h, line) ==
  IF Len(line) > 1
  THEN HtmlAppend(HtmlEnterBlock(h, TABLE, "<table>"), HtmlRow(line))
  ELSE HtmlAppend(HtmlEnterBlock(h, TEXT, "<p>"), <<Cell(line[1])>>)

(* html_finish                                                              *)
HtmlFinish(h) == [HtmlFinishBlock(h) EXCEPT !.ended = TRUE, !.block = UNDEFINED]

(* html.c: the lines of its input, one after the other, and what it prints. *)
HtmlLines(lines) ==
  LET upto[n \in 0..Len(lines)] ==
        IF n = 0 THEN NewHtml ELSE HtmlAppendText(upto[n - 1], lines[n])
  IN  upto[Len(lines)]

Html(lines) ==
  <<Tag("<body>")>> \o HtmlFinish(HtmlLines(lines)).html \o <<Tag("</body>")>>

-----------------------------------------------------------------------------
(* A reader of the result: where it is after a tag, "error" if the tag may  *)
(* not be there.                                                            *)
After(where, item) ==
  CASE where = "start" /\ item.tag = "<body>" -> "body"
    [] where = "body" /\ item.tag = "<p>" -> "p"
    [] where = "body" /\ item.tag = "<table>" -> "table"
    [] where = "body" /\ item.tag = "</body>" -> "end"
    [] where = "p" /\ item.tag = "</p>" -> "body"
    [] where = "table" /\ item.tag = "<tr><td>" -> "td"
    [] where = "table" /\ item.tag = "</table>" -> "body"
    [] where = "td" /\ item.tag = "</td><td>" -> "td"
    [] where = "td" /\ item.tag = "</td></tr>" -> "table"
    [] where \in {"p", "td"} /\ item.tag = "characters" -> where
    [] OTHER -> "error"

(* Where it is after the items if it was at `where' before them.            *)
PlaceAfter(where, items) ==
  LET at[n \in 0..Len(items)] == IF n = 0 THEN where ELSE After(at[n - 1], items[n])
  IN  at[Len(items)]
Place(items) == PlaceAfter("start", items)
=============================================================================
