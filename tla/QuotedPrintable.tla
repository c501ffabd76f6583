--------------------------- MODULE QuotedPrintable ---------------------------
(***************************************************************************)
(* smtp_qp_write of lib/smtp_socket_util.c, which writes one line of the   *)
(* body of a mail, and what the mail server and the reader of the mail     *)
(* make of it.  Of a character it matters whether it is a dot, a carriage  *)
(* return, a newline, another one that is sent as it is ("plain"), or one  *)
(* that is encoded: below 128 ("low") or, as a char, negative ("high").    *)
(***************************************************************************)
EXTENDS Integers, Sequences, SequencesExt

CONSTANTS
  Texts,       (* the lines to be written                                   *)
  MaxLine      (* 75 in the code: characters of a line before a soft break  *)

VARIABLES
  data,    (* the argument                                                  *)
  i,       (* index of the next character, from 1; 0 if the process is gone *)
  li,      (* the line counter                                              *)
  wire     (* what was written: characters, "crlf" and "soft" breaks        *)

vars == <<data, i, li, wire>>

Init ==
  /\ data \in Texts
  /\ i = 1 /\ li = 0
  /\ wire = <<>>

n == Len(data)

(* A dot alone on a line would end the mail.  The newline has to be CR LF   *)
(* for it to be seen.                                                       *)
Stuffing ==
  IF li = 0 /\ i < n - 1 /\ data[i] = "dot" /\ data[i + 1] = "cr" /\ data[i + 2] = "lf"
  THEN <<"dot">> ELSE <<>>

(* The character after a carriage return is skipped, whatever it is.        *)
Skips == data[i] = "cr"

(* Of a negative char %02X makes FFFFFF80 to FFFFFFFF, and the first three  *)
(* characters of "=FFFFFF80" are written.                                   *)
Encoded ==
  CASE data[i] \in {"cr", "lf"} -> <<"crlf">>
    [] data[i] = "high" -> <<"=FF">>
    [] OTHER -> <<data[i]>>

Width ==
  CASE data[i] \in {"low", "high"} -> 3
    [] data[i] \in {"cr", "lf"} -> 0
    [] OTHER -> 1

(* One turn of the loop: what is written, and the counter, which is set     *)
(* back if the character that was looked at last is a newline.              *)
WriteCharacter ==
  /\ i \in 1..n
  /\ LET last == IF Skips THEN i + 1 ELSE i
         count == li + Len(Stuffing) + Width
         newline == last <= n /\ data[last] \in {"cr", "lf"}
         soft == ~newline /\ count = MaxLine
     IN /\ i' = last + 1
        /\ li' = IF newline \/ soft THEN 0 ELSE count
        /\ wire' = wire \o Stuffing \o Encoded \o (IF soft THEN <<"soft">> ELSE <<>>)
  /\ UNCHANGED data

(* That is more than tmp[4] can hold: the program may be stopped for it.    *)
Stopped ==
  /\ i \in 1..n /\ data[i] = "high"
  /\ i' = 0
  /\ UNCHANGED <<data, li, wire>>

Returned == i \notin 1..n /\ UNCHANGED vars

Next == WriteCharacter \/ Stopped \/ Returned

Spec == Init /\ [][Next]_vars

-----------------------------------------------------------------------------
(* The server's side: a line that is a dot ends the mail, the dot that      *)
(* begins another line is taken away (RFC 5321), and soft breaks disappear. *)
Lines(text) ==
  FoldLeft(LAMBDA lines, c : IF c = "crlf" THEN Append(lines, <<>>)
                             ELSE [lines EXCEPT ![Len(lines)] = Append(@, c)],
           << <<>> >>, text)
Unstuffed(line) == IF line # <<>> /\ line[1] = "dot" THEN Tail(line) ELSE line
Received(text) ==
  [k \in DOMAIN Lines(text) |-> SelectSeq(Unstuffed(Lines(text)[k]), LAMBDA c : c # "soft")]

(* The argument with its newlines as one character each.                    *)
Newlines(text) ==
  LET At(k) == CASE text[k] = "cr" -> <<"crlf">>
                 [] text[k] = "lf" -> IF k > 1 /\ text[k - 1] = "cr" THEN <<>> ELSE <<"crlf">>
                 [] OTHER -> <<text[k]>>
  IN FlattenSeq([k \in DOMAIN text |-> At(k)])

-----------------------------------------------------------------------------
(* "Write text in quoted-printable encoding to socket.": the reader of the  *)
(* mail finds the text that was written, its newlines of whatever kind as   *)
(* new lines ("Single <CR> to <CR><LF>", "Single <LF> to <CR><LF>"), and    *)
(* the server does not find the end of the mail in it (smtp_qp_write).      *)
TextArrives ==
  i > n =>
    /\ Received(wire) = Lines(Newlines(data))
    /\ \A k \in 1..Len(Lines(wire)) - 1 : Lines(wire)[k] # <<"dot">>
=============================================================================
