------------------------------ MODULE MailSpool ------------------------------
(***************************************************************************)
(* What exec-and-mail promises to whoever reads the mail it sends, free    *)
(* of threads, locks and SMTP: the n-th line the command printed enters    *)
(* the spool after the lines before it, and every mail carries, in order,  *)
(* all the lines spooled since the mail before it.  Lines are named by     *)
(* their position in the command's output.                                 *)
(***************************************************************************)
EXTENDS Integers, Sequences, SequencesExt

CONSTANT Limit   (* the spool never holds more lines than this, at least 1 *)

VARIABLES
  spooled,       (* the lines that have entered the spool so far   *)
  pending,       (* lines accepted and not mailed yet              *)
  mails,         (* the mails handed to the mail server, in order  *)
  state          (* "open", "closed" after the last flush, "dead"  *)

vars == <<spooled, pending, mails, state>>

Init ==
  /\ spooled = 0
  /\ pending = <<>>
  /\ mails = <<>>
  /\ state = "open"

(* The next line of the command is spooled.                                *)
Accept ==
  /\ state = "open"
  /\ Len(pending) < Limit
  /\ spooled' = spooled + 1
  /\ pending' = Append(pending, spooled')
  /\ UNCHANGED <<mails, state>>

(* Everything that is spooled leaves in one mail; no mail is empty.        *)
Mail ==
  /\ state = "open"
  /\ pending # <<>>
  /\ mails' = Append(mails, pending)
  /\ pending' = <<>>
  /\ UNCHANGED <<spooled, state>>

(* An orderly end leaves nothing behind.                                   *)
Close ==
  /\ state = "open"
  /\ pending = <<>>
  /\ state' = "closed"
  /\ UNCHANGED <<spooled, pending, mails>>

(* The process is killed; what was spooled goes with it.                   *)
Die ==
  /\ state = "open"
  /\ pending # <<>>
  /\ state' = "dead"
  /\ UNCHANGED <<spooled, pending, mails>>

Next == Accept \/ Mail \/ Close \/ Die

Spec == Init /\ [][Next]_vars

(* With a wait timeout the spool may not sit on a line for ever.           *)
FairSpec == Spec /\ WF_vars(Mail)
=============================================================================
