--------------------------- MODULE ExecAndMailSmtp ---------------------------
(***************************************************************************)
(* exec-and-mail with its mail server: the threads of ExecAndMail, where   *)
(* the time a thread spends inside send_buffer is a session of SmtpSession.*)
(* The body of a mail is what send_buffer finds in the chain when it walks *)
(* it, and the mail exists once the server has taken the body.             *)
(***************************************************************************)
EXTENDS ExecAndMail, SeqFilter

CONSTANTS MaxCalls, MaxReplyLines, MaxOpen

VARIABLES
  step, ret, verdicts, wire, peerOpen, open, killed, results,
  body,      (* the lines send_buffer wrote in this session             *)
  mailbox    (* the mails the server has taken, in order                *)

Smtp == INSTANCE SmtpSession

ASSUME ExecAndMailSmtpAssumption == Smtp!SmtpSessionAssumption

smtpVars == <<step, ret, verdicts, wire, peerOpen, open, killed, results>>
allVars  == <<vars, smtpVars, body, mailbox>>

InitSmtp ==
  /\ Init
  /\ Smtp!Init
  /\ body = <<>>
  /\ mailbox = <<>>

(* A step of a thread outside send_buffer.                                 *)
ThreadStep ==
  /\ \/ PopenSucceeds \/ PopenFails \/ ReadLine \/ ReadEnds \/ PcloseReturns
     \/ AppendLine \/ TimerExpires \/ MainReturns
     \/ \E t \in Threads : HandleDataSkips(t)
  /\ UNCHANGED <<smtpVars, body, mailbox>>

(* handle_data calls send_buffer.                                          *)
CallSendBuffer ==
  /\ \E t \in Threads : BeginSend(t)
  /\ Smtp!Call
  /\ body' = <<>>
  /\ UNCHANGED mailbox

(* One step of the dialogue; the chain is walked between the answer to     *)
(* DATA and the wait for the answer to the final dot.                      *)
Converse ==
  /\ status = "running"
  /\ \/ Smtp!SmtpReadOk \/ Smtp!SmtpReadError \/ Smtp!QuitOk
  /\ body' = IF step' = Smtp!Body /\ step # Smtp!Body THEN buffer ELSE body
  /\ UNCHANGED <<vars, mailbox>>

(* The server answers; it takes the mail when it accepts the final dot.    *)
ServerAnswers ==
  /\ status = "running"
  /\ Smtp!Answer
  /\ mailbox' = IF Len(verdicts') = Smtp!Body /\ verdicts'[Smtp!Body]
                THEN Append(mailbox, body)
                ELSE mailbox
  /\ UNCHANGED <<vars, body>>

ServerHangsUp ==
  /\ status = "running"
  /\ Smtp!PeerCloses
  /\ UNCHANGED <<vars, body, mailbox>>

(* Whether the server took the mail of this session, which handle_data     *)
(* does not ask.                                                           *)
Taken == Len(verdicts) >= Smtp!Body /\ verdicts[Smtp!Body]

(* Mutant: a mail that failed is kept and sent again with the next one.    *)
SendBufferReturnsRetry ==
  /\ Smtp!Return
  /\ \E t \in Threads :
       IF ret = 0 THEN EndSend(t, IF Taken THEN "accepted" ELSE "lost")
                  ELSE EndSendKeepsBuffer(t, "lost")
  /\ UNCHANGED <<body, mailbox>>

(* send_buffer returns to handle_data.                                     *)
SendBufferReturns ==
  /\ Smtp!Return
  /\ \E t \in Threads : EndSend(t, IF Taken THEN "accepted" ELSE "lost")
  /\ UNCHANGED <<body, mailbox>>

Killed ==
  /\ Smtp!Sigpipe
  /\ \E t \in Threads : KilledBySigpipe(t)
  /\ UNCHANGED <<body, mailbox>>

Ended == status # "running" /\ UNCHANGED allVars

Dialogue == Converse \/ SendBufferReturns \/ Killed

NextSmtp ==
  \/ ThreadStep \/ CallSendBuffer \/ Dialogue
  \/ ServerAnswers \/ ServerHangsUp \/ Ended

SpecSmtp == InitSmtp /\ [][NextSmtp]_allVars

(* The threads run when they can, sleep() ends, and the server answers or  *)
(* hangs up.  That send_buffer returns is no assumption here.              *)
FairnessSmtp ==
  /\ WF_allVars(AppendLine /\ ThreadStep)
  /\ WF_allVars(TimerExpires /\ ThreadStep)
  /\ WF_allVars(MainReturns /\ ThreadStep)
  /\ \A t \in Threads : WF_allVars(HandleDataSkips(t) /\ ThreadStep)
  /\ \A t \in Threads : WF_allVars(BeginSend(t) /\ CallSendBuffer)
  /\ WF_allVars(Dialogue)
  /\ WF_allVars(Smtp!AnswerDue /\ (ServerAnswers \/ ServerHangsUp))

FairSpecSmtp == SpecSmtp /\ FairnessSmtp

-----------------------------------------------------------------------------
(* What the server takes is the batch handle_data was called for: the n-th *)
(* mail in the mailbox is the n-th batch that was accepted, and the mail   *)
(* of the session under way is the chain.                                  *)
MailboxIsAcceptedBatches ==
  LET accepted == Filter(batches, [lines : Seq(Lines), outcome : {"accepted"}])
  IN  mailbox = IF handle_data_mutex # NoThread /\ Taken
                THEN Append(LinesOf(accepted), buffer) ELSE LinesOf(accepted)

(* No line is mailed twice and none overtakes another, even when the       *)
(* server's answer is lost after it has taken the mail: a failed mail is   *)
(* never sent again.                                                       *)
MailedAtMostOnceInOrder ==
  LET mailed == FlattenSeq(mailbox)
  IN  \A i, j \in DOMAIN mailed : i < j => mailed[i] < mailed[j]

(* send_buffer writes a command only after the server has taken every       *)
(* command before it, whichever thread calls it and whatever became of the *)
(* calls before.  With answers of one line each.                           *)
WritesInLockstep == Smtp!WritesInLockstep

(* A call that spoke to the server returns 0 only if the server took the   *)
(* mail, and everything else it was told.  With answers of one line each.  *)
ZeroMeansTaken == Smtp!ZeroMeansTaken

(* A session's socket is closed if the call returned 0, and stays open for *)
(* good after a call that returned -1: a process has at most one socket    *)
(* per failed mail, and the one in use.                                    *)
OpenSocketsAreFailures == Smtp!OpenSocketsAreFailures

(* send_buffer returns while the program runs, unless SIGPIPE kills it, so *)
(* that handle_data's mutex is not held for ever.                          *)
CallsReturn == (step # 0) ~> (step = 0 \/ killed \/ status # "running")

(* The comment at the head of exec-and-mail.c: "Creates and sends a e-mail *)
(* countaing command output".  When the program has ended in good order,   *)
(* every line of the output is in a mail the server took.                  *)
EveryLineMailed ==
  status = "exited" =>
    \A l \in 1..nread : \E m \in DOMAIN mailbox : Contains(mailbox[m], l)

(* The threads do what ExecAndMail says, and what it assumes of            *)
(* send_buffer, that it returns or kills the process, is so.               *)
ImplementsExecAndMail == FairSpec
=============================================================================
