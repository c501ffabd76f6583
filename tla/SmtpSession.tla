----------------------------- MODULE SmtpSession -----------------------------
(***************************************************************************)
(* send_buffer of src/exec-and-mail.c as a client of one SMTP server: it   *)
(* connects, reads the greeting, and then writes one command after another *)
(* and calls smtp_read after each; the first answer that is not a success  *)
(* makes it return -1.  The server, the network and the kernel are modelled*)
(* by what send_buffer can see of them.                                    *)
(*                                                                         *)
(* The exchanges of a session are numbered: 1 the greeting, 2 HELO,        *)
(* 3 MAIL FROM, 4 RCPT TO, 5 DATA, 6 headers, body and final dot, 7 QUIT.  *)
(* Of an answer only its lines matter, and of a line whether it begins     *)
(* with 2 or 3 (TRUE) or not (FALSE).                                      *)
(***************************************************************************)
EXTENDS Integers, Sequences, FiniteSets

CONSTANTS
  MaxCalls,        (* bound: calls of send_buffer                           *)
  MaxReplyLines,   (* a server's answer has 1..MaxReplyLines lines          *)
  MaxOpen          (* sockets the process may have open at a time           *)

(* What the proofs take the constants to be.                               *)
SmtpSessionAssumption ==
  /\ MaxCalls \in Nat
  /\ MaxReplyLines \in Nat \ {0}
  /\ MaxOpen \in Nat

VARIABLES
  step,      (* 0 outside send_buffer, 1..7 before or in that exchange's     *)
             (* smtp_read, 8 about to return                                 *)
  ret,       (* the value send_buffer is about to return                     *)
  verdicts,  (* the server's answers of this session, TRUE for a success     *)
  wire,      (* lines sent by the server and not read yet                    *)
  peerOpen,  (* the server has not closed or lost the connection             *)
  open,      (* sockets of the process that are open                         *)
  killed,    (* SIGPIPE has ended the process                                *)
  results    (* history: what the calls returned and what the server said    *)

smtpVars == <<step, ret, verdicts, wire, peerOpen, open, killed, results>>

Body == 6
Quit == 7
Exchanges == 1..Quit

InSession == step \in Exchanges /\ ~killed

Init ==
  /\ step = 0
  /\ ret = 0
  /\ verdicts = <<>>
  /\ wire = <<>>
  /\ peerOpen = FALSE
  /\ open = 0
  /\ killed = FALSE
  /\ results = <<>>

-----------------------------------------------------------------------------
(* open_socket connected: the server owes its greeting.                    *)
Connect ==
  /\ step = 0 /\ ~killed
  /\ Len(results) < MaxCalls
  /\ open < MaxOpen
  /\ step' = 1
  /\ open' = open + 1
  /\ peerOpen' = TRUE
  /\ verdicts' = <<>>
  /\ wire' = <<>>
  /\ UNCHANGED <<ret, killed, results>>

(* open_socket did not yield a socket, for want of a name, of a route or   *)
(* of a descriptor: send_buffer returns 0 as if it had sent the mail.      *)
ConnectFails ==
  /\ step = 0 /\ ~killed
  /\ Len(results) < MaxCalls
  /\ step' = 8
  /\ ret' = 0
  /\ peerOpen' = FALSE
  /\ verdicts' = <<>>
  /\ wire' = <<>>
  /\ UNCHANGED <<open, killed, results>>

(* Mutant: smtp_read does not look at its line.                            *)
SmtpReadOkAny ==
  /\ InSession
  /\ step < Quit
  /\ wire # <<>>
  /\ wire' = Tail(wire)
  /\ step' = step + 1
  /\ UNCHANGED <<ret, verdicts, peerOpen, open, killed, results>>

(* smtp_read took one line, it begins with 2 or 3, and the next command is *)
(* written.                                                                *)
SmtpReadOk ==
  /\ InSession
  /\ step < Quit
  /\ wire # <<>> /\ Head(wire)
  /\ wire' = Tail(wire)
  /\ step' = step + 1
  /\ UNCHANGED <<ret, verdicts, peerOpen, open, killed, results>>

(* Mutant: smtp_read does not look at the result of read() and goes on     *)
(* for ever when there is nothing more to read.                            *)
SmtpReadErrorNotEof ==
  /\ InSession
  /\ \/ /\ wire # <<>> /\ ~Head(wire)
        /\ wire' = Tail(wire)
        /\ step' = 8
        /\ ret' = -1
     \/ /\ wire = <<>> /\ ~peerOpen
        /\ UNCHANGED <<wire, step, ret>>
  /\ UNCHANGED <<verdicts, peerOpen, open, killed, results>>

(* Mutant: a failed smtp_read ends the session, but 0 is returned.         *)
SmtpReadErrorAsZero ==
  /\ InSession
  /\ \/ wire # <<>> /\ ~Head(wire)
     \/ wire = <<>> /\ ~peerOpen
  /\ wire' = IF wire = <<>> THEN wire ELSE Tail(wire)
  /\ step' = 8
  /\ ret' = 0
  /\ UNCHANGED <<verdicts, peerOpen, open, killed, results>>

(* smtp_read took a line that is an error, or read() failed or met the end *)
(* of the stream: send_buffer returns -1 and leaves the socket open.       *)
SmtpReadError ==
  /\ InSession
  /\ \/ wire # <<>> /\ ~Head(wire)
     \/ wire = <<>> /\ ~peerOpen
  /\ wire' = IF wire = <<>> THEN wire ELSE Tail(wire)
  /\ step' = 8
  /\ ret' = -1
  /\ UNCHANGED <<verdicts, peerOpen, open, killed, results>>

(* Mutant: the socket is not closed.                                       *)
QuitOkLeavesOpen ==
  /\ InSession
  /\ step = Quit
  /\ wire # <<>> /\ Head(wire)
  /\ wire' = Tail(wire)
  /\ step' = 8
  /\ ret' = 0
  /\ UNCHANGED <<verdicts, peerOpen, open, killed, results>>

(* QUIT was answered: close(socket), return 0.                             *)
QuitOk ==
  /\ InSession
  /\ step = Quit
  /\ wire # <<>> /\ Head(wire)
  /\ wire' = Tail(wire)
  /\ step' = 8
  /\ ret' = 0
  /\ open' = open - 1
  /\ UNCHANGED <<verdicts, peerOpen, killed, results>>

(* send_buffer returns to handle_data.                                     *)
Return ==
  /\ step = 8
  /\ step' = 0
  /\ results' = Append(results, [ret |-> ret, verdicts |-> verdicts])
  /\ UNCHANGED <<ret, verdicts, wire, peerOpen, open, killed>>

(* A write to a connection that is gone raises SIGPIPE, for which the      *)
(* process has no handler.  The client may still be writing exchange step  *)
(* as long as the server has not answered it.                              *)
Sigpipe ==
  /\ InSession
  /\ step > 1
  /\ ~peerOpen
  /\ Len(verdicts) < step
  /\ killed' = TRUE
  /\ UNCHANGED <<step, ret, verdicts, wire, peerOpen, open, results>>

-----------------------------------------------------------------------------
(* The server answers the next exchange it has been given with n lines.    *)
(* It takes a command only after it took the ones before it; QUIT always.  *)
Answer ==
  /\ InSession
  /\ peerOpen
  /\ Len(verdicts) < step
  /\ \E ok \in BOOLEAN, n \in 1..MaxReplyLines :
       /\ ok => \/ Len(verdicts) + 1 = Quit
                \/ \A k \in DOMAIN verdicts : verdicts[k]
       /\ verdicts' = Append(verdicts, ok)
       /\ wire' = wire \o [i \in 1..n |-> ok]
  /\ UNCHANGED <<step, ret, peerOpen, open, killed, results>>

(* The server closes the connection, or the network loses it with all that *)
(* is still under way.                                                     *)
PeerCloses ==
  /\ InSession
  /\ peerOpen
  /\ peerOpen' = FALSE
  /\ wire' \in {wire, <<>>}
  /\ UNCHANGED <<step, ret, verdicts, open, killed, results>>

(* The bound on calls is reached, or the process is gone.                  *)
Finished ==
  /\ killed \/ (step = 0 /\ Len(results) = MaxCalls)
  /\ UNCHANGED smtpVars

-----------------------------------------------------------------------------
Call == Connect \/ ConnectFails

Client == SmtpReadOk \/ SmtpReadError \/ QuitOk \/ Sigpipe

Server == Answer \/ PeerCloses

(* The server owes an answer.                                              *)
AnswerDue == Len(verdicts) < step

SmtpNext == Call \/ Client \/ Server \/ Return \/ Finished

Spec == Init /\ [][SmtpNext]_smtpVars

(* The client runs when it can, and a server that owes an answer gives it  *)
(* or hangs up.  smtp_read has no timeout: nothing else ends its wait.     *)
Fairness ==
  /\ WF_smtpVars(Client)
  /\ WF_smtpVars(Return)
  /\ WF_smtpVars(AnswerDue /\ Server)

FairSpec == Spec /\ Fairness

-----------------------------------------------------------------------------
(* Types.                                                                  *)
TypeOK ==
  /\ step \in 0..8
  /\ ret \in {-1, 0}
  /\ verdicts \in Seq(BOOLEAN) /\ Len(verdicts) <= Quit
  /\ wire \in Seq(BOOLEAN)
  /\ peerOpen \in BOOLEAN
  /\ open \in 0..MaxOpen
  /\ killed \in BOOLEAN
  /\ results \in Seq([ret : {-1, 0}, verdicts : Seq(BOOLEAN)])

(* send_buffer writes a command only after the server has taken every      *)
(* command before it.  With answers of one line each.                      *)
WritesInLockstep ==
  InSession =>
    /\ Len(verdicts) \in {step - 1, step}
    /\ \A k \in 1..(step - 1) : verdicts[k]

(* A call that spoke to the server returns 0 only if the server took the   *)
(* mail, and everything else it was told.  With answers of one line each.  *)
ZeroMeansTaken ==
  \A c \in DOMAIN results :
    results[c].ret = 0 /\ results[c].verdicts # <<>>
      => results[c].verdicts = [k \in Exchanges |-> TRUE]

(* smtp_read: "Read and check server response.  Return -1 on error         *)
(* response, 0 otherwise": no call returns 0 if the server answered one of *)
(* its commands with an error.                                             *)
ErrorIsReported ==
  \A c \in DOMAIN results :
    (\E k \in DOMAIN results[c].verdicts : ~results[c].verdicts[k])
      => results[c].ret = -1

(* A session's socket is closed if the call returned 0, and stays open for *)
(* good after a call that returned -1: a process has at most one socket    *)
(* per failed mail, and the one in use.                                    *)
OpenSocketsAreFailures ==
  LET failed == {c \in DOMAIN results : results[c].ret = -1}
      failing == step = 8 /\ ret = -1
  IN  open = Cardinality(failed) + (IF step \in Exchanges \/ failing THEN 1 ELSE 0)

(* send_buffer returns, or the process is killed in it: handle_data's      *)
(* mutex is not held for ever.                                             *)
CallsReturn == (step # 0) ~> (step = 0 \/ killed)
=============================================================================
