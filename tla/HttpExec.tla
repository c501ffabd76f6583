------------------------------ MODULE HttpExec ------------------------------
(***************************************************************************)
(* httpd-exec with the loop of lib/net_srv_util.c and the request reader   *)
(* of lib/httpd_util.c, serving "<command> | html" as the README has it.   *)
(* Clients connect, send a request in pieces, and may go away at any time; *)
(* they are served one after the other.                                    *)
(*                                                                         *)
(* The last two bytes of a request stand for the empty line that ends it,  *)
(* which may come in two pieces.  A reader that gets its bytes in the same *)
(* read sees it; the buffer is cleared between reads.                      *)
(***************************************************************************)
EXTENDS HtmlConvert, FiniteSets

CONSTANTS
  Clients,
  Inputs,            (* what the command may print: sequences of lines      *)
  MaxBytes,          (* bound: bytes of a request, at least 2               *)
  LISTEN_BACKLOG,    (* connections that may wait to be accepted            *)
  MaxLeft            (* bound: children that are never waited for           *)

(* A line has a cell at least; see HtmlConvert.                             *)
ASSUME HttpExecAssumption ==
  /\ Inputs \subseteq Seq(Seq(Nat) \ {<<>>})
  /\ MaxBytes \in Nat \ {0, 1}
  /\ LISTEN_BACKLOG \in Nat \ {0}
  /\ MaxLeft \in Nat

VARIABLES
  conn,      (* of each client: "new", "open", "shut" when it has sent all  *)
             (* it will, "gone" when it does not read any more, "done"      *)
  sent,      (* bytes the client has sent                                   *)
  unread,    (* of these, those in the server's socket                      *)
  received,  (* what the server has sent to it                              *)
  backlog,   (* clients waiting to be accepted                              *)
  pc,        (* where the server is                                         *)
  client,    (* whom it serves                                              *)
  output,    (* what the command's pipe still holds or will hold            *)
  can_send,
  left,      (* children that have ended without pclose                     *)
  served     (* history: the output of the commands executed, by client     *)

clientVars == <<conn, sent, unread>>
serverVars == <<pc, client, output, can_send, left, served>>
vars == <<clientVars, received, backlog, serverVars>>

Nobody == "nobody"
Header == [tag |-> "header", size |-> 0]
Failed == [tag |-> "Failed to execute command", size |-> 0]

Init ==
  /\ conn = [c \in Clients |-> "new"]
  /\ sent = [c \in Clients |-> 0]
  /\ unread = sent
  /\ received = [c \in Clients |-> <<>>]
  /\ backlog = <<>>
  /\ pc = "accept" /\ client = Nobody
  /\ output = <<>> /\ can_send = TRUE /\ left = 0
  /\ served = [c \in {} |-> <<>>]

-----------------------------------------------------------------------------
(* The clients.                                                             *)
Connect(c) ==
  /\ conn[c] = "new"
  /\ Len(backlog) < LISTEN_BACKLOG
  /\ conn' = [conn EXCEPT ![c] = "open"]
  /\ backlog' = Append(backlog, c)
  /\ UNCHANGED <<sent, unread, received, serverVars>>

Send(c, n) ==
  /\ conn[c] = "open" /\ sent[c] + n <= MaxBytes
  /\ sent' = [sent EXCEPT ![c] = @ + n]
  /\ unread' = [unread EXCEPT ![c] = @ + n]
  /\ UNCHANGED <<conn, received, backlog, serverVars>>

(* The client shuts down its side and waits for the answer, or it goes, and *)
(* what it has sent may be lost with it.                                    *)
Leave(c) ==
  /\ conn[c] \in {"open", "shut"}
  /\ \/ conn[c] = "open" /\ conn' = [conn EXCEPT ![c] = "shut"] /\ UNCHANGED unread
     \/ conn' = [conn EXCEPT ![c] = "gone"] /\ unread' \in {unread, [unread EXCEPT ![c] = 0]}
  /\ UNCHANGED <<sent, received, backlog, serverVars>>

-----------------------------------------------------------------------------
(* accept_loop.  What a client has sent and received is of no interest any  *)
(* more when its connection is closed.                                      *)
Accept ==
  /\ pc = "accept" /\ backlog # <<>>
  /\ client' = Head(backlog)
  /\ backlog' = Tail(backlog)
  /\ pc' = "request"
  /\ UNCHANGED <<clientVars, received, output, can_send, left, served>>

Close ==
  /\ pc = "close"
  /\ conn' = [conn EXCEPT ![client] = "done"]
  /\ sent' = [sent EXCEPT ![client] = 0]
  /\ unread' = [unread EXCEPT ![client] = 0]
  /\ received' = [received EXCEPT ![client] = <<>>]
  /\ served' = [c \in DOMAIN served \ {client} |-> served[c]]
  /\ pc' = "accept" /\ client' = Nobody
  /\ output' = <<>> /\ can_send' = TRUE
  /\ UNCHANGED <<backlog, left>>

(* init_response: a read takes what is there, or a part of it.  The empty   *)
(* line is seen if both its bytes are in this read.                         *)
ReadRequest(n) ==
  /\ pc = "request" /\ n <= unread[client]
  /\ unread' = [unread EXCEPT ![client] = @ - n]
  /\ LET last == sent[client] - unread'[client]
     IN pc' = IF last = MaxBytes /\ n >= 2 THEN "header" ELSE "request"
  /\ UNCHANGED <<conn, sent, received, backlog, client, output, can_send, left, served>>

(* Mutant: the end of the stream is taken for an empty read.                *)
ReadSpins ==
  /\ pc = "request" /\ unread[client] = 0
  /\ conn[client] \in {"shut", "gone"}
  /\ UNCHANGED vars

(* read() returns 0 at the end of the client's stream and the request is    *)
(* answered all the same, or -1 and it is not.                              *)
ReadEnds ==
  /\ pc = "request" /\ unread[client] = 0
  /\ \/ conn[client] \in {"shut", "gone"} /\ pc' = "header"
     \/ conn[client] = "gone" /\ pc' = "close"
  /\ UNCHANGED <<clientVars, received, backlog, client, output, can_send, left, served>>

(* send() to the client: it may fail when the client is gone.  SIGPIPE is   *)
(* caught.                                                                  *)
Delivered(item) == received' = [received EXCEPT ![client] = Append(@, item)]
SendFails == conn[client] = "gone" /\ UNCHANGED received

(* The rest of init_response.                                               *)
WriteHeader ==
  /\ pc = "header"
  /\ \/ Delivered(Header) /\ pc' = "exec"
     \/ SendFails /\ pc' = "close"
  /\ UNCHANGED <<clientVars, backlog, client, output, can_send, left, served>>

(* popen.  The command may end early, so that its output is cut off.        *)
Exec ==
  /\ pc = "exec"
  /\ \E lines \in Inputs : \E n \in 0..Len(Html(lines)) :
       output' = SubSeq(Html(lines), 1, n)
  /\ served' = [c \in DOMAIN served \cup {client} |-> IF c = client THEN output' ELSE served[c]]
  /\ pc' = "copy"
  /\ UNCHANGED <<clientVars, received, backlog, client, can_send, left>>

ExecFails ==
  /\ pc = "exec"
  /\ Delivered(Failed) \/ SendFails
  /\ pc' = "close"
  /\ UNCHANGED <<clientVars, backlog, client, output, can_send, left, served>>

(* Mutant: the next line is sent although one could not be sent.            *)
CopyAfterFailure ==
  /\ pc = "copy" /\ output # <<>>
  /\ output' = Tail(output)
  /\ Delivered(Head(output)) \/ SendFails
  /\ UNCHANGED <<clientVars, backlog, pc, client, can_send, left, served>>

(* One turn of the loop round fgets.  When the client is gone the output is *)
(* read to its end and not sent.                                            *)
Copy ==
  /\ pc = "copy" /\ output # <<>>
  /\ output' = Tail(output)
  /\ \/ can_send /\ Delivered(Head(output)) /\ UNCHANGED can_send
     \/ can_send /\ SendFails /\ can_send' = FALSE
     \/ ~can_send /\ UNCHANGED <<received, can_send>>
  /\ UNCHANGED <<clientVars, backlog, pc, client, left, served>>

(* feof: pclose.                                                            *)
CopyEnds ==
  /\ pc = "copy" /\ output = <<>>
  /\ pc' = "close"
  /\ UNCHANGED <<clientVars, received, backlog, client, output, can_send, left, served>>

(* fgets failed: the child is not waited for and the stream stays open.     *)
CopyFails ==
  /\ pc = "copy" /\ left < MaxLeft
  /\ left' = left + 1
  /\ pc' = "close"
  /\ UNCHANGED <<clientVars, received, backlog, client, output, can_send, served>>

Finished == (\A c \in Clients : conn[c] = "done") /\ UNCHANGED vars

Client(c) == Connect(c) \/ (\E n \in 1..MaxBytes : Send(c, n)) \/ Leave(c)
Server ==
  \/ Accept \/ Close \/ (\E n \in 1..MaxBytes : ReadRequest(n)) \/ ReadEnds
  \/ WriteHeader \/ Exec \/ ExecFails \/ Copy \/ CopyEnds \/ CopyFails

Next == (\E c \in Clients : Client(c)) \/ Server \/ Finished

Spec == Init /\ [][Next]_vars

(* The server runs when it can.  A client does not wait for ever for its    *)
(* answer: nothing in the code would end a read from one that does.         *)
FairSpec ==
  /\ Spec
  /\ WF_vars(Server)
  /\ \A c \in Clients : WF_vars(Leave(c))

-----------------------------------------------------------------------------
(* A client gets the header and then what one execution of the command that *)
(* was made for it printed, from the beginning and without a gap: "executes *)
(* a given command once for each client" (httpd-exec.c, respond).           *)
ClientsGetTheirOwn ==
  \A c \in Clients : received[c] # <<>> =>
    /\ Head(received[c]) = Header
    /\ \/ c \in DOMAIN served /\ IsPrefix(Tail(received[c]), served[c])
       \/ c \notin DOMAIN served /\ Tail(received[c]) \in {<<>>, <<Failed>>}

(* Whatever the command is given, what html.c makes of it has its           *)
(* paragraphs, tables and rows closed when the next one begins, and is      *)
(* complete at its end (html_append_text, html_finish).                     *)
BlocksAreClosed ==
  \A c \in DOMAIN served :
    /\ Place(served[c]) # "error"
    /\ served[c] # <<>> /\ Last(served[c]).tag = "</body>" => Place(served[c]) = "end"

(* Every client that has connected is done with in the end, however slow    *)
(* those in front of it are and whatever fails while they are served        *)
(* (accept_loop, init_response, respond).                                   *)
EveryoneIsServed == \A c \in Clients : (conn[c] = "open") ~> (conn[c] = "done")
=============================================================================
