----------------------------- MODULE ExecAndMail -----------------------------
(***************************************************************************)
(* The two threads of src/exec-and-mail.c round their one line buffer.     *)
(* The main thread reads the command's output with fgets, appends each     *)
(* line and calls handle_data(0); the timer thread sleeps waitTimeout      *)
(* seconds and calls handle_data(1); at the end of the output main calls   *)
(* handle_data(1) and returns, which ends the process and the timer.       *)
(*                                                                         *)
(* A line is named by its position in the command's output and so is the   *)
(* struct buffer_line malloc'ed for it: buffer is the chain of nodes in    *)
(* order, readInto the node main's pointer holds, which may be one that    *)
(* has been freed.  handle_data_mutex is the thread that holds it across   *)
(* send_buffer, the only part of a critical section that blocks; the rest  *)
(* of each section is one step, taken when the mutex is free.              *)
(***************************************************************************)
EXTENDS Integers, Sequences, SequencesExt

CONSTANTS
  MaxLines,         (* bound: lines the command prints at most         *)
  bufferMaxLines,   (* option -c, any integer atoi yields              *)
  waitTimeout       (* option -t; a timer runs only if it is positive  *)

ASSUME ExecAndMailAssumption ==
  /\ MaxLines \in Nat
  /\ bufferMaxLines \in Int
  /\ waitTimeout \in Int

VARIABLES
  pc,                (* where each thread stands                            *)
  handle_data_mutex, (* the thread inside send_buffer, or NoThread          *)
  buffer,            (* chain of lines not sent yet                         *)
  readInto,          (* main's pointer to the node it wrote last, 0 if NULL *)
  nread,             (* lines main has read, the last one is local `line'   *)
  batches,           (* history: the calls of send_buffer that returned     *)
  status             (* of the process: "running", "exited", "killed"       *)

vars == <<pc, handle_data_mutex, buffer, readInto, nread, batches, status>>

Threads  == {"main", "timer"}
NoThread == "none"
Lines    == 1..MaxLines
Outcomes == {"accepted", "lost"}

(* The buffer never grows past this: a limit below 1 sends every line.     *)
Limit == IF bufferMaxLines > 1 THEN bufferMaxLines ELSE 1

Running(t) == status = "running" /\ pc[t] # "off"
GoTo(t, p) == pc' = [pc EXCEPT ![t] = p]

(* The thread is about to call handle_data, or is inside it.               *)
InHandleData(t) == pc[t] \in {"check", "flush", "expired"}

(* handle_data's parameter: main's call after a line passes 0, the timer's *)
(* call and main's last one pass 1.                                        *)
Forced(t) == pc[t] \in {"flush", "expired"}

-----------------------------------------------------------------------------
Init ==
  /\ pc = [main |-> "start", timer |-> IF waitTimeout > 0 THEN "sleep" ELSE "off"]
  /\ handle_data_mutex = NoThread
  /\ buffer = <<>>
  /\ readInto = 0
  /\ nread = 0
  /\ batches = <<>>
  /\ status = "running"

(* popen gave a stream to read.                                            *)
PopenSucceeds ==
  /\ Running("main")
  /\ pc["main"] = "start"
  /\ GoTo("main", "read")
  /\ UNCHANGED <<handle_data_mutex, buffer, readInto, nread, batches, status>>

(* popen failed: exit(EX_IOERR).                                           *)
PopenFails ==
  /\ Running("main")
  /\ pc["main"] = "start"
  /\ GoTo("main", "exited")
  /\ status' = "exited"
  /\ UNCHANGED <<handle_data_mutex, buffer, readInto, nread, batches>>

(* fgets returned the next line of the command.                            *)
ReadLine ==
  /\ Running("main")
  /\ pc["main"] = "read"
  /\ nread < MaxLines
  /\ nread' = nread + 1
  /\ GoTo("main", "append")
  /\ UNCHANGED <<handle_data_mutex, buffer, readInto, batches, status>>

(* fgets returned NULL: at end of file main waits in pclose for the        *)
(* command to exit, after an error it goes straight to the last flush.     *)
ReadEnds ==
  /\ Running("main")
  /\ pc["main"] = "read"
  /\ \/ GoTo("main", "pclose")
     \/ GoTo("main", "flush")
  /\ UNCHANGED <<handle_data_mutex, buffer, readInto, nread, batches, status>>

(* pclose returned: the command has exited.                                *)
PcloseReturns ==
  /\ Running("main")
  /\ pc["main"] = "pclose"
  /\ GoTo("main", "flush")
  /\ UNCHANGED <<handle_data_mutex, buffer, readInto, nread, batches, status>>

-----------------------------------------------------------------------------
(* linked_item_create(prev, ...) on the chain s: the new node is linked    *)
(* behind prev.  Behind a node that was freed it is out of reach of the    *)
(* chain's head, so the chain does not change.                             *)
LinkBehind(s, prev, node) ==
  IF Contains(s, prev)
  THEN LET at == CHOOSE i \in DOMAIN s : s[i] = prev
       IN  InsertAt(s, at + 1, node)
  ELSE s

(* Mutant: the NULL test looks at main's pointer, which outlives a send.   *)
AppendLineTestsReadInto ==
  /\ Running("main")
  /\ pc["main"] = "append"
  /\ handle_data_mutex = NoThread
  /\ buffer' = IF readInto = 0 THEN <<nread>> ELSE LinkBehind(buffer, readInto, nread)
  /\ readInto' = nread
  /\ GoTo("main", "check")
  /\ UNCHANGED <<handle_data_mutex, nread, batches, status>>

(* Mutant: readInto is set once, when the chain is started.                *)
AppendLineKeepsReadInto ==
  /\ Running("main")
  /\ pc["main"] = "append"
  /\ handle_data_mutex = NoThread
  /\ buffer' = IF buffer = <<>> THEN <<nread>> ELSE LinkBehind(buffer, readInto, nread)
  /\ readInto' = IF buffer = <<>> THEN nread ELSE readInto
  /\ GoTo("main", "check")
  /\ UNCHANGED <<handle_data_mutex, nread, batches, status>>

(* Mutant: the append does not take the mutex.                             *)
AppendLineUnlocked ==
  /\ Running("main")
  /\ pc["main"] = "append"
  /\ buffer' = IF buffer = <<>> THEN <<nread>> ELSE LinkBehind(buffer, readInto, nread)
  /\ readInto' = nread
  /\ GoTo("main", "check")
  /\ UNCHANGED <<handle_data_mutex, nread, batches, status>>

(* Main's critical section: a new chain if buffer is NULL, otherwise a new *)
(* node behind readInto; then main is before handle_data(0).               *)
AppendLine ==
  /\ Running("main")
  /\ pc["main"] = "append"
  /\ handle_data_mutex = NoThread
  /\ buffer' = IF buffer = <<>> THEN <<nread>> ELSE LinkBehind(buffer, readInto, nread)
  /\ readInto' = nread
  /\ GoTo("main", "check")
  /\ UNCHANGED <<handle_data_mutex, nread, batches, status>>

-----------------------------------------------------------------------------
(* Mutants: no test for an empty buffer; the limit is missed by one; the   *)
(* force parameter is ignored.                                             *)
SendDueOnEmpty(t)   == Forced(t) \/ Len(buffer) >= bufferMaxLines
SendDueOffByOne(t)  == buffer # <<>> /\ (Forced(t) \/ Len(buffer) > bufferMaxLines)
SendDueNotForced(t) == buffer # <<>> /\ Len(buffer) >= bufferMaxLines

(* handle_data sends a buffer that is not NULL if it is forced to or if    *)
(* enough lines are there.                                                 *)
SendDue(t) == buffer # <<>> /\ (Forced(t) \/ Len(buffer) >= bufferMaxLines)

(* Where handle_data returns to: the fgets loop, the end of main() or the  *)
(* timer's loop.                                                           *)
Return(t) ==
  \/ pc[t] = "check"   /\ GoTo(t, "read")
  \/ pc[t] = "flush"   /\ GoTo(t, "return")
  \/ pc[t] = "expired" /\ GoTo(t, "sleep")

(* The timer's sleep(waitTimeout) is over.                                 *)
TimerExpires ==
  /\ Running("timer")
  /\ pc["timer"] = "sleep"
  /\ GoTo("timer", "expired")
  /\ UNCHANGED <<handle_data_mutex, buffer, readInto, nread, batches, status>>

(* Mutant: handle_data returns early without taking the mutex.             *)
HandleDataSkipsUnlocked(t) ==
  /\ Running(t)
  /\ InHandleData(t)
  /\ handle_data_mutex # t
  /\ ~SendDue(t) \/ handle_data_mutex # NoThread
  /\ Return(t)
  /\ UNCHANGED <<handle_data_mutex, buffer, readInto, nread, batches, status>>

(* handle_data finds nothing to send: lock, test, unlock.                  *)
HandleDataSkips(t) ==
  /\ Running(t)
  /\ InHandleData(t)
  /\ handle_data_mutex = NoThread
  /\ ~SendDue(t)
  /\ Return(t)
  /\ UNCHANGED <<handle_data_mutex, buffer, readInto, nread, batches, status>>

(* handle_data takes the mutex and enters send_buffer.                     *)
BeginSend(t) ==
  /\ Running(t)
  /\ InHandleData(t)
  /\ handle_data_mutex = NoThread
  /\ SendDue(t)
  /\ handle_data_mutex' = t
  /\ UNCHANGED <<pc, buffer, readInto, nread, batches, status>>

(* Mutant: a mail that was lost is sent again at once, again and again.    *)
EndSendRetries(t, outcome) ==
  /\ Running(t)
  /\ handle_data_mutex = t
  /\ handle_data_mutex' = NoThread
  /\ IF outcome = "accepted"
     THEN /\ batches' = Append(batches, [lines |-> buffer, outcome |-> outcome])
          /\ buffer' = <<>>
          /\ Return(t)
     ELSE UNCHANGED <<batches, buffer, pc>>
  /\ UNCHANGED <<readInto, nread, status>>

(* Mutant: the chain is freed, but buffer is not reset.                    *)
EndSendKeepsBuffer(t, outcome) ==
  /\ Running(t)
  /\ handle_data_mutex = t
  /\ batches' = Append(batches, [lines |-> buffer, outcome |-> outcome])
  /\ handle_data_mutex' = NoThread
  /\ Return(t)
  /\ UNCHANGED <<buffer, readInto, nread, status>>

(* send_buffer returned; its result is not looked at.  The chain is freed  *)
(* and buffer reset, whatever became of the mail; readInto is left alone.  *)
EndSend(t, outcome) ==
  /\ Running(t)
  /\ handle_data_mutex = t
  /\ batches' = Append(batches, [lines |-> buffer, outcome |-> outcome])
  /\ buffer' = <<>>
  /\ handle_data_mutex' = NoThread
  /\ Return(t)
  /\ UNCHANGED <<readInto, nread, status>>

(* main() returns: the process ends, whatever the timer thread is doing.   *)
MainReturns ==
  /\ Running("main")
  /\ pc["main"] = "return"
  /\ GoTo("main", "exited")
  /\ status' = "exited"
  /\ UNCHANGED <<handle_data_mutex, buffer, readInto, nread, batches>>

(* A write of send_buffer to a connection its peer has reset raises        *)
(* SIGPIPE, which exec-and-mail does not handle: the process is gone.      *)
KilledBySigpipe(t) ==
  /\ Running(t)
  /\ handle_data_mutex = t
  /\ status' = "killed"
  /\ UNCHANGED <<pc, handle_data_mutex, buffer, readInto, nread, batches>>

(* The process has ended; nothing happens any more.                        *)
Terminated == status # "running" /\ UNCHANGED vars

-----------------------------------------------------------------------------
HandleData(t) ==
  \/ HandleDataSkips(t)
  \/ BeginSend(t)
  \/ \E outcome \in Outcomes : EndSend(t, outcome)
  \/ KilledBySigpipe(t)

Next ==
  \/ PopenSucceeds
  \/ PopenFails
  \/ ReadLine
  \/ ReadEnds
  \/ PcloseReturns
  \/ AppendLine
  \/ TimerExpires
  \/ \E t \in Threads : HandleData(t)
  \/ MainReturns
  \/ Terminated

Spec == Init /\ [][Next]_vars

(* The scheduler runs a thread that can run, sleep() ends, and the mail    *)
(* server answers or drops the connection, so that send_buffer returns or  *)
(* the process is killed.  Nothing is assumed of the command: it may stop  *)
(* printing for ever, and it may keep pclose waiting for ever.             *)
Fairness ==
  /\ WF_vars(AppendLine)
  /\ WF_vars(TimerExpires)
  /\ WF_vars(MainReturns)
  /\ \A t \in Threads : WF_vars(HandleData(t))

FairSpec == Spec /\ Fairness

-----------------------------------------------------------------------------
(* Types.  A batch is a mail send_buffer composed: handle_data returns     *)
(* before send_buffer when the buffer is NULL, so no mail is empty.        *)
TypeOK ==
  /\ pc \in [Threads -> {"start", "read", "append", "check", "pclose", "flush",
                         "return", "exited", "off", "sleep", "expired"}]
  /\ handle_data_mutex \in Threads \cup {NoThread}
  /\ buffer \in Seq(Lines)
  /\ readInto \in 0..MaxLines
  /\ nread \in 0..MaxLines
  /\ batches \in Seq([lines : Seq(Lines) \ {<<>>}, outcome : Outcomes])
  /\ status \in {"running", "exited", "killed"}

(* The last line handed to send_buffer, and the last line appended.        *)
HandedUpTo == IF batches = <<>> THEN 0 ELSE Last(Last(batches).lines)
Appended   == IF pc["main"] = "append" THEN nread - 1 ELSE nread

(* Every line the command printed is in exactly one mail or still in the   *)
(* buffer, and all of them are in the order in which they were read,       *)
(* whichever of the two threads sent the mails (handle_data and main).     *)
LinesInOrder ==
  /\ buffer = [i \in 1..(Appended - HandedUpTo) |-> HandedUpTo + i]
  /\ \A k \in DOMAIN batches :
       LET before == IF k = 1 THEN 0 ELSE Last(batches[k - 1].lines)
       IN  batches[k].lines =
             [i \in 1..(Last(batches[k].lines) - before) |-> before + i]

(* main follows readInto only while it points at the last node of the      *)
(* chain, although the timer may have freed that node behind main's back.  *)
ReadIntoIsTail == buffer # <<>> => readInto = Last(buffer)

(* handle_data(0) after every line keeps the buffer within -c lines, and   *)
(* there is room for one more line whenever main waits for the command.    *)
BufferBounded ==
  /\ Len(buffer) <= Limit
  /\ pc["main"] \in {"start", "read", "append", "pclose"} => Len(buffer) < Limit

(* An orderly exit leaves no line unsent, and never cuts off a mail the    *)
(* timer thread is in the middle of.                                       *)
ExitIsClean ==
  status = "exited" =>
    /\ buffer = <<>>
    /\ handle_data_mutex = NoThread
    /\ HandedUpTo = nread

(* The chain send_buffer walks does not change under it.                   *)
BufferFrozenDuringSend ==
  [][handle_data_mutex # NoThread /\ handle_data_mutex' # NoThread
       => buffer' = buffer]_vars

(* The mails as their reader sees them.                                    *)
LinesOf(bs) == [k \in DOMAIN bs |-> bs[k].lines]

SpoolState == [running |-> "open", exited |-> "closed", killed |-> "dead"]

Spool == INSTANCE MailSpool WITH
  spooled <- Appended,
  pending <- buffer,
  mails   <- LinesOf(batches),
  state   <- SpoolState[status]

(* The promise: exec-and-mail implements the mail spool.                   *)
ImplementsSpool == Spool!Spec

(* With -t, no line sits in the buffer for ever: it is mailed when the     *)
(* timeout strikes even if the command stays silent.                       *)
ImplementsFairSpool == Spool!FairSpec

(* The mutex starves nobody: main comes back to the command's output after *)
(* every line, and ends once the output has, unless the process is killed. *)
MainComesBack ==
  pc["main"] \in {"append", "check", "flush", "return"}
    ~> (pc["main"] \in {"read", "exited"} \/ status = "killed")
=============================================================================
