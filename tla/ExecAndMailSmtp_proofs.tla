----------------------- MODULE ExecAndMailSmtp_proofs -----------------------
(***************************************************************************)
(* Proofs about exec-and-mail: of its threads and its buffer first, then   *)
(* of the composition with the mail server.                                *)
(***************************************************************************)
EXTENDS ExecAndMailSmtp, SeqLemmas_proofs, FiniteSetTheorems, SequenceTheorems, TLAPS

-----------------------------------------------------------------------------
(***************************************************************************)
(* The threads, for any number of lines, any -c and any -t.                *)
(* The safety invariants are not inductive by themselves: that a send      *)
(* removes lines in order rests on who may hold the mutex and where that   *)
(* thread stands, and that the exit is clean on what main's last flush     *)
(* leaves for the timer.  IInv below adds these facts.                     *)
(***************************************************************************)

MainPcs  == {"start", "read", "append", "check", "pclose", "flush", "return", "exited"}
TimerPcs == {"off", "sleep", "expired"}

(* Each thread runs its own function.                                      *)
ThreadsApart == pc["main"] \in MainPcs /\ pc["timer"] \in TimerPcs

(* The mutex is held across send_buffer only, for a chain that is not NULL.*)
HolderSends ==
  \A t \in Threads :
    handle_data_mutex = t => InHandleData(t) /\ buffer # <<>>

(* Nothing is handed over that was not appended before.                    *)
HandedWereAppended ==
  /\ HandedUpTo \in Nat
  /\ Appended \in 0..MaxLines
  /\ HandedUpTo <= Appended

(* Before the first line and after the last flush there is nothing to send *)
(* and nobody sending it.                                                  *)
NothingToSend ==
  /\ pc["main"] \in {"start", "return", "exited"} =>
       buffer = <<>> /\ handle_data_mutex = NoThread
  /\ status = "exited" => pc["main"] = "exited"

IInv ==
  /\ TypeOK
  /\ LinesInOrder
  /\ ReadIntoIsTail
  /\ BufferBounded
  /\ ThreadsApart
  /\ HolderSends
  /\ HandedWereAppended
  /\ NothingToSend

-----------------------------------------------------------------------------
(* The buffer never has room for less than one line.                       *)
LEMMA LimitIsPositive == Limit \in Nat /\ Limit >= 1
  BY ExecAndMailAssumption DEF Limit

(* The initial state satisfies the invariant.                              *)
LEMMA InitIInv == Init => IInv
<1> SUFFICES ASSUME Init PROVE IInv
  OBVIOUS
<1>1. TypeOK
  BY ExecAndMailAssumption DEF Init, TypeOK, Threads, NoThread, Lines, Outcomes
<1>2. HandedUpTo = 0 /\ Appended = 0
  BY DEF Init, HandedUpTo, Appended
<1>3. LinesInOrder
  BY <1>2 DEF Init, LinesInOrder
<1>4. ReadIntoIsTail /\ BufferBounded
  BY LimitIsPositive DEF Init, ReadIntoIsTail, BufferBounded
<1>5. ThreadsApart /\ HolderSends /\ NothingToSend
  BY DEF Init, ThreadsApart, MainPcs, TimerPcs, HolderSends, Threads, NoThread, NothingToSend
<1>6. HandedWereAppended
  BY <1>2, ExecAndMailAssumption DEF HandedWereAppended
<1> QED
  BY <1>1, <1>3, <1>4, <1>5, <1>6 DEF IInv

(* What LinesInOrder says of the chain, element by element.                *)
LEMMA BufferByElements ==
  ASSUME IInv
  PROVE  /\ Len(buffer) = Appended - HandedUpTo
         /\ \A i \in 1..Len(buffer) : buffer[i] = HandedUpTo + i
         /\ buffer # <<>> => Last(buffer) = Appended
<1>1. HandedUpTo \in Nat /\ Appended \in Nat /\ HandedUpTo <= Appended
  BY ExecAndMailAssumption DEF IInv, HandedWereAppended
<1>2. buffer = [i \in 1..(Appended - HandedUpTo) |-> HandedUpTo + i]
  BY DEF IInv, LinesInOrder
<1>3. Len(buffer) = Appended - HandedUpTo
  BY <1>1, <1>2
<1>4. \A i \in 1..Len(buffer) : buffer[i] = HandedUpTo + i
  BY <1>1, <1>2, <1>3
<1>5. ASSUME buffer # <<>> PROVE Last(buffer) = Appended
  <2>1. buffer \in Seq(Lines)
    BY DEF IInv, TypeOK
  <2>2. Len(buffer) >= 1
    BY <1>5, <2>1
  <2> QED
    BY <1>1, <1>3, <1>4, <2>2 DEF Last
<1> QED
  BY <1>3, <1>4, <1>5

(* A chain of one node more is the chain with the node appended.           *)
LEMMA InsertAtEnd ==
  ASSUME NEW S, NEW s \in Seq(S), NEW node \in S
  PROVE  InsertAt(s, Len(s) + 1, node) = Append(s, node)
<1>1. Len(s) \in Int /\ Len(s) + 1 \in Int /\ Len(s) < Len(s) + 1
  OBVIOUS
<1>2. (Len(s) + 1) - 1 = Len(s)
  OBVIOUS
<1>3. SubSeq(s, 1, Len(s)) = s
  BY SubSeqFull, Zenon
<1>4. SubSeq(s, Len(s) + 1, Len(s)) = <<>>
  BY <1>1, SubSeqEmpty, Zenon
<1>5. s \o <<node>> \in Seq(S) /\ Append(s, node) = s \o <<node>>
  BY AppendIsConcat, AppendProperties, Zenon
<1>6. (s \o <<node>>) \o <<>> = s \o <<node>>
  BY <1>5, ConcatEmptySeq, Zenon
<1> QED
  BY <1>2, <1>3, <1>4, <1>5, <1>6, Zenon DEF InsertAt

(* Linking a node behind the last node of a chain appends it.              *)
LEMMA LinkBehindTail ==
  ASSUME NEW S, NEW s \in Seq(S), s # <<>>, NEW node \in S
  PROVE  (\A i \in 1..Len(s) : s[i] = Last(s) => i = Len(s))
           => LinkBehind(s, Last(s), node) = Append(s, node)
<1> HAVE \A i \in 1..Len(s) : s[i] = Last(s) => i = Len(s)
<1>1. Len(s) \in 1..Len(s) /\ s[Len(s)] = Last(s) /\ DOMAIN s = 1..Len(s)
  BY DEF Last
<1>2. Contains(s, Last(s))
  BY <1>1, Zenon DEF Contains
<1> DEFINE at == CHOOSE i \in DOMAIN s : s[i] = Last(s)
<1>3. at \in DOMAIN s /\ s[at] = Last(s)
  BY <1>1, Zenon
<1>4. at = Len(s)
  BY <1>1, <1>3, Zenon
<1>5. LinkBehind(s, Last(s), node) = InsertAt(s, at + 1, node)
  BY <1>2, Zenon DEF LinkBehind
<1> QED
  BY <1>4, <1>5, InsertAtEnd, Zenon

-----------------------------------------------------------------------------
(* Steps that leave the chain and the history alone keep what is said of   *)
(* them, as long as `line' does not change between read and appended.      *)
LEMMA FramePreserves ==
  ASSUME IInv, Appended' = Appended,
         UNCHANGED <<buffer, readInto, batches>>
  PROVE  LinesInOrder' /\ ReadIntoIsTail' /\ HandedWereAppended'
<1>1. HandedUpTo' = HandedUpTo
  BY DEF HandedUpTo
<1>2. LinesInOrder'
  BY <1>1 DEF IInv, LinesInOrder
<1>3. ReadIntoIsTail'
  BY DEF IInv, ReadIntoIsTail
<1>4. HandedWereAppended'
  BY <1>1 DEF IInv, HandedWereAppended
<1> QED
  BY <1>2, <1>3, <1>4

USE DEF Threads, NoThread

(* popen, the end of the output and pclose: main moves on.                 *)
LEMMA MainMovesOn ==
  ASSUME IInv, PopenSucceeds \/ PopenFails \/ ReadEnds \/ PcloseReturns \/ MainReturns
  PROVE  IInv'
<1> USE DEF PopenSucceeds, PopenFails, ReadEnds, PcloseReturns, MainReturns, GoTo
<1>1. UNCHANGED <<handle_data_mutex, buffer, readInto, nread, batches>>
  OBVIOUS
<1>2. pc["main"] \notin {"append", "check"} /\ pc'["main"] \notin {"append", "check"}
  BY DEF IInv, TypeOK
<1>3. Appended' = Appended
  BY <1>1, <1>2 DEF Appended
<1>4. LinesInOrder' /\ ReadIntoIsTail' /\ HandedWereAppended'
  BY <1>1, <1>3, FramePreserves
<1>5. TypeOK'
  BY DEF IInv, TypeOK
<1>6. BufferBounded'
  BY LimitIsPositive DEF IInv, TypeOK, BufferBounded, NothingToSend
<1>7. ThreadsApart'
  BY DEF IInv, TypeOK, ThreadsApart, MainPcs, TimerPcs
<1>8. HolderSends'
  BY DEF IInv, TypeOK, HolderSends, InHandleData
<1>9. NothingToSend'
  BY DEF IInv, TypeOK, NothingToSend, Running
<1> QED
  BY <1>4, <1>5, <1>6, <1>7, <1>8, <1>9 DEF IInv

(* fgets returns a line: it is read, but not appended yet.                 *)
LEMMA ReadLineIInv ==
  ASSUME IInv, ReadLine
  PROVE  IInv'
<1> USE DEF ReadLine, GoTo
<1>1. Appended' = Appended
  BY DEF IInv, TypeOK, Appended
<1>2. LinesInOrder' /\ ReadIntoIsTail' /\ HandedWereAppended'
  BY <1>1, FramePreserves
<1>3. TypeOK'
  BY ExecAndMailAssumption DEF IInv, TypeOK
<1>4. BufferBounded'
  BY DEF IInv, TypeOK, BufferBounded
<1>5. ThreadsApart' /\ HolderSends' /\ NothingToSend'
  BY DEF IInv, TypeOK, ThreadsApart, MainPcs, TimerPcs, HolderSends, InHandleData, NothingToSend
<1> QED
  BY <1>2, <1>3, <1>4, <1>5 DEF IInv

(* The chain a line is appended to ends with the line before it.           *)
LEMMA AppendLineExtends ==
  ASSUME IInv, AppendLine
  PROVE  buffer' = Append(buffer, nread) /\ nread \in Lines /\ Appended = nread - 1
<1>1. nread \in Lines /\ Appended = nread - 1 /\ Appended \in Nat
  BY ExecAndMailAssumption DEF IInv, TypeOK, HandedWereAppended, AppendLine, Appended, Lines
<1>2. buffer \in Seq(Lines)
  BY DEF IInv, TypeOK
<1>3. CASE buffer = <<>>
  BY <1>1, <1>3 DEF AppendLine
<1>4. CASE buffer # <<>>
  <2>1. Last(buffer) = Appended /\ readInto = Last(buffer)
    BY <1>4, BufferByElements DEF IInv, ReadIntoIsTail
  <2>2. \A i \in 1..Len(buffer) : buffer[i] = Last(buffer) => i = Len(buffer)
    BY <1>4, <2>1, BufferByElements DEF IInv, HandedWereAppended
  <2>3. LinkBehind(buffer, Last(buffer), nread) = Append(buffer, nread)
    BY <1>1, <1>2, <1>4, <2>2, LinkBehindTail, Zenon
  <2> QED
    BY <1>1, <1>4, <2>1, <2>3 DEF AppendLine
<1> QED
  BY <1>1, <1>3, <1>4

(* main appends the line it read.                                          *)
LEMMA AppendLineIInv ==
  ASSUME IInv, AppendLine
  PROVE  IInv'
<1>1. buffer' = Append(buffer, nread) /\ nread \in Lines /\ Appended = nread - 1
  BY AppendLineExtends
<1>2. /\ pc["main"] = "append" /\ pc' = [pc EXCEPT !["main"] = "check"]
      /\ handle_data_mutex = NoThread
      /\ readInto' = nread
      /\ UNCHANGED <<handle_data_mutex, nread, batches, status>>
  BY DEF AppendLine, GoTo
<1>3. buffer \in Seq(Lines) /\ pc'["main"] = "check" /\ pc'["timer"] = pc["timer"]
  BY <1>2 DEF IInv, TypeOK
<1>4. HandedUpTo' = HandedUpTo /\ Appended' = nread /\ HandedUpTo \in Nat
  BY <1>2, <1>3 DEF HandedUpTo, Appended, IInv, HandedWereAppended
<1>5. buffer' \in Seq(Lines) /\ Len(buffer') = Len(buffer) + 1 /\ buffer'[Len(buffer')] = nread
  BY <1>1, <1>3
<1>6. TypeOK'
  BY <1>1, <1>2, <1>5 DEF IInv, TypeOK, Lines
<1>7. LinesInOrder'
  <2>1. Len(buffer) = (nread - 1) - HandedUpTo /\ HandedUpTo <= nread - 1
    BY <1>1, BufferByElements DEF IInv, HandedWereAppended
  <2>2. \A i \in 1..Len(buffer) : buffer[i] = HandedUpTo + i
    BY BufferByElements
  <2>3. nread \in Nat
    BY <1>1 DEF Lines
  <2>4. buffer' = [i \in 1..(nread - HandedUpTo) |-> HandedUpTo + i]
    <3>1. Len(buffer') = nread - HandedUpTo
      BY <1>4, <1>5, <2>1, <2>3
    <3>2. ASSUME NEW i \in 1..Len(buffer') PROVE buffer'[i] = HandedUpTo + i
      BY <1>1, <1>3, <1>4, <1>5, <2>1, <2>2, <2>3
    <3> QED
      BY <1>5, <3>1, <3>2
  <2> QED
    BY <1>2, <1>4, <2>4 DEF IInv, LinesInOrder
<1>8. ReadIntoIsTail'
  BY <1>2, <1>5 DEF ReadIntoIsTail, Last
<1>9. BufferBounded'
  BY <1>2, <1>3, <1>5, LimitIsPositive DEF IInv, BufferBounded
<1>10. ThreadsApart' /\ HolderSends' /\ NothingToSend'
  BY <1>2, <1>3 DEF IInv, TypeOK, ThreadsApart, MainPcs, HolderSends, NothingToSend
<1>11. HandedWereAppended'
  BY <1>1, <1>4 DEF IInv, HandedWereAppended, Lines
<1> QED
  BY <1>6, <1>7, <1>8, <1>9, <1>10, <1>11 DEF IInv

(* sleep() returns.                                                        *)
LEMMA TimerExpiresIInv ==
  ASSUME IInv, TimerExpires
  PROVE  IInv'
<1> USE DEF TimerExpires, GoTo
<1>1. pc'["main"] = pc["main"]
  BY DEF IInv, TypeOK
<1>2. Appended' = Appended
  BY <1>1 DEF Appended
<1>3. LinesInOrder' /\ ReadIntoIsTail' /\ HandedWereAppended'
  BY <1>2, FramePreserves
<1>4. TypeOK' /\ BufferBounded'
  BY <1>1 DEF IInv, TypeOK, BufferBounded
<1>5. ThreadsApart' /\ HolderSends' /\ NothingToSend'
  BY DEF IInv, TypeOK, ThreadsApart, TimerPcs, HolderSends, InHandleData, NothingToSend
<1> QED
  BY <1>3, <1>4, <1>5 DEF IInv

(* What the return from handle_data does to the program counters.          *)
LEMMA ReturnMoves ==
  ASSUME IInv, NEW t \in Threads, InHandleData(t), Return(t)
  PROVE  /\ pc' \in [Threads -> MainPcs \cup TimerPcs]
         /\ t = "main" => \/ pc["main"] = "check" /\ pc'["main"] = "read"
                          \/ pc["main"] = "flush" /\ pc'["main"] = "return"
         /\ t = "main" => pc'["timer"] = pc["timer"]
         /\ t = "timer" => /\ pc["timer"] = "expired" /\ pc'["timer"] = "sleep"
                           /\ pc'["main"] = pc["main"]
         /\ ThreadsApart'
         /\ nread' = nread => Appended' = Appended
<1>1. pc \in [Threads -> MainPcs \cup TimerPcs] /\ ThreadsApart
  BY DEF IInv, TypeOK, MainPcs, TimerPcs
<1>2. CASE t = "main"
  BY <1>1, <1>2 DEF Return, GoTo, InHandleData, ThreadsApart, MainPcs, TimerPcs, Appended
<1>3. CASE t = "timer"
  BY <1>1, <1>3 DEF Return, GoTo, InHandleData, ThreadsApart, MainPcs, TimerPcs, Appended
<1> QED
  BY <1>2, <1>3

(* handle_data finds nothing to send.                                      *)
LEMMA HandleDataSkipsIInv ==
  ASSUME IInv, NEW t \in Threads, HandleDataSkips(t)
  PROVE  IInv'
<1>1. /\ InHandleData(t) /\ Return(t) /\ ~SendDue(t) /\ handle_data_mutex = NoThread
      /\ UNCHANGED <<handle_data_mutex, buffer, readInto, nread, batches, status>>
  BY DEF HandleDataSkips
<1>2. Appended' = Appended /\ ThreadsApart'
  BY <1>1, ReturnMoves
<1>3. LinesInOrder' /\ ReadIntoIsTail' /\ HandedWereAppended'
  BY <1>1, <1>2, FramePreserves
<1>4. TypeOK'
  BY <1>1, ReturnMoves DEF IInv, TypeOK, MainPcs, TimerPcs
<1>5. BufferBounded'
  <2>1. CASE t = "main" /\ pc'["main"] = "read"
    <3>1. buffer = <<>> \/ Len(buffer) < bufferMaxLines
      BY <1>1, <2>1, ExecAndMailAssumption DEF SendDue, IInv, TypeOK
    <3> QED
      BY <1>1, <2>1, <3>1, LimitIsPositive, ExecAndMailAssumption
      DEF IInv, TypeOK, BufferBounded, Limit
  <2>2. CASE t = "main" /\ pc'["main"] = "return"
    BY <1>1, <2>2 DEF IInv, BufferBounded
  <2>3. CASE t = "timer"
    BY <1>1, <2>3, ReturnMoves DEF IInv, BufferBounded
  <2> QED
    BY <1>1, <2>1, <2>2, <2>3, ReturnMoves
<1>6. HolderSends'
  BY <1>1 DEF IInv, HolderSends
<1>7. NothingToSend'
  <2>1. CASE t = "main"
    BY <1>1, <2>1, ReturnMoves DEF IInv, NothingToSend, SendDue, Forced
  <2>2. CASE t = "timer"
    BY <1>1, <2>2, ReturnMoves DEF IInv, NothingToSend
  <2> QED
    BY <2>1, <2>2
<1> QED
  BY <1>2, <1>3, <1>4, <1>5, <1>6, <1>7 DEF IInv

(* A thread takes the mutex for a chain that is not NULL.                  *)
LEMMA BeginSendIInv ==
  ASSUME IInv, NEW t \in Threads, BeginSend(t)
  PROVE  IInv'
<1>1. /\ InHandleData(t) /\ buffer # <<>> /\ handle_data_mutex' = t
      /\ UNCHANGED <<pc, buffer, readInto, nread, batches, status>>
  BY DEF BeginSend, SendDue
<1>2. LinesInOrder' /\ ReadIntoIsTail' /\ HandedWereAppended'
  BY <1>1, FramePreserves DEF Appended
<1>3. TypeOK' /\ BufferBounded' /\ ThreadsApart'
  BY <1>1 DEF IInv, TypeOK, BufferBounded, ThreadsApart
<1>4. HolderSends'
  BY <1>1 DEF HolderSends, InHandleData
<1>5. NothingToSend'
  BY <1>1 DEF IInv, NothingToSend
<1> QED
  BY <1>2, <1>3, <1>4, <1>5 DEF IInv

(* The history after a send: one batch more, the chain as it was.          *)
LEMMA EndSendExtends ==
  ASSUME IInv, NEW t \in Threads, NEW outcome \in Outcomes, EndSend(t, outcome)
  PROVE  /\ InHandleData(t) /\ Return(t) /\ buffer # <<>>
         /\ buffer' = <<>>
         /\ batches' \in Seq([lines : Seq(Lines) \ {<<>>}, outcome : Outcomes])
         /\ Len(batches') = Len(batches) + 1
         /\ \A k \in 1..Len(batches) : batches'[k] = batches[k]
         /\ batches'[Len(batches')].lines = buffer
         /\ HandedUpTo' = Appended
         /\ Appended' = Appended
<1>1. /\ handle_data_mutex = t /\ buffer' = <<>> /\ Return(t) /\ nread' = nread
      /\ batches' = Append(batches, [lines |-> buffer, outcome |-> outcome])
  BY DEF EndSend
<1>2. InHandleData(t) /\ buffer # <<>>
  BY <1>1 DEF IInv, HolderSends
<1> DEFINE Batch == [lines : Seq(Lines) \ {<<>>}, outcome : Outcomes]
<1>3. [lines |-> buffer, outcome |-> outcome] \in Batch /\ batches \in Seq(Batch)
  BY <1>2 DEF IInv, TypeOK
<1>4. /\ batches' \in Seq(Batch)
      /\ Len(batches') = Len(batches) + 1
      /\ \A k \in 1..Len(batches) : batches'[k] = batches[k]
      /\ batches'[Len(batches')] = [lines |-> buffer, outcome |-> outcome]
  <2> HIDE DEF Batch
  <2> QED
    BY <1>1, <1>3
<1>5. HandedUpTo' = Last(buffer)
  <2>1. batches' # <<>>
    BY <1>3, <1>4
  <2> QED
    BY <1>4, <2>1 DEF HandedUpTo, Last
<1>6. HandedUpTo' = Appended
  BY <1>2, <1>5, BufferByElements
<1>7. Appended' = Appended
  BY <1>1, <1>2, ReturnMoves
<1> QED
  BY <1>1, <1>2, <1>4, <1>6, <1>7

(* send_buffer returns and the chain is reset.                             *)
LEMMA EndSendIInv ==
  ASSUME IInv, NEW t \in Threads, NEW outcome \in Outcomes, EndSend(t, outcome)
  PROVE  IInv'
<1>1. /\ handle_data_mutex' = NoThread /\ handle_data_mutex = t
      /\ UNCHANGED <<readInto, nread, status>>
  BY DEF EndSend
<1>2. HandedUpTo \in Nat /\ Appended \in 0..MaxLines /\ HandedUpTo <= Appended
  BY DEF IInv, HandedWereAppended
<1>ext. /\ InHandleData(t) /\ Return(t) /\ buffer # <<>>
        /\ buffer' = <<>>
        /\ batches' \in Seq([lines : Seq(Lines) \ {<<>>}, outcome : Outcomes])
        /\ Len(batches') = Len(batches) + 1
        /\ \A k \in 1..Len(batches) : batches'[k] = batches[k]
        /\ batches'[Len(batches')].lines = buffer
        /\ HandedUpTo' = Appended
        /\ Appended' = Appended
  BY EndSendExtends
<1>num. /\ HandedUpTo' = Appended /\ Appended' = Appended
        /\ Appended \in 0..MaxLines /\ Appended \in Nat /\ Appended - Appended = 0
        /\ HandedUpTo \in Nat
  <2>1. Appended \in Nat
    BY <1>2, ExecAndMailAssumption
  <2>2. Appended - Appended = 0
    BY <2>1
  <2>3. HandedUpTo' = Appended /\ Appended' = Appended
    BY <1>ext, Zenon
  <2> QED
    BY <1>2, <2>1, <2>2, <2>3, Zenon
<1>3. TypeOK'
  <2>1. pc' \in [Threads -> MainPcs \cup TimerPcs]
    BY <1>ext, ReturnMoves
  <2>2. buffer' \in Seq(Lines)
    BY <1>ext
  <2> QED
    BY <1>1, <1>ext, <2>1, <2>2 DEF IInv, TypeOK, MainPcs, TimerPcs
<1>4. LinesInOrder'
  <2>1. buffer' = [i \in 1..(Appended' - HandedUpTo') |-> HandedUpTo' + i]
    <3>1. Appended' - HandedUpTo' = 0
      BY <1>num
    <3>2. buffer' = <<>>
      BY <1>ext
    <3>3. <<>> = [i \in 1..0 |-> HandedUpTo' + i]
      OBVIOUS
    <3> QED
      BY <3>1, <3>2, <3>3
  <2> DEFINE Before(bs, k) == IF k = 1 THEN 0 ELSE Last(bs[k - 1].lines)
  <2>2. DOMAIN batches = 1..Len(batches) /\ DOMAIN batches' = 1..(Len(batches) + 1) /\ Len(batches) \in Nat
    BY <1>ext DEF IInv, TypeOK
  <2>3. ASSUME NEW k \in 1..Len(batches)
        PROVE  batches'[k].lines =
                 [i \in 1..(Last(batches'[k].lines) - Before(batches', k)) |-> Before(batches', k) + i]
    <3>1. batches'[k] = batches[k]
      BY <1>ext
    <3>2. Before(batches', k) = Before(batches, k)
      <4>1. CASE k = 1
        BY <4>1
      <4>2. CASE k # 1
        <5>1. k - 1 \in 1..Len(batches)
          BY <2>2, <4>2
        <5>2. batches'[k - 1] = batches[k - 1]
          BY <1>ext, <5>1
        <5> QED
          BY <4>2, <5>2
      <4> QED
        BY <4>1, <4>2
    <3>3. batches[k].lines =
            [i \in 1..(Last(batches[k].lines) - Before(batches, k)) |-> Before(batches, k) + i]
      BY <2>2 DEF IInv, LinesInOrder
    <3> QED
      BY <3>1, <3>2, <3>3
  <2>4. ASSUME NEW k, k = Len(batches) + 1
        PROVE  batches'[k].lines =
                 [i \in 1..(Last(batches'[k].lines) - Before(batches', k)) |-> Before(batches', k) + i]
    <3>1. batches'[k].lines = buffer /\ Last(buffer) = Appended
      <4>1. k = Len(batches')
        BY <2>4, <1>ext
      <4>2. batches'[k].lines = buffer
        BY <1>ext, <4>1
      <4>3. Last(buffer) = Appended
        BY <1>ext, BufferByElements
      <4> QED
        BY <4>2, <4>3
    <3>2. Before(batches', k) = HandedUpTo
      <4>1. CASE batches = <<>>
        BY <2>4, <4>1 DEF HandedUpTo
      <4>2. CASE batches # <<>>
        <5>1. k # 1 /\ k - 1 = Len(batches) /\ Len(batches) \in 1..Len(batches)
          BY <2>2, <2>4, <4>2 DEF IInv, TypeOK
        <5>2. batches'[k - 1] = Last(batches)
          BY <1>ext, <5>1 DEF Last
        <5> QED
          BY <4>2, <5>1, <5>2 DEF HandedUpTo
      <4> QED
        BY <4>1, <4>2
    <3>3. buffer = [i \in 1..(Appended - HandedUpTo) |-> HandedUpTo + i]
      BY DEF IInv, LinesInOrder
    <3> QED
      BY <3>1, <3>2, <3>3
  <2>5. \A k \in DOMAIN batches' :
          batches'[k].lines =
            [i \in 1..(Last(batches'[k].lines) - Before(batches', k)) |-> Before(batches', k) + i]
    <3>1. TAKE k \in DOMAIN batches'
    <3>2. k \in 1..Len(batches) \/ k = Len(batches) + 1
      BY <2>2
    <3> QED
      BY <2>3, <2>4, <3>2
  <2> QED
    BY <2>1, <2>5 DEF LinesInOrder
<1>5. ReadIntoIsTail'
  BY <1>ext DEF ReadIntoIsTail
<1>6. BufferBounded'
  BY <1>ext, LimitIsPositive DEF BufferBounded
<1>7. ThreadsApart'
  BY <1>ext, ReturnMoves
<1>8. HolderSends'
  BY <1>1 DEF HolderSends
<1>9. HandedWereAppended'
  BY <1>num DEF HandedWereAppended
<1>10. NothingToSend'
  BY <1>1, <1>ext, ReturnMoves DEF IInv, NothingToSend
<1> QED
  BY <1>3, <1>4, <1>5, <1>6, <1>7, <1>8, <1>9, <1>10 DEF IInv

(* SIGPIPE takes the process and leaves the state as it is.                *)
LEMMA KilledIInv ==
  ASSUME IInv, NEW t \in Threads, KilledBySigpipe(t)
  PROVE  IInv'
<1>1. status' = "killed" /\ UNCHANGED <<pc, handle_data_mutex, buffer, readInto, nread, batches>>
  BY DEF KilledBySigpipe
<1>2. LinesInOrder' /\ ReadIntoIsTail' /\ HandedWereAppended'
  BY <1>1, FramePreserves DEF Appended
<1>3. TypeOK' /\ BufferBounded' /\ ThreadsApart' /\ HolderSends' /\ NothingToSend'
  BY <1>1 DEF IInv, TypeOK, BufferBounded, ThreadsApart, HolderSends, InHandleData, NothingToSend
<1> QED
  BY <1>2, <1>3 DEF IInv

(* Nothing changes.                                                        *)
LEMMA StutterIInv ==
  ASSUME IInv, UNCHANGED vars
  PROVE  IInv'
<1>1. LinesInOrder' /\ ReadIntoIsTail' /\ HandedWereAppended'
  BY FramePreserves DEF vars, Appended
<1>2. TypeOK' /\ BufferBounded' /\ ThreadsApart' /\ HolderSends' /\ NothingToSend'
  BY DEF vars, IInv, TypeOK, BufferBounded, ThreadsApart, HolderSends, InHandleData, NothingToSend
<1> QED
  BY <1>1, <1>2 DEF IInv

(* Every step preserves the invariant.                                     *)
LEMMA NextIInv == IInv /\ [Next]_vars => IInv'
<1> SUFFICES ASSUME IInv, [Next]_vars PROVE IInv'
  OBVIOUS
<1>1. CASE PopenSucceeds \/ PopenFails \/ ReadEnds \/ PcloseReturns \/ MainReturns
  BY <1>1, MainMovesOn
<1>2. CASE ReadLine
  BY <1>2, ReadLineIInv
<1>3. CASE AppendLine
  BY <1>3, AppendLineIInv
<1>4. CASE TimerExpires
  BY <1>4, TimerExpiresIInv
<1>5. ASSUME NEW t \in Threads, HandleData(t) PROVE IInv'
  <2>1. CASE HandleDataSkips(t)
    BY <2>1, HandleDataSkipsIInv
  <2>2. CASE BeginSend(t)
    BY <2>2, BeginSendIInv
  <2>3. ASSUME NEW outcome \in Outcomes, EndSend(t, outcome) PROVE IInv'
    BY <2>3, EndSendIInv
  <2>4. CASE KilledBySigpipe(t)
    BY <2>4, KilledIInv
  <2> QED
    BY <1>5, <2>1, <2>2, <2>3, <2>4 DEF HandleData
<1>6. CASE UNCHANGED vars
  BY <1>6, StutterIInv
<1> QED
  BY <1>1, <1>2, <1>3, <1>4, <1>5, <1>6 DEF Next, Terminated

(* The inductive invariant holds of every behaviour.                       *)
THEOREM Invariance == Spec => []IInv
  BY InitIInv, NextIInv, PTL DEF Spec

-----------------------------------------------------------------------------
(* Every variable keeps its type.                                          *)
THEOREM TypeCorrect == Spec => []TypeOK
<1>1. IInv => TypeOK
  BY DEF IInv
<1> QED
  BY <1>1, Invariance, PTL

(* No line is lost, doubled or reordered between fgets and send_buffer,    *)
(* however main and the timer take turns.                                  *)
THEOREM LinesStayInOrder == Spec => []LinesInOrder
<1>1. IInv => LinesInOrder
  BY DEF IInv
<1> QED
  BY <1>1, Invariance, PTL

(* main never appends behind a node the timer has freed.                   *)
THEOREM ReadIntoNeverDangles == Spec => []ReadIntoIsTail
<1>1. IInv => ReadIntoIsTail
  BY DEF IInv
<1> QED
  BY <1>1, Invariance, PTL

(* The chain is as long as -c allows, whatever -c is.                      *)
THEOREM BufferStaysBounded == Spec => []BufferBounded
<1>1. IInv => BufferBounded
  BY DEF IInv
<1> QED
  BY <1>1, Invariance, PTL

(* An orderly exit leaves no line unsent and cuts off no mail.             *)
THEOREM ExitStaysClean == Spec => []ExitIsClean
<1>1. IInv => ExitIsClean
  <2> SUFFICES ASSUME IInv, status = "exited" PROVE ExitIsClean
    BY DEF ExitIsClean
  <2>1. pc["main"] = "exited" /\ buffer = <<>> /\ handle_data_mutex = NoThread
    BY DEF IInv, NothingToSend
  <2>2. Appended = nread /\ Len(buffer) = 0
    BY <2>1 DEF Appended
  <2>3. HandedUpTo = nread
    BY <2>2, BufferByElements, ExecAndMailAssumption DEF IInv, HandedWereAppended
  <2> QED
    BY <2>1, <2>3 DEF ExitIsClean
<1> QED
  BY <1>1, Invariance, PTL

(* While one thread is in send_buffer nobody changes the chain it walks.   *)
THEOREM BufferStaysFrozen == Spec => BufferFrozenDuringSend
<1> DEFINE Frozen == handle_data_mutex # NoThread /\ handle_data_mutex' # NoThread
                       => buffer' = buffer
<1>1. ASSUME [Next]_vars PROVE Frozen
  <2>1. CASE \/ PopenSucceeds \/ PopenFails \/ ReadLine \/ ReadEnds
             \/ PcloseReturns \/ TimerExpires \/ MainReturns
    BY <2>1
    DEF PopenSucceeds, PopenFails, ReadLine, ReadEnds, PcloseReturns, TimerExpires, MainReturns
  <2>2. CASE AppendLine
    BY <2>2 DEF AppendLine
  <2>3. ASSUME NEW t \in Threads, HandleData(t) PROVE Frozen
    BY <2>3 DEF HandleData, HandleDataSkips, BeginSend, EndSend, KilledBySigpipe
  <2>4. CASE UNCHANGED vars
    BY <2>4 DEF vars
  <2> QED
    BY <1>1, <2>1, <2>2, <2>3, <2>4 DEF Next, Terminated
<1>2. [Next]_vars => [Frozen]_vars
  BY <1>1
<1> QED
  BY <1>2, PTL DEF Spec, BufferFrozenDuringSend

-----------------------------------------------------------------------------
Batches == [lines : Seq(Lines) \ {<<>>}, outcome : Outcomes]

(* The mails of a history are as many as its batches, and as they are.     *)
LEMMA LinesOfBatches ==
  ASSUME NEW bs \in Seq(Batches)
  PROVE  /\ LinesOf(bs) \in Seq(Seq(Lines))
         /\ Len(LinesOf(bs)) = Len(bs)
         /\ \A k \in 1..Len(bs) : LinesOf(bs)[k] = bs[k].lines
<1>1. DOMAIN bs = 1..Len(bs) /\ Len(bs) \in Nat
  OBVIOUS
<1>2. \A k \in 1..Len(bs) : bs[k].lines \in Seq(Lines)
  <2>1. \A k \in 1..Len(bs) : bs[k] \in Batches
    OBVIOUS
  <2> QED
    BY <2>1 DEF Batches
<1>3. LinesOf(bs) \in [1..Len(bs) -> Seq(Lines)]
  BY <1>1, <1>2 DEF LinesOf
<1>4. \A k \in 1..Len(bs) : LinesOf(bs)[k] = bs[k].lines
  BY <1>1 DEF LinesOf
<1> HIDE DEF LinesOf, Batches
<1> QED
  BY <1>1, <1>3, <1>4

(* Another batch is another mail.                                          *)
LEMMA LinesOfAppend ==
  ASSUME NEW bs \in Seq(Batches), NEW b \in Batches
  PROVE  LinesOf(Append(bs, b)) = Append(LinesOf(bs), b.lines)
<1>1. /\ LinesOf(bs) \in Seq(Seq(Lines))
      /\ Len(LinesOf(bs)) = Len(bs)
      /\ \A k \in 1..Len(bs) : LinesOf(bs)[k] = bs[k].lines
  BY LinesOfBatches
<1>2. /\ Append(bs, b) \in Seq(Batches)
      /\ Len(Append(bs, b)) = Len(bs) + 1
      /\ Append(bs, b)[Len(bs) + 1] = b
      /\ \A k \in 1..Len(bs) : Append(bs, b)[k] = bs[k]
  OBVIOUS
<1>3. /\ LinesOf(Append(bs, b)) \in Seq(Seq(Lines))
      /\ Len(LinesOf(Append(bs, b))) = Len(bs) + 1
      /\ \A k \in 1..(Len(bs) + 1) : LinesOf(Append(bs, b))[k] = Append(bs, b)[k].lines
  BY <1>2, LinesOfBatches
<1>4. b.lines \in Seq(Lines)
  BY DEF Batches
<1>5. /\ Append(LinesOf(bs), b.lines) \in Seq(Seq(Lines))
      /\ Len(Append(LinesOf(bs), b.lines)) = Len(bs) + 1
      /\ Append(LinesOf(bs), b.lines)[Len(bs) + 1] = b.lines
      /\ \A k \in 1..Len(bs) : Append(LinesOf(bs), b.lines)[k] = LinesOf(bs)[k]
  BY <1>1, <1>4
<1>6. ASSUME NEW k \in 1..(Len(bs) + 1)
      PROVE  LinesOf(Append(bs, b))[k] = Append(LinesOf(bs), b.lines)[k]
  <2>1. CASE k \in 1..Len(bs)
    BY <1>1, <1>2, <1>3, <1>5, <2>1
  <2>2. CASE k = Len(bs) + 1
    BY <1>2, <1>3, <1>5, <2>2
  <2>3. k \in 1..Len(bs) \/ k = Len(bs) + 1
    <3>1. Len(bs) \in Nat
      OBVIOUS
    <3> QED
      BY <3>1
  <2> QED
    BY <2>1, <2>2, <2>3, Zenon
<1> QED
  BY <1>3, <1>5, <1>6

(* The program starts as an empty spool.                                   *)
LEMMA InitImplements == Init => Spool!Init
  BY DEF Init, Spool!Init, LinesOf, SpoolState, Appended

(* Appending a line is accepting it into the spool.                        *)
LEMMA AppendLineImplements ==
  ASSUME IInv, AppendLine
  PROVE  Spool!Accept
<1>1. buffer' = Append(buffer, nread) /\ Appended = nread - 1 /\ nread \in Lines
  BY AppendLineExtends
<1>2. pc'["main"] = "check" /\ nread' = nread
  BY DEF AppendLine, GoTo, IInv, TypeOK
<1>3. Appended' = nread /\ nread = Appended + 1
  BY <1>1, <1>2 DEF Appended, Lines
<1>4. Len(buffer) < Limit
  BY DEF IInv, BufferBounded, AppendLine
<1>5. status = "running" /\ UNCHANGED <<batches, status>>
  BY DEF AppendLine, Running
<1> QED
  BY <1>1, <1>3, <1>4, <1>5 DEF Spool!Accept, SpoolState

(* The return from send_buffer is the mail.                                *)
LEMMA EndSendImplements ==
  ASSUME IInv, NEW t \in Threads, NEW outcome \in Outcomes, EndSend(t, outcome)
  PROVE  Spool!Mail
<1>1. /\ status = "running" /\ status' = status
      /\ batches' = Append(batches, [lines |-> buffer, outcome |-> outcome])
  BY DEF EndSend, Running
<1>2. buffer # <<>> /\ buffer' = <<>> /\ Appended' = Appended
  BY EndSendExtends
<1>3. batches \in Seq(Batches) /\ [lines |-> buffer, outcome |-> outcome] \in Batches
  BY <1>2 DEF IInv, TypeOK, Batches
<1>4. LinesOf(batches') = Append(LinesOf(batches), buffer)
  BY <1>1, <1>3, LinesOfAppend
<1>5. SpoolState[status] = "open" /\ SpoolState[status'] = SpoolState[status]
  BY <1>1 DEF SpoolState
<1> QED
  BY <1>2, <1>4, <1>5 DEF Spool!Mail

(* Every step of the program is a step of the spool or none.               *)
LEMMA NextImplements == IInv /\ [Next]_vars => [Spool!Next]_(Spool!vars)
<1> SUFFICES ASSUME IInv, [Next]_vars PROVE [Spool!Next]_(Spool!vars)
  OBVIOUS
<1>1. CASE \/ PopenSucceeds \/ ReadLine \/ ReadEnds \/ PcloseReturns \/ TimerExpires
  <2>1. UNCHANGED <<buffer, batches, status>>
    BY <1>1 DEF PopenSucceeds, ReadLine, ReadEnds, PcloseReturns, TimerExpires
  <2>2. Appended' = Appended
    BY <1>1
    DEF PopenSucceeds, ReadLine, ReadEnds, PcloseReturns, TimerExpires, GoTo,
        IInv, TypeOK, Appended
  <2> QED
    BY <2>1, <2>2 DEF Spool!vars
<1>2. CASE PopenFails \/ MainReturns
  <2>1. /\ status = "running" /\ status' = "exited" /\ UNCHANGED <<buffer, batches>>
        /\ pc["main"] \in {"start", "return"}
    BY <1>2 DEF PopenFails, MainReturns, Running
  <2>2. buffer = <<>>
    BY <2>1 DEF IInv, NothingToSend
  <2>3. Appended' = Appended
    BY <1>2 DEF PopenFails, MainReturns, GoTo, IInv, TypeOK, Appended
  <2> QED
    BY <2>1, <2>2, <2>3 DEF Spool!Close, Spool!Next, SpoolState
<1>3. CASE AppendLine
  BY <1>3, AppendLineImplements DEF Spool!Next
<1>4. ASSUME NEW t \in Threads, HandleData(t) PROVE [Spool!Next]_(Spool!vars)
  <2>1. CASE HandleDataSkips(t) \/ BeginSend(t)
    <3>1. UNCHANGED <<buffer, batches, status>>
      BY <2>1 DEF HandleDataSkips, BeginSend
    <3>2. Appended' = Appended
      BY <2>1, ReturnMoves DEF HandleDataSkips, BeginSend, Appended
    <3> QED
      BY <3>1, <3>2 DEF Spool!vars
  <2>2. ASSUME NEW outcome \in Outcomes, EndSend(t, outcome) PROVE Spool!Next
    BY <2>2, EndSendImplements DEF Spool!Next
  <2>3. CASE KilledBySigpipe(t)
    <3>1. /\ status = "running" /\ status' = "killed" /\ UNCHANGED <<buffer, batches>>
          /\ handle_data_mutex = t
      BY <2>3 DEF KilledBySigpipe, Running
    <3>2. buffer # <<>>
      BY <3>1 DEF IInv, HolderSends
    <3>3. Appended' = Appended
      BY <2>3 DEF KilledBySigpipe, Appended
    <3> QED
      BY <3>1, <3>2, <3>3 DEF Spool!Die, Spool!Next, SpoolState
  <2> QED
    BY <1>4, <2>1, <2>2, <2>3 DEF HandleData
<1>5. CASE UNCHANGED vars
  BY <1>5 DEF vars, Spool!vars, Appended
<1> QED
  BY <1>1, <1>2, <1>3, <1>4, <1>5 DEF Next, Terminated

(* exec-and-mail implements the mail spool.                                *)
THEOREM Refinement == Spec => ImplementsSpool
  BY Invariance, InitImplements, NextImplements, PTL DEF Spec, ImplementsSpool, Spool!Spec

-----------------------------------------------------------------------------
(***************************************************************************)
(* The dialogue, for any number of calls, sockets and, where nothing is    *)
(* said of it, lines of an answer.  That commands and answers keep step    *)
(* rests on what is still unread: after an answer of one line nothing is   *)
(* left of it when the next command is written.                            *)
(***************************************************************************)

(* The calls that returned -1.                                             *)
Failed(rs) == {c \in DOMAIN rs : rs[c].ret = -1}
Result == [ret : {-1, 0}, verdicts : Seq(BOOLEAN)]

(* The socket in use, while there is one.                                  *)
InUse == IF step \in Smtp!Exchanges \/ (step = 8 /\ ret = -1) THEN 1 ELSE 0

SocketInv == Smtp!TypeOK /\ open = Cardinality(Failed(results)) + InUse

(* What is unread is the answer to the exchange under way.                 *)
UnreadIsDue ==
  step \in Smtp!Exchanges =>
    /\ Len(verdicts) \in {step - 1, step}
    /\ \A k \in 1..(step - 1) : verdicts[k]
    /\ Len(verdicts) = step - 1 => wire = <<>>
    /\ Len(verdicts) = step => wire \in {<<>>, <<verdicts[step]>>}

AllTaken(v) == v = [k \in Smtp!Exchanges |-> TRUE]
ZeroIsDue == step = 8 /\ ret = 0 => verdicts = <<>> \/ AllTaken(verdicts)

StepInv == Smtp!TypeOK /\ UnreadIsDue /\ ZeroIsDue /\ Smtp!ZeroMeansTaken

(* The calls that failed are finitely many, and a call that returns adds   *)
(* itself if it failed.                                                    *)
LEMMA FailedGrows ==
  ASSUME NEW rs \in Seq(Result), NEW r \in Result
  PROVE  /\ Cardinality(Failed(rs)) \in Nat
         /\ Cardinality(Failed(Append(rs, r)))
              = Cardinality(Failed(rs)) + (IF r.ret = -1 THEN 1 ELSE 0)
<1>1. IsFiniteSet(Failed(rs))
  <2>1. IsFiniteSet(1..Len(rs))
    BY FS_Interval
  <2>2. Failed(rs) \subseteq 1..Len(rs)
    BY DEF Failed
  <2> QED
    BY <2>1, <2>2, FS_Subset
<1>2. Len(rs) + 1 \notin Failed(rs)
  BY DEF Failed
<1>3. Cardinality(Failed(rs)) \in Nat
  BY <1>1, FS_CardinalityType
<1>4. CASE r.ret = -1
  <2>1. Failed(Append(rs, r)) = Failed(rs) \cup {Len(rs) + 1}
    BY <1>4 DEF Failed
  <2>2. Cardinality(Failed(rs) \cup {Len(rs) + 1}) = Cardinality(Failed(rs)) + 1
    BY <1>1, <1>2, FS_AddElement
  <2> QED
    BY <1>3, <1>4, <2>1, <2>2
<1>5. CASE r.ret # -1
  <2>1. Failed(Append(rs, r)) = Failed(rs)
    BY <1>5 DEF Failed
  <2> QED
    BY <1>3, <1>5, <2>1
<1> QED
  BY <1>4, <1>5

LEMMA InitSocketInv == ASSUME Smtp!SmtpSessionAssumption, Smtp!Init PROVE SocketInv
<1>1. Failed(results) = {}
  BY DEF Smtp!Init, Failed
<1>2. InUse = 0
  BY DEF Smtp!Init, InUse, Smtp!Exchanges, Smtp!Quit
<1>3. Smtp!TypeOK
  <2>1. step \in 0..8 /\ ret \in {-1, 0} /\ open \in 0..MaxOpen
    BY DEF Smtp!Init, Smtp!SmtpSessionAssumption
  <2>2. peerOpen \in BOOLEAN /\ killed \in BOOLEAN
    BY DEF Smtp!Init
  <2>3. /\ verdicts \in Seq(BOOLEAN) /\ Len(verdicts) <= Smtp!Quit
        /\ wire \in Seq(BOOLEAN)
        /\ results \in Seq(Result)
    BY DEF Smtp!Init, Smtp!Quit
  <2> QED
    BY <2>1, <2>2, <2>3 DEF Smtp!TypeOK, Result
<1>4. Cardinality(Failed(results)) = 0
  BY <1>1, FS_EmptySet
<1> QED
  BY <1>2, <1>3, <1>4 DEF SocketInv, Smtp!Init

(* What is left unread, and what the server has answered, are sequences of *)
(* Booleans after a step.                                                  *)
LEMMA AnswersTyped ==
  ASSUME Smtp!SmtpSessionAssumption, Smtp!TypeOK, [Smtp!SmtpNext]_(Smtp!smtpVars)
  PROVE  /\ wire' \in Seq(BOOLEAN)
         /\ verdicts' \in Seq(BOOLEAN)
         /\ Len(verdicts') <= Smtp!Quit
<1> USE DEF Smtp!TypeOK
<1>t. wire # <<>> => Tail(wire) \in Seq(BOOLEAN)
  OBVIOUS
<1>e. <<>> \in Seq(BOOLEAN) /\ Len(<<>>) <= Smtp!Quit
  BY DEF Smtp!Quit
<1>1. CASE Smtp!Connect \/ Smtp!ConnectFails
  BY <1>1, <1>e DEF Smtp!Connect, Smtp!ConnectFails
<1>2. CASE Smtp!SmtpReadOk \/ Smtp!QuitOk
  BY <1>2, <1>t DEF Smtp!SmtpReadOk, Smtp!QuitOk
<1>3. CASE Smtp!SmtpReadError
  BY <1>3, <1>t DEF Smtp!SmtpReadError
<1>4. CASE Smtp!Sigpipe \/ Smtp!Return
  BY <1>4 DEF Smtp!Sigpipe, Smtp!Return
<1>5. CASE Smtp!Answer
  <2> PICK ok \in BOOLEAN, n \in 1..MaxReplyLines :
         /\ verdicts' = Append(verdicts, ok)
         /\ wire' = wire \o [i \in 1..n |-> ok]
    BY <1>5 DEF Smtp!Answer
  <2>1. Len(verdicts) < step /\ step <= Smtp!Quit
    BY <1>5 DEF Smtp!Answer, Smtp!InSession, Smtp!Exchanges, Smtp!Quit
  <2>2. verdicts' \in Seq(BOOLEAN) /\ Len(verdicts') = Len(verdicts) + 1
    OBVIOUS
  <2>3. [i \in 1..n |-> ok] \in Seq(BOOLEAN)
    <3>1. n \in Nat
      BY DEF Smtp!SmtpSessionAssumption
    <3> QED
      BY <3>1
  <2>4. wire' \in Seq(BOOLEAN)
    BY <2>3, ConcatProperties
  <2> QED
    BY <2>1, <2>2, <2>4 DEF Smtp!Quit
<1>6. CASE Smtp!PeerCloses
  BY <1>6, <1>e DEF Smtp!PeerCloses
<1>7. CASE UNCHANGED Smtp!smtpVars
  BY <1>7 DEF Smtp!smtpVars
<1>8. CASE Smtp!Finished
  BY <1>7, <1>8 DEF Smtp!Finished
<1> QED
  BY <1>1, <1>2, <1>3, <1>4, <1>5, <1>6, <1>7, <1>8
  DEF Smtp!SmtpNext, Smtp!Call, Smtp!Client, Smtp!Server

LEMMA FlagsTyped ==
  ASSUME Smtp!TypeOK, [Smtp!SmtpNext]_(Smtp!smtpVars)
  PROVE  peerOpen' \in BOOLEAN /\ killed' \in BOOLEAN
BY DEF Smtp!TypeOK, Smtp!SmtpNext, Smtp!Call, Smtp!Client, Smtp!Server, Smtp!Connect, Smtp!ConnectFails, Smtp!SmtpReadOk,
   Smtp!SmtpReadError, Smtp!QuitOk, Smtp!Return, Smtp!Sigpipe, Smtp!Answer, Smtp!PeerCloses, Smtp!Finished, Smtp!smtpVars

(* While no call returns, the failed calls stay the same.                  *)
LEMMA SameFailed ==
  ASSUME results' = results
  PROVE  Cardinality(Failed(results))' = Cardinality(Failed(results))
<1>1. Failed(results)' = Failed(results)
  BY DEF Failed
<1> QED
  BY <1>1

LEMMA NextSocketInv ==
  ASSUME Smtp!SmtpSessionAssumption, SocketInv, [Smtp!SmtpNext]_(Smtp!smtpVars)
  PROVE  SocketInv'
<1> DEFINE failed == Cardinality(Failed(results))
<1>n. failed \in Nat
  <2>1. [ret |-> 0, verdicts |-> <<>>] \in Result
    BY DEF Result
  <2> QED
    BY <2>1, FailedGrows DEF SocketInv, Smtp!TypeOK, Result
<1>s. results' = results => failed' = failed
  BY SameFailed
<1>w. /\ wire' \in Seq(BOOLEAN)
      /\ verdicts' \in Seq(BOOLEAN)
      /\ Len(verdicts') <= Smtp!Quit
  BY AnswersTyped DEF SocketInv
<1>o. /\ Smtp!TypeOK
      /\ open = failed + InUse
  BY DEF SocketInv
<1>b. peerOpen' \in BOOLEAN /\ killed' \in BOOLEAN
  BY FlagsTyped DEF SocketInv
<1>q. SUFFICES /\ step' \in 0..8 /\ ret' \in {-1, 0} /\ open' \in 0..MaxOpen
               /\ results' \in Seq(Result)
               /\ open' = failed' + InUse'
  BY <1>w, <1>b DEF SocketInv, Smtp!TypeOK, Result
<1>m. MaxOpen \in Nat
  BY DEF Smtp!SmtpSessionAssumption
<1> HIDE DEF failed
<1> USE <1>n, <1>s, <1>o, <1>m DEF Smtp!TypeOK, InUse, Smtp!Exchanges, Smtp!Quit, Result
<1>1. CASE Smtp!Connect
  BY <1>1 DEF Smtp!Connect
<1>2. CASE Smtp!ConnectFails
  BY <1>2 DEF Smtp!ConnectFails
<1>3. CASE Smtp!SmtpReadOk
  <2>1. /\ step \in Smtp!Exchanges /\ step < Smtp!Quit /\ step' = step + 1
        /\ ret' = ret /\ open' = open /\ results' = results
    BY <1>3, Zenon DEF Smtp!SmtpReadOk, Smtp!InSession
  <2> QED
    BY <2>1
<1>4. CASE Smtp!SmtpReadError
  <2>1. /\ step \in Smtp!Exchanges /\ step' = 8 /\ ret' = -1
        /\ open' = open /\ results' = results
    BY <1>4, Zenon DEF Smtp!SmtpReadError, Smtp!InSession
  <2> QED
    BY <2>1
<1>5. CASE Smtp!QuitOk
  <2>1. /\ step \in Smtp!Exchanges /\ step' = 8 /\ ret' = 0
        /\ open' = open - 1 /\ results' = results
    BY <1>5, Zenon DEF Smtp!QuitOk, Smtp!InSession
  <2> QED
    BY <2>1
<1>6. CASE Smtp!Sigpipe
  BY <1>6 DEF Smtp!Sigpipe, Smtp!InSession
<1>7. CASE Smtp!Answer
  BY <1>7 DEF Smtp!Answer, Smtp!InSession
<1>8. CASE Smtp!PeerCloses
  BY <1>8 DEF Smtp!PeerCloses, Smtp!InSession
<1>9. CASE Smtp!Return
  <2> DEFINE r == [ret |-> ret, verdicts |-> verdicts]
  <2>1. r \in Result
    BY DEF Result
  <2>2. results \in Seq(Result) /\ results' = Append(results, r)
    BY <1>9 DEF Smtp!Return, Result
  <2>3. failed' = failed + (IF ret = -1 THEN 1 ELSE 0)
    <3>1. Cardinality(Failed(Append(results, r)))
            = Cardinality(Failed(results)) + (IF r.ret = -1 THEN 1 ELSE 0)
      BY <2>1, <2>2, FailedGrows
    <3>2. Failed(results)' = Failed(Append(results, r))
      BY <2>2 DEF Failed
    <3> QED
      BY <3>1, <3>2 DEF failed
  <2>4. results' \in Seq(Result)
    BY <2>1, <2>2
  <2>5. open' = failed' + InUse'
    BY <1>9, <2>3 DEF Smtp!Return
  <2> QED
    BY <1>9, <2>4, <2>5 DEF Smtp!Return
<1>10. CASE UNCHANGED Smtp!smtpVars
  BY <1>10 DEF Smtp!smtpVars
<1>11. CASE Smtp!Finished
  BY <1>10, <1>11 DEF Smtp!Finished
<1> QED
  BY <1>1, <1>2, <1>3, <1>4, <1>5, <1>6, <1>7, <1>8, <1>9, <1>10, <1>11
  DEF Smtp!SmtpNext, Smtp!Call, Smtp!Client, Smtp!Server

(* One socket stays open for every call that returned -1, and one is in    *)
(* use: no other descriptor is lost, and none is closed twice, whatever    *)
(* the server does (send_buffer's returns).                                *)
THEOREM SocketsAreCounted ==
  ASSUME Smtp!SmtpSessionAssumption PROVE Smtp!Spec => []Smtp!OpenSocketsAreFailures
<1>1. SocketInv => Smtp!OpenSocketsAreFailures
  <2>1. \A S : Smtp!Cardinality(S) = Cardinality(S)
    BY DEF Smtp!Cardinality, Cardinality
  <2> QED
    BY <2>1 DEF SocketInv, Smtp!OpenSocketsAreFailures, Failed, InUse
<1>2. Smtp!Init => SocketInv
  BY InitSocketInv
<1>3. SocketInv /\ [Smtp!SmtpNext]_(Smtp!smtpVars) => SocketInv'
  BY NextSocketInv
<1> QED
  BY <1>1, <1>2, <1>3, PTL DEF Smtp!Spec

(* The variables have their types; in particular the process never closes  *)
(* a socket it has not got, nor hears more answers than there are commands.*)
THEOREM SessionTypeCorrect ==
  ASSUME Smtp!SmtpSessionAssumption PROVE Smtp!Spec => []Smtp!TypeOK
<1>1. SocketInv => Smtp!TypeOK
  BY DEF SocketInv
<1>2. Smtp!Init => SocketInv
  BY InitSocketInv
<1>3. SocketInv /\ [Smtp!SmtpNext]_(Smtp!smtpVars) => SocketInv'
  BY NextSocketInv
<1> QED
  BY <1>1, <1>2, <1>3, PTL DEF Smtp!Spec

LEMMA HeadOfOne == \A b : Head(<<b>>) = b /\ Tail(<<b>>) = <<>>
  OBVIOUS

(* With answers of one line, commands and answers alternate.               *)
LEMMA NextUnreadIsDue ==
  ASSUME Smtp!SmtpSessionAssumption, MaxReplyLines = 1, StepInv, [Smtp!SmtpNext]_(Smtp!smtpVars)
  PROVE  UnreadIsDue'
<1> USE DEF StepInv, Smtp!TypeOK, UnreadIsDue, Smtp!InSession, Smtp!Exchanges, Smtp!Quit
<1>1. CASE Smtp!Connect
  BY <1>1 DEF Smtp!Connect
<1>2. CASE Smtp!ConnectFails \/ Smtp!SmtpReadError \/ Smtp!QuitOk \/ Smtp!Return
  <2>1. step' = 8 \/ step' = 0
    BY <1>2, Zenon DEF Smtp!ConnectFails, Smtp!SmtpReadError, Smtp!QuitOk, Smtp!Return
  <2> QED
    BY <2>1
<1>3. CASE Smtp!SmtpReadOk
  <2>0. step \in 1..7 /\ step < 7 /\ step' = step + 1 /\ verdicts' = verdicts
    BY <1>3 DEF Smtp!SmtpReadOk
  <2>1. step \in 1..6
    BY <2>0
  <2>2. Len(verdicts) = step /\ wire = <<verdicts[step]>>
    BY <1>3 DEF Smtp!SmtpReadOk
  <2>3. verdicts[step] /\ wire' = <<>>
    <3>1. Head(wire) /\ wire' = Tail(wire)
      BY <1>3, Zenon DEF Smtp!SmtpReadOk
    <3>2. Head(wire) = verdicts[step] /\ Tail(wire) = <<>>
      BY <2>2, HeadOfOne, Zenon
    <3> QED
      BY <3>1, <3>2, Zenon
  <2>4. \A k \in 1..(step - 1) : verdicts[k]
    BY <2>0
  <2>5. \A k \in 1..step : verdicts[k]
    BY <2>1, <2>3, <2>4
  <2>6. step' - 1 = step
    BY <2>0, <2>1
  <2>7. \A k \in 1..(step' - 1) : verdicts'[k]
    BY <2>0, <2>5, <2>6
  <2> QED
    BY <2>0, <2>1, <2>2, <2>3, <2>7
<1>4. CASE Smtp!Answer
  <2> PICK ok \in BOOLEAN, n \in 1..MaxReplyLines :
         /\ verdicts' = Append(verdicts, ok)
         /\ wire' = wire \o [i \in 1..n |-> ok]
    BY <1>4 DEF Smtp!Answer
  <2>1. step \in 1..7 /\ step' = step /\ Len(verdicts) = step - 1 /\ wire = <<>>
    BY <1>4 DEF Smtp!Answer
  <2>2. wire' = <<ok>>
    <3>1. n = 1
      OBVIOUS
    <3>2. [i \in 1..1 |-> ok] = <<ok>>
      OBVIOUS
    <3>3. <<>> \o <<ok>> = <<ok>>
      OBVIOUS
    <3> QED
      BY <2>1, <3>1, <3>2, <3>3
  <2>3. Len(verdicts') = step /\ verdicts'[step] = ok
    BY <2>1
  <2>4. \A k \in 1..(step - 1) : verdicts'[k] = verdicts[k]
    BY <2>1
  <2>5. \A k \in 1..(step - 1) : verdicts[k]
    BY <2>1
  <2> QED
    BY <2>1, <2>2, <2>3, <2>4, <2>5
<1>5. CASE Smtp!Sigpipe
  BY <1>5 DEF Smtp!Sigpipe
<1>6. CASE Smtp!PeerCloses
  BY <1>6 DEF Smtp!PeerCloses
<1>7. CASE UNCHANGED Smtp!smtpVars
  BY <1>7 DEF Smtp!smtpVars
<1>8. CASE Smtp!Finished
  BY <1>7, <1>8 DEF Smtp!Finished
<1> QED
  BY <1>1, <1>2, <1>3, <1>4, <1>5, <1>6, <1>7, <1>8
  DEF Smtp!SmtpNext, Smtp!Call, Smtp!Client, Smtp!Server

(* A call is about to return 0 only when every exchange was a success, or  *)
(* none took place.                                                        *)
LEMMA NextZeroIsDue ==
  ASSUME Smtp!SmtpSessionAssumption, MaxReplyLines = 1, StepInv, [Smtp!SmtpNext]_(Smtp!smtpVars)
  PROVE  ZeroIsDue'
<1> USE DEF StepInv, Smtp!TypeOK, ZeroIsDue, Smtp!InSession, Smtp!Exchanges, Smtp!Quit
<1>1. CASE Smtp!QuitOk
  <2>1. step = 7 /\ verdicts' = verdicts
    BY <1>1 DEF Smtp!QuitOk
  <2>2. Len(verdicts) = 7 /\ wire = <<verdicts[7]>> /\ \A k \in 1..6 : verdicts[k]
    <3>1. wire # <<>>
      BY <1>1, Zenon DEF Smtp!QuitOk
    <3> QED
      BY <2>1, <3>1 DEF UnreadIsDue
  <2>3. verdicts[7]
    <3>1. Head(wire)
      BY <1>1, Zenon DEF Smtp!QuitOk
    <3>2. Head(wire) = verdicts[7]
      BY <2>2, HeadOfOne, Zenon
    <3> QED
      BY <3>1, <3>2, Zenon
  <2>4. \A k \in 1..7 : verdicts[k] = TRUE
    BY <2>2, <2>3
  <2>5. verdicts = [k \in 1..7 |-> TRUE]
    BY <2>2, <2>4
  <2> QED
    BY <2>1, <2>5 DEF AllTaken
<1>2. CASE Smtp!Connect \/ Smtp!SmtpReadOk \/ Smtp!SmtpReadError \/ Smtp!Answer
  <2>1. \/ step' = 1
        \/ step \in Smtp!Exchanges /\ step < Smtp!Quit /\ step' = step + 1
        \/ ret' = -1
        \/ step \in Smtp!Exchanges /\ step' = step
    BY <1>2, Zenon DEF Smtp!Connect, Smtp!SmtpReadOk, Smtp!SmtpReadError, Smtp!Answer, Smtp!InSession
  <2>2. step' # 8 \/ ret' # 0
    BY <2>1
  <2> QED
    BY <2>2
<1>3. CASE Smtp!ConnectFails
  BY <1>3 DEF Smtp!ConnectFails
<1>4. CASE Smtp!Return
  BY <1>4 DEF Smtp!Return
<1>5. CASE Smtp!Sigpipe \/ Smtp!PeerCloses
  BY <1>5 DEF Smtp!Sigpipe, Smtp!PeerCloses, AllTaken
<1>6. CASE UNCHANGED Smtp!smtpVars
  BY <1>6 DEF Smtp!smtpVars, AllTaken
<1>7. CASE Smtp!Finished
  BY <1>6, <1>7 DEF Smtp!Finished
<1> QED
  BY <1>1, <1>2, <1>3, <1>4, <1>5, <1>6, <1>7
  DEF Smtp!SmtpNext, Smtp!Call, Smtp!Client, Smtp!Server

(* The results grow by the call that returns only.                         *)
LEMMA NextZeroMeansTaken ==
  ASSUME StepInv, [Smtp!SmtpNext]_(Smtp!smtpVars)
  PROVE  Smtp!ZeroMeansTaken'
<1>1. CASE Smtp!Return
  <2> DEFINE r == [ret |-> ret, verdicts |-> verdicts]
  <2>1. results' = Append(results, r) /\ results \in Seq(Result)
    BY <1>1 DEF Smtp!Return, StepInv, Smtp!TypeOK, Result
  <2>2. r \in Result /\ (r.ret = 0 /\ r.verdicts # <<>> => AllTaken(r.verdicts))
    BY <1>1 DEF Smtp!Return, StepInv, Smtp!TypeOK, ZeroIsDue, Result
  <2>3. \A c \in DOMAIN results : results[c].ret = 0 /\ results[c].verdicts # <<>>
          => AllTaken(results[c].verdicts)
    BY DEF StepInv, Smtp!ZeroMeansTaken, AllTaken
  <2> HIDE DEF r
  <2>4. SUFFICES ASSUME NEW c \in DOMAIN results', results'[c].ret = 0, results'[c].verdicts # <<>>
        PROVE  AllTaken(results'[c].verdicts)
    BY DEF Smtp!ZeroMeansTaken, AllTaken
  <2>5. CASE c = Len(results) + 1
    BY <2>1, <2>2, <2>4, <2>5
  <2>6. CASE c # Len(results) + 1
    <3>1. c \in DOMAIN results /\ results'[c] = results[c]
      BY <2>1, <2>2, <2>4, <2>6
    <3> QED
      BY <2>3, <2>4, <3>1
  <2> QED
    BY <2>5, <2>6
<1>2. ASSUME results' = results PROVE Smtp!ZeroMeansTaken'
  BY <1>2 DEF StepInv, Smtp!ZeroMeansTaken
<1>3. Smtp!Return \/ results' = results
  BY DEF Smtp!SmtpNext, Smtp!Call, Smtp!Client, Smtp!Server, Smtp!Connect, Smtp!ConnectFails, Smtp!SmtpReadOk, Smtp!SmtpReadError,
     Smtp!QuitOk, Smtp!Sigpipe, Smtp!Answer, Smtp!PeerCloses, Smtp!Finished, Smtp!smtpVars
<1> QED
  BY <1>1, <1>2, <1>3

LEMMA StepInvariance ==
  ASSUME Smtp!SmtpSessionAssumption, MaxReplyLines = 1 PROVE Smtp!Spec => []StepInv
<1>1. Smtp!Spec => []Smtp!TypeOK
  BY SessionTypeCorrect
<1>2. Smtp!Init => StepInv
  <2> SUFFICES ASSUME Smtp!Init PROVE StepInv
    OBVIOUS
  <2>1. Smtp!TypeOK
    BY InitSocketInv DEF SocketInv
  <2>2. UnreadIsDue /\ ZeroIsDue /\ Smtp!ZeroMeansTaken
    BY DEF Smtp!Init, UnreadIsDue, ZeroIsDue, Smtp!ZeroMeansTaken, Smtp!Exchanges, Smtp!Quit
  <2> QED
    BY <2>1, <2>2 DEF StepInv
<1>3. Smtp!TypeOK' /\ StepInv /\ [Smtp!SmtpNext]_(Smtp!smtpVars) => StepInv'
  BY NextUnreadIsDue, NextZeroIsDue, NextZeroMeansTaken DEF StepInv
<1> QED
  BY <1>1, <1>2, <1>3, PTL DEF Smtp!Spec

(* With answers of one line each, no command is written before the server  *)
(* took all the commands before it (send_buffer, smtp_read).               *)
THEOREM CommandsWait ==
  ASSUME Smtp!SmtpSessionAssumption, MaxReplyLines = 1 PROVE Smtp!Spec => []Smtp!WritesInLockstep
<1>1. StepInv => Smtp!WritesInLockstep
  BY DEF StepInv, UnreadIsDue, Smtp!WritesInLockstep, Smtp!InSession
<1> QED
  BY <1>1, StepInvariance, PTL

(* With answers of one line each, a call that spoke to the server returns  *)
(* 0 only if the server took everything it was told (send_buffer).         *)
THEOREM ZeroIsSuccess ==
  ASSUME Smtp!SmtpSessionAssumption, MaxReplyLines = 1 PROVE Smtp!Spec => []Smtp!ZeroMeansTaken
<1>1. StepInv => Smtp!ZeroMeansTaken
  BY DEF StepInv
<1> QED
  BY <1>1, StepInvariance, PTL

-----------------------------------------------------------------------------
(***************************************************************************)
(* exec-and-mail with its mail server.  The composition is both of its     *)
(* parts: seen from the dialogue every step is one of SmtpSession or a     *)
(* stutter, seen from the threads one of ExecAndMail or a stutter, so that *)
(* what is proved of the parts holds for the whole.                        *)
(***************************************************************************)

(* What the dialogue sees of the program.                                  *)
LEMMA SessionSteps == SpecSmtp => Smtp!Spec
<1>1. InitSmtp => Smtp!Init
  BY DEF InitSmtp
<1>2. ASSUME [NextSmtp]_allVars PROVE [Smtp!SmtpNext]_(Smtp!smtpVars)
  <2>1. CASE ThreadStep \/ Ended \/ UNCHANGED allVars
    BY <2>1 DEF ThreadStep, Ended, allVars, smtpVars, Smtp!smtpVars
  <2>2. CASE CallSendBuffer
    BY <2>2 DEF CallSendBuffer, Smtp!SmtpNext
  <2>3. CASE Converse
    BY <2>3 DEF Converse, Smtp!SmtpNext, Smtp!Client
  <2>4. CASE SendBufferReturns \/ Killed
    BY <2>4 DEF SendBufferReturns, Killed, Smtp!SmtpNext, Smtp!Client
  <2>5. CASE ServerAnswers \/ ServerHangsUp
    BY <2>5 DEF ServerAnswers, ServerHangsUp, Smtp!SmtpNext, Smtp!Server
  <2> QED
    BY <1>2, <2>1, <2>2, <2>3, <2>4, <2>5 DEF NextSmtp, Dialogue
<1> QED
  BY <1>1, <1>2, PTL DEF SpecSmtp, Smtp!Spec

(* Whatever thread mails, and whatever the server and the network do, the  *)
(* open sockets are one per call that returned -1 and the one in use       *)
(* (send_buffer).                                                          *)
THEOREM SocketsOfMails == SpecSmtp => []OpenSocketsAreFailures
<1>1. Smtp!Spec => []Smtp!OpenSocketsAreFailures
  BY ExecAndMailSmtpAssumption, SocketsAreCounted
<1> QED
  BY <1>1, SessionSteps, PTL DEF OpenSocketsAreFailures

(* With answers of one line no command of any mail is written before the   *)
(* server took every command of that mail before it (send_buffer).         *)
THEOREM MailsInLockstep ==
  ASSUME MaxReplyLines = 1 PROVE SpecSmtp => []WritesInLockstep
<1>1. Smtp!Spec => []Smtp!WritesInLockstep
  BY ExecAndMailSmtpAssumption, CommandsWait
<1> QED
  BY <1>1, SessionSteps, PTL DEF WritesInLockstep

(* With answers of one line a call that spoke to the server returns 0 only *)
(* if the server took all of the mail (send_buffer).                       *)
THEOREM MailsReportedSent ==
  ASSUME MaxReplyLines = 1 PROVE SpecSmtp => []ZeroMeansTaken
<1>1. Smtp!Spec => []Smtp!ZeroMeansTaken
  BY ExecAndMailSmtpAssumption, ZeroIsSuccess
<1> QED
  BY <1>1, SessionSteps, PTL DEF ZeroMeansTaken

-----------------------------------------------------------------------------
(* What the threads see of the dialogue: a send that returns or is killed. *)
(* This is the part of ImplementsExecAndMail that is not about fairness.   *)
THEOREM ThreadsAreKept == SpecSmtp => Spec
<1>1. InitSmtp => Init
  BY DEF InitSmtp
<1>2. ASSUME [NextSmtp]_allVars PROVE [Next]_vars
  <2>1. CASE ThreadStep
    BY <2>1 DEF ThreadStep, Next, HandleData
  <2>2. CASE CallSendBuffer
    BY <2>2 DEF CallSendBuffer, Next, HandleData
  <2>3. CASE SendBufferReturns
    <3>1. (IF Taken THEN "accepted" ELSE "lost") \in Outcomes
      BY DEF Outcomes
    <3> QED
      BY <2>3, <3>1 DEF SendBufferReturns, Next, HandleData
  <2>4. CASE Killed
    BY <2>4 DEF Killed, Next, HandleData
  <2>5. CASE Converse \/ ServerAnswers \/ ServerHangsUp \/ Ended \/ UNCHANGED allVars
    BY <2>5 DEF Converse, ServerAnswers, ServerHangsUp, Ended, allVars
  <2> QED
    BY <1>2, <2>1, <2>2, <2>3, <2>4, <2>5 DEF NextSmtp, Dialogue
<1> QED
  BY <1>1, <1>2, PTL DEF SpecSmtp, Spec

(* With the real dialogue in the place of send_buffer, too, every line is  *)
(* in one mail or in the buffer, in the order in which it was printed.     *)
THEOREM MailedLinesStayInOrder == SpecSmtp => []LinesInOrder
  BY ThreadsAreKept, LinesStayInOrder, PTL

-----------------------------------------------------------------------------
AcceptedBatches == [lines : Seq(Lines), outcome : {"accepted"}]
AcceptedMails(bs) == LinesOf(Filter(bs, AcceptedBatches))

(* A batch that was accepted is the next of the accepted mails.            *)
LEMMA AcceptedMailsAppend ==
  ASSUME NEW bs \in Seq(Batches), NEW b \in Batches
  PROVE  AcceptedMails(Append(bs, b)) =
           IF b.outcome = "accepted" THEN Append(AcceptedMails(bs), b.lines)
           ELSE AcceptedMails(bs)
<1>1. b \in AcceptedBatches <=> b.outcome = "accepted"
  BY DEF AcceptedBatches, Batches
<1>2. Filter(Append(bs, b), AcceptedBatches) =
        IF b \in AcceptedBatches THEN Append(Filter(bs, AcceptedBatches), b)
        ELSE Filter(bs, AcceptedBatches)
  BY FilterAppend
<1>3. Filter(bs, AcceptedBatches) \in Seq(Batches)
  BY FilterType
<1>4. LinesOf(Append(Filter(bs, AcceptedBatches), b)) =
        Append(LinesOf(Filter(bs, AcceptedBatches)), b.lines)
  BY <1>3, LinesOfAppend
<1> QED
  BY <1>1, <1>2, <1>4 DEF AcceptedMails

(* The mailbox, and what it takes to keep it in step with the batches: the *)
(* mutex is held exactly during a session, and the body the server gets is *)
(* the chain.                                                              *)
MailInv ==
  /\ step \in 0..8 /\ verdicts \in Seq(BOOLEAN)
  /\ handle_data_mutex = NoThread <=> step = 0
  /\ step \in {6, 7} => body = buffer
  /\ mailbox = IF handle_data_mutex # NoThread /\ Taken
               THEN Append(AcceptedMails(batches), buffer) ELSE AcceptedMails(batches)

LEMMA InitMailInv == InitSmtp => MailInv
<1> SUFFICES ASSUME InitSmtp PROVE MailInv
  OBVIOUS
<1>1. Init /\ Smtp!Init /\ mailbox = <<>>
  BY DEF InitSmtp
<1>2. Filter(<<>>, AcceptedBatches) = <<>>
  BY FilterEmpty
<1>3. AcceptedMails(batches) = <<>>
  BY <1>1, <1>2 DEF Init, AcceptedMails, LinesOf
<1> QED
  BY <1>1, <1>3 DEF MailInv, Init, Smtp!Init

LEMMA ThreadStepMailInv ==
  ASSUME MailInv, ThreadStep
  PROVE  MailInv'
<1>1. UNCHANGED <<step, verdicts, body, mailbox>>
  BY DEF ThreadStep, smtpVars
<1>2. UNCHANGED <<handle_data_mutex, batches>>
  BY DEF ThreadStep, PopenSucceeds, PopenFails, ReadLine, ReadEnds, PcloseReturns,
     AppendLine, TimerExpires, MainReturns, HandleDataSkips
<1>3. buffer' = buffer \/ handle_data_mutex = NoThread
  BY DEF ThreadStep, PopenSucceeds, PopenFails, ReadLine, ReadEnds, PcloseReturns,
     AppendLine, TimerExpires, MainReturns, HandleDataSkips
<1>4. Taken' = Taken
  BY <1>1 DEF Taken, Smtp!Body
<1> QED
  BY <1>1, <1>2, <1>3, <1>4 DEF MailInv, NoThread

LEMMA CallMailInv ==
  ASSUME MailInv, CallSendBuffer
  PROVE  MailInv'
<1>1. /\ step = 0 /\ step' \in {1, 8} /\ verdicts' = <<>>
      /\ UNCHANGED <<buffer, batches, mailbox>>
      /\ handle_data_mutex' \in Threads
  BY DEF CallSendBuffer, BeginSend, Smtp!Call, Smtp!Connect, Smtp!ConnectFails
<1>2. ~Taken'
  BY <1>1 DEF Taken, Smtp!Body
<1> QED
  BY <1>1, <1>2 DEF MailInv, NoThread, Threads

LEMMA ConverseMailInv ==
  ASSUME MailInv, Converse
  PROVE  MailInv'
<1>1. UNCHANGED <<handle_data_mutex, buffer, batches, mailbox, verdicts>>
  BY DEF Converse, vars, Smtp!SmtpReadOk, Smtp!SmtpReadError, Smtp!QuitOk
<1>2. step \in 1..7 /\ (step' = step + 1 \/ step' = 8)
  BY DEF Converse, Smtp!SmtpReadOk, Smtp!SmtpReadError, Smtp!QuitOk, Smtp!InSession,
     Smtp!Exchanges, Smtp!Quit
<1>3. body' = IF step' = 6 /\ step # 6 THEN buffer ELSE body
  BY DEF Converse, Smtp!Body
<1>4. Taken' = Taken
  BY <1>1 DEF Taken, Smtp!Body
<1> QED
  BY <1>1, <1>2, <1>3, <1>4 DEF MailInv

LEMMA AnswerMailInv ==
  ASSUME MailInv, ServerAnswers
  PROVE  MailInv'
<1>1. UNCHANGED <<handle_data_mutex, buffer, batches, body, step>>
  BY DEF ServerAnswers, vars, Smtp!Answer
<1>2. PICK ok \in BOOLEAN : verdicts' = Append(verdicts, ok)
  BY DEF ServerAnswers, Smtp!Answer
<1>3. Len(verdicts) < step /\ step \in 1..7
  BY DEF ServerAnswers, Smtp!Answer, Smtp!InSession, Smtp!Exchanges, Smtp!Quit
<1>4. mailbox' = IF Len(verdicts') = 6 /\ verdicts'[6] THEN Append(mailbox, body) ELSE mailbox
  BY DEF ServerAnswers, Smtp!Body
<1>5. /\ verdicts \in Seq(BOOLEAN) /\ verdicts' \in Seq(BOOLEAN)
      /\ Len(verdicts') = Len(verdicts) + 1 /\ Len(verdicts) \in Nat
      /\ \A k \in 1..Len(verdicts) : verdicts'[k] = verdicts[k]
  BY <1>2, AppendProperties DEF MailInv
<1>6. handle_data_mutex # NoThread
  BY <1>3 DEF MailInv
<1>7. CASE Len(verdicts) < 5
  <2>1. ~Taken /\ ~Taken' /\ mailbox' = mailbox
    BY <1>4, <1>5, <1>7 DEF Taken, Smtp!Body
  <2> QED
    BY <1>1, <1>5, <2>1 DEF MailInv
<1>8. CASE Len(verdicts) = 5
  <2>1. ~Taken /\ Len(verdicts') = 6 /\ step \in {6, 7}
    BY <1>3, <1>5, <1>8 DEF Taken, Smtp!Body
  <2>2. body = buffer /\ mailbox = AcceptedMails(batches)
    BY <2>1 DEF MailInv
  <2>3. Taken' <=> verdicts'[6]
    BY <2>1 DEF Taken, Smtp!Body
  <2>4. mailbox' = IF Taken' THEN Append(AcceptedMails(batches), buffer)
                   ELSE AcceptedMails(batches)
    BY <1>4, <2>1, <2>2, <2>3
  <2> QED
    BY <1>1, <1>5, <1>6, <2>2, <2>4 DEF MailInv
<1>9. CASE Len(verdicts) > 5
  <2>1. Taken' = Taken
    <3>1. Len(verdicts) >= 6 /\ Len(verdicts') >= 6 /\ verdicts'[6] = verdicts[6]
      BY <1>5, <1>9
    <3> QED
      BY <3>1 DEF Taken, Smtp!Body
  <2>2. mailbox' = mailbox
    BY <1>4, <1>5, <1>9
  <2> QED
    BY <1>1, <1>5, <2>1, <2>2 DEF MailInv
<1>10. Len(verdicts) < 5 \/ Len(verdicts) = 5 \/ Len(verdicts) > 5
  <2>1. PICK n \in Nat : n = Len(verdicts)
    BY <1>5
  <2>2. n < 5 \/ n = 5 \/ n > 5
    OBVIOUS
  <2> QED
    BY <2>1, <2>2, Zenon
<1> QED
  BY <1>7, <1>8, <1>9, <1>10, Zenon

LEMMA ReturnMailInv ==
  ASSUME MailInv, IInv, SendBufferReturns
  PROVE  MailInv'
<1> DEFINE o == IF Taken THEN "accepted" ELSE "lost"
           b == [lines |-> buffer, outcome |-> o]
<1>1. UNCHANGED <<body, mailbox, verdicts>> /\ step = 8 /\ step' = 0
  BY DEF SendBufferReturns, Smtp!Return
<1>2. PICK t \in Threads : EndSend(t, o)
  BY DEF SendBufferReturns
<1>3. batches' = Append(batches, b) /\ handle_data_mutex' = NoThread /\ handle_data_mutex = t
  BY <1>2 DEF EndSend
<1>4. b \in Batches /\ batches \in Seq(Batches)
  BY <1>3 DEF IInv, TypeOK, HolderSends, Batches, Outcomes
<1>5. AcceptedMails(batches') = IF o = "accepted" THEN Append(AcceptedMails(batches), buffer)
                                ELSE AcceptedMails(batches)
  <2> HIDE DEF o
  <2>1. b.outcome = o /\ b.lines = buffer
    OBVIOUS
  <2> HIDE DEF b
  <2> QED
    BY <1>3, <1>4, <2>1, AcceptedMailsAppend
<1>6. handle_data_mutex # NoThread
  BY <1>3 DEF Threads, NoThread
<1>7. mailbox = AcceptedMails(batches')
  BY <1>5, <1>6 DEF MailInv
<1>8. mailbox' = AcceptedMails(batches)'
  BY <1>1, <1>7 DEF AcceptedMails, LinesOf
<1> QED
  BY <1>1, <1>3, <1>8 DEF MailInv

LEMMA NextMailInv == MailInv /\ IInv /\ [NextSmtp]_allVars => MailInv'
<1> SUFFICES ASSUME MailInv, IInv, [NextSmtp]_allVars PROVE MailInv'
  OBVIOUS
<1>1. ASSUME UNCHANGED <<step, verdicts, body, mailbox, handle_data_mutex, buffer, batches>>
      PROVE  MailInv'
  <2>1. Taken' = Taken
    BY <1>1 DEF Taken, Smtp!Body
  <2> QED
    BY <1>1, <2>1 DEF MailInv, AcceptedMails, LinesOf
<1>2. CASE Killed
  BY <1>1, <1>2 DEF Killed, Smtp!Sigpipe, KilledBySigpipe
<1>3. CASE ServerHangsUp
  BY <1>1, <1>3 DEF ServerHangsUp, Smtp!PeerCloses, vars
<1>4. CASE Ended \/ UNCHANGED allVars
  BY <1>1, <1>4 DEF Ended, allVars, vars, smtpVars
<1> QED
  BY <1>2, <1>3, <1>4, ThreadStepMailInv, CallMailInv, ConverseMailInv, AnswerMailInv,
     ReturnMailInv DEF NextSmtp, Dialogue

THEOREM MailInvariance == SpecSmtp => [](MailInv /\ IInv)
<1>1. SpecSmtp => []IInv
  BY ThreadsAreKept, Invariance, PTL
<1> QED
  BY <1>1, InitMailInv, NextMailInv, PTL DEF SpecSmtp

(* The mails the server has taken are the batches that count as accepted,  *)
(* in their order and with their lines, and the chain of the session under *)
(* way if that has been taken (handle_data, send_buffer).                  *)
THEOREM MailboxMatchesBatches == SpecSmtp => []MailboxIsAcceptedBatches
<1>1. MailInv => MailboxIsAcceptedBatches
  BY DEF MailInv, MailboxIsAcceptedBatches, AcceptedMails, AcceptedBatches
<1> QED
  BY <1>1, MailInvariance, PTL

-----------------------------------------------------------------------------
(* The lines of w, mail by mail, are in order.                             *)
MailsInOrder(w) ==
  /\ \A k \in 1..Len(w) : \A i, j \in 1..Len(w[k]) : i < j => w[k][i] < w[k][j]
  /\ \A k, l \in 1..Len(w) : k < l =>
       \A i \in 1..Len(w[k]), j \in 1..Len(w[l]) : w[k][i] < w[l][j]

LEMMA FlattenKeepsOrder ==
  ASSUME NEW w \in Seq(Seq(Nat)), MailsInOrder(w)
  PROVE  \A i, j \in DOMAIN FlattenSeq(w) : i < j => FlattenSeq(w)[i] < FlattenSeq(w)[j]
<1>1. PICK g : Flattens(g, Nat, w)
  BY FlattenSteps
<1> DEFINE N == Len(w)
           Ordered(n) ==
             /\ \A i, j \in 1..Len(g[n]) : i < j => g[n][i] < g[n][j]
             /\ \A i \in 1..Len(g[n]) : \E k \in 1..n : \E j \in 1..Len(w[k]) :
                  g[n][i] = w[k][j]
           Bad == {n \in 0..N : ~Ordered(n)}
<1>2. N \in Nat
  OBVIOUS
<1>3. Ordered(0)
  BY <1>1 DEF Flattens
<1>4. ASSUME NEW n \in 1..N, Ordered(n - 1) PROVE Ordered(n)
  <2>1. g[n - 1] \in Seq(Nat) /\ w[n] \in Seq(Nat) /\ g[n] = g[n - 1] \o w[n]
    <3>1. n - 1 \in 0..N /\ w[n] \in Seq(Nat)
      BY <1>2
    <3>2. g \in [0..N -> Seq(Nat)] /\ \A m \in 1..N : g[m] = g[m - 1] \o w[m]
      BY <1>1 DEF Flattens
    <3> HIDE DEF N
    <3> QED
      BY <3>1, <3>2
  <2>2. PICK L : L = Len(g[n - 1])
    OBVIOUS
  <2>3. /\ L \in Nat /\ Len(g[n]) = L + Len(w[n]) /\ Len(w[n]) \in Nat
        /\ \A i \in 1..Len(g[n]) : g[n][i] = IF i <= L THEN g[n - 1][i] ELSE w[n][i - L]
    <3>1. PICK u \in Seq(Nat), v \in Seq(Nat) : u = g[n - 1] /\ v = w[n]
      BY <2>1
    <3>2. /\ Len(u \o v) = Len(u) + Len(v) /\ Len(u) \in Nat /\ Len(v) \in Nat
          /\ \A i \in 1..Len(u) + Len(v) :
               (u \o v)[i] = IF i <= Len(u) THEN u[i] ELSE v[i - Len(u)]
      BY ConcatProperties
    <3>3. g[n] = u \o v /\ L = Len(u) /\ Len(w[n]) = Len(v)
      BY <2>1, <2>2, <3>1
    <3>4. Len(g[n]) = L + Len(w[n]) /\ L \in Nat /\ Len(w[n]) \in Nat
      BY <3>2, <3>3
    <3>5. ASSUME NEW i \in 1..Len(g[n])
          PROVE  g[n][i] = IF i <= L THEN g[n - 1][i] ELSE w[n][i - L]
      <4>1. i \in 1..Len(u) + Len(v)
        BY <3>3, <3>4
      <4>2. (u \o v)[i] = IF i <= Len(u) THEN u[i] ELSE v[i - Len(u)]
        BY <3>2, <4>1
      <4> QED
        BY <3>1, <3>3, <4>2
    <3> QED
      BY <3>4, <3>5
  <2>4. \A i \in 1..L : \E k \in 1..n - 1 : \E j \in 1..Len(w[k]) : g[n - 1][i] = w[k][j]
    BY <1>4, <2>2
  <2>5. \A i, j \in 1..L : i < j => g[n - 1][i] < g[n - 1][j]
    BY <1>4, <2>2
  <2>6. PICK M \in Nat : M = Len(w[n])
    BY <2>3
  <2>7. PICK G : G = g[n]
    OBVIOUS
  <2>8. Len(G) = L + M /\ \A i \in 1..L + M : G[i] = IF i <= L THEN g[n - 1][i] ELSE w[n][i - L]
    BY <2>3, <2>6, <2>7
  <2>9. ASSUME NEW i \in 1..L + M, NEW j \in 1..L + M, i < j
        PROVE  G[i] < G[j]
    <3>1. CASE j <= L
      <4>1. i \in 1..L /\ j \in 1..L
        BY <2>3, <2>9, <3>1
      <4>2. G[i] = g[n - 1][i] /\ G[j] = g[n - 1][j]
        BY <2>3, <2>6, <2>8, <3>1, <4>1
      <4> QED
        BY <2>5, <2>9, <4>1, <4>2
    <3>2. CASE i <= L /\ j > L
      <4>1. i \in 1..L /\ j - L \in 1..M
        BY <2>3, <3>2
      <4>2. PICK k \in 1..n - 1 : \E m \in 1..Len(w[k]) : g[n - 1][i] = w[k][m]
        BY <2>4, <4>1
      <4>3. k \in 1..N /\ k < n
        BY <1>2
      <4>4. g[n - 1][i] < w[n][j - L]
        BY <2>6, <4>1, <4>2, <4>3 DEF MailsInOrder
      <4>5. G[i] = g[n - 1][i] /\ G[j] = w[n][j - L]
        BY <2>3, <2>6, <2>8, <3>2
      <4> QED
        BY <4>4, <4>5
    <3>3. CASE i > L
      <4>1. i - L \in 1..M /\ j - L \in 1..M /\ i - L < j - L
        BY <2>3, <2>9, <3>3
      <4>2. w[n][i - L] < w[n][j - L]
        BY <2>6, <4>1 DEF MailsInOrder
      <4>3. G[i] = w[n][i - L] /\ G[j] = w[n][j - L]
        BY <2>3, <2>8, <2>9, <3>3
      <4> QED
        BY <4>2, <4>3
    <3> QED
      BY <2>3, <3>1, <3>2, <3>3
  <2>10. ASSUME NEW i \in 1..L + M
         PROVE  \E k \in 1..n : \E j \in 1..Len(w[k]) : G[i] = w[k][j]
    <3>1. CASE i <= L
      <4>1. i \in 1..L
        BY <2>3, <3>1
      <4>2. PICK k \in 1..n - 1 : \E j \in 1..Len(w[k]) : g[n - 1][i] = w[k][j]
        BY <2>4, <4>1
      <4>3. k \in 1..n
        OBVIOUS
      <4>4. G[i] = g[n - 1][i]
        BY <2>8, <3>1
      <4> QED
        BY <4>2, <4>3, <4>4
    <3>2. CASE i > L
      <4>1. i - L \in 1..Len(w[n]) /\ G[i] = w[n][i - L] /\ n \in 1..n
        BY <2>3, <2>6, <2>8, <3>2
      <4> QED
        BY <4>1
    <3> QED
      BY <2>3, <3>1, <3>2
  <2> QED
    BY <2>7, <2>8, <2>9, <2>10
<1> HIDE DEF Ordered
<1>5. Bad = {}
  <2> SUFFICES ASSUME Bad # {} PROVE FALSE
    OBVIOUS
  <2>1. PICK m \in Bad : \A k \in Bad : m <= k
    <3>1. Bad \in SUBSET Nat /\ Bad # {}
      OBVIOUS
    <3> HIDE DEF Bad
    <3> QED
      BY <3>1, LeastExists
  <2>2. m \in 1..N /\ m - 1 \in 0..N
    BY <1>3
  <2>3. Ordered(m - 1)
    BY <2>1, <2>2
  <2> QED
    BY <1>4, <2>2, <2>3
<1>6. Ordered(N)
  BY <1>2, <1>5
<1>7. FlattenSeq(w) = g[N] /\ g[N] \in Seq(Nat)
  BY <1>1, <1>2 DEF Flattens
<1>8. DOMAIN FlattenSeq(w) = 1..Len(g[N])
  BY <1>7
<1> QED
  BY <1>6, <1>7, <1>8 DEF Ordered

(* The last line before the k-th batch.                                    *)
BatchStart(k) == IF k = 1 THEN 0 ELSE Last(batches[k - 1].lines)

(* What the batches are made of: each goes on where the one before ended.  *)
LEMMA BatchesFollow ==
  ASSUME IInv
  PROVE  /\ batches \in Seq(Batches)
         /\ \A k \in 1..Len(batches) :
              /\ batches[k].lines \in Seq(Nat)
              /\ Last(batches[k].lines) \in Nat /\ BatchStart(k) \in Nat
              /\ BatchStart(k) < Last(batches[k].lines)
              /\ \A i \in 1..Len(batches[k].lines) :
                   batches[k].lines[i] = BatchStart(k) + i
              /\ BatchStart(k) + Len(batches[k].lines) = Last(batches[k].lines)
<1>1. batches \in Seq(Batches)
  BY DEF IInv, TypeOK, Batches
<1>2. ASSUME NEW k \in 1..Len(batches)
      PROVE  /\ batches[k].lines \in Seq(Nat) /\ batches[k].lines # <<>>
             /\ Last(batches[k].lines) \in Nat
  <2>1. batches[k] \in Batches
    BY <1>1
  <2>2. batches[k].lines \in Seq(Lines) /\ batches[k].lines # <<>>
    BY <2>1 DEF Batches
  <2>3. Lines \subseteq Nat
    BY ExecAndMailAssumption DEF Lines
  <2>4. batches[k].lines \in Seq(Nat)
    BY <2>2, <2>3, SeqMonotonic
  <2> QED
    BY <2>2, <2>4 DEF Last
<1>3. ASSUME NEW k \in 1..Len(batches)
      PROVE  /\ BatchStart(k) \in Nat
             /\ batches[k].lines = [i \in 1..(Last(batches[k].lines) - BatchStart(k)) |->
                                     BatchStart(k) + i]
  <2>1. DOMAIN batches = 1..Len(batches)
    BY <1>1
  <2>2. k # 1 => k - 1 \in 1..Len(batches)
    BY <1>1
  <2> QED
    BY <1>2, <2>1, <2>2 DEF IInv, LinesInOrder, BatchStart
<1>4. ASSUME NEW k \in 1..Len(batches)
      PROVE  /\ BatchStart(k) < Last(batches[k].lines)
             /\ \A i \in 1..Len(batches[k].lines) : batches[k].lines[i] = BatchStart(k) + i
             /\ BatchStart(k) + Len(batches[k].lines) = Last(batches[k].lines)
  <2>1. PICK before : before = BatchStart(k)
    OBVIOUS
  <2>2. PICK ls : ls = batches[k].lines
    OBVIOUS
  <2>3. PICK last \in Nat : last = Last(ls)
    BY <1>2, <2>2
  <2>4. before \in Nat /\ ls = [i \in 1..(last - before) |-> before + i] /\ ls \in Seq(Nat) /\ ls # <<>>
    BY <1>2, <1>3, <2>1, <2>2, <2>3
  <2>5. before < last
    <3>1. CASE last <= before
      <4>1. 1..(last - before) = {}
        BY <2>4, <3>1
      <4>2. Len(ls) = 0
        BY <2>4, <4>1
      <4> QED
        BY <2>4, <4>2
    <3> QED
      BY <2>4, <3>1
  <2>6. Len(ls) = last - before
    BY <2>4, <2>5
  <2>7. \A i \in 1..Len(ls) : ls[i] = before + i
    BY <2>4, <2>6
  <2>8. before + Len(ls) = last
    <3>1. before \in Nat
      BY <2>4
    <3> QED
      BY <2>3, <2>6, <3>1
  <2> QED
    BY <2>1, <2>2, <2>3, <2>5, <2>7, <2>8
<1> QED
  BY <1>1, <1>2, <1>3, <1>4

(* A function that grows from each position to the next grows altogether.  *)
LEMMA StepsGrow ==
  ASSUME NEW N \in Nat, NEW f \in [1..N -> Nat], \A n \in 2..N : f[n - 1] < f[n]
  PROVE  \A k, l \in 1..N : k < l => f[k] < f[l]
<1> SUFFICES ASSUME NEW k \in 1..N PROVE \A l \in 1..N : k < l => f[k] < f[l]
  OBVIOUS
<1> DEFINE Bad == {l \in 1..N : k < l /\ ~(f[k] < f[l])}
<1>1. Bad = {}
  <2> SUFFICES ASSUME Bad # {} PROVE FALSE
    OBVIOUS
  <2>1. PICK l \in Bad : \A m \in Bad : l <= m
    <3>1. Bad \in SUBSET Nat /\ Bad # {}
      OBVIOUS
    <3> HIDE DEF Bad
    <3> QED
      BY <3>1, LeastExists
  <2>2. l \in 2..N /\ l - 1 \in 1..N /\ f[l - 1] < f[l] /\ f[l - 1] \in Nat /\ f[l] \in Nat /\ f[k] \in Nat
    OBVIOUS
  <2>3. l - 1 = k \/ f[k] < f[l - 1]
    BY <2>1, <2>2
  <2> QED
    BY <2>2, <2>3
<1> QED
  BY <1>1

(* No line of a batch comes after a line of a later one, and the lines of  *)
(* the buffer come after them all.                                         *)
LEMMA BatchesInOrder ==
  ASSUME IInv
  PROVE  /\ \A k \in 1..Len(batches) : \A i, j \in 1..Len(batches[k].lines) :
              i < j => batches[k].lines[i] < batches[k].lines[j]
         /\ \A k, l \in 1..Len(batches) : k < l =>
              \A i \in 1..Len(batches[k].lines), j \in 1..Len(batches[l].lines) :
                batches[k].lines[i] < batches[l].lines[j]
         /\ \A k \in 1..Len(batches) : \A i \in 1..Len(batches[k].lines) :
              batches[k].lines[i] <= HandedUpTo
<1> DEFINE N == Len(batches)
           f == [k \in 1..N |-> Last(batches[k].lines)]
<1>1. /\ N \in Nat
      /\ \A k \in 1..N :
           /\ Last(batches[k].lines) \in Nat /\ BatchStart(k) \in Nat
           /\ BatchStart(k) < Last(batches[k].lines)
           /\ Len(batches[k].lines) \in Nat
           /\ \A i \in 1..Len(batches[k].lines) : batches[k].lines[i] = BatchStart(k) + i
           /\ BatchStart(k) + Len(batches[k].lines) = Last(batches[k].lines)
  <2>1. batches \in Seq(Batches)
    BY BatchesFollow
  <2>2. N \in Nat
    BY <2>1
  <2>3. \A k \in 1..N : batches[k].lines \in Seq(Nat)
    BY BatchesFollow
  <2> QED
    BY <2>2, <2>3, BatchesFollow
<1>2. \A k, l \in 1..N : k < l => f[k] < f[l]
  <2>1. f \in [1..N -> Nat]
    BY <1>1
  <2>2. ASSUME NEW n \in 2..N PROVE f[n - 1] < f[n]
    <3>1. n \in 1..N /\ n - 1 \in 1..N /\ n # 1
      BY <1>1
    <3>2. BatchStart(n) = f[n - 1] /\ f[n] = Last(batches[n].lines)
      BY <3>1 DEF BatchStart
    <3> QED
      BY <1>1, <3>1, <3>2
  <2> HIDE DEF f, N
  <2> QED
    BY <1>1, <2>1, <2>2, StepsGrow
<1>3. ASSUME NEW k \in 1..N, NEW l \in 1..N, k <= l,
             NEW i \in 1..Len(batches[k].lines)
      PROVE  batches[k].lines[i] <= Last(batches[l].lines) /\ batches[k].lines[i] \in Nat
  <2>1. batches[k].lines[i] <= f[k] /\ batches[k].lines[i] \in Nat
    BY <1>1
  <2>2. f[k] <= f[l] /\ f[k] \in Nat /\ f[l] \in Nat
    <3>1. f[k] \in Nat /\ f[l] \in Nat
      BY <1>1
    <3>2. k = l \/ k < l
      BY <1>1, <1>3
    <3> HIDE DEF f
    <3> QED
      BY <1>2, <3>1, <3>2
  <2>3. f[l] = Last(batches[l].lines)
    OBVIOUS
  <2> HIDE DEF f
  <2> QED
    BY <2>1, <2>2, <2>3
<1>4. ASSUME NEW k \in 1..N, NEW l \in 1..N, k < l,
             NEW i \in 1..Len(batches[k].lines), NEW j \in 1..Len(batches[l].lines)
      PROVE  batches[k].lines[i] < batches[l].lines[j]
  <2>1. l - 1 \in 1..N /\ k <= l - 1 /\ l # 1
    BY <1>1, <1>4
  <2>2. batches[k].lines[i] <= BatchStart(l) /\ batches[k].lines[i] \in Nat
    BY <1>3, <2>1 DEF BatchStart
  <2>3. /\ batches[l].lines[j] > BatchStart(l)
        /\ batches[l].lines[j] \in Nat /\ BatchStart(l) \in Nat
    <3>1. PICK b : b = BatchStart(l) /\ b \in Nat
      BY <1>1
    <3>2. batches[l].lines[j] = b + j /\ j \in Nat /\ j >= 1
      BY <1>1, <3>1
    <3> QED
      BY <3>1, <3>2
  <2> HIDE DEF f, N
  <2> QED
    BY <2>2, <2>3
<1>5. ASSUME NEW k \in 1..N, NEW i \in 1..Len(batches[k].lines)
      PROVE  batches[k].lines[i] <= HandedUpTo
  <2>1. batches # <<>> /\ N \in 1..N /\ k <= N
    BY <1>1, BatchesFollow
  <2>2. HandedUpTo = Last(batches[N].lines)
    BY <2>1 DEF HandedUpTo, Last
  <2> HIDE DEF N
  <2> QED
    BY <1>3, <2>1, <2>2
<1>6. ASSUME NEW k \in 1..N, NEW i \in 1..Len(batches[k].lines),
             NEW j \in 1..Len(batches[k].lines), i < j
      PROVE  batches[k].lines[i] < batches[k].lines[j]
  BY <1>1, <1>6
<1> QED
  BY <1>4, <1>5, <1>6

(* Whatever the server's answers become, the lines in the mails it took    *)
(* are in the order in which they were printed, each at most once          *)
(* (handle_data frees a batch whatever send_buffer returned).              *)
THEOREM MailedOnceInOrder == SpecSmtp => []MailedAtMostOnceInOrder
<1>1. ASSUME MailInv, IInv PROVE MailedAtMostOnceInOrder
  <2>1. batches \in Seq(Batches)
    BY <1>1, BatchesFollow
  <2>2. PICK e : Embeds(e, Filter(batches, AcceptedBatches), batches, AcceptedBatches)
    BY <2>1, FilterEmbeds
  <2> DEFINE w == Filter(batches, AcceptedBatches)
             done == AcceptedMails(batches)
             n == Len(w)
  <2>3. w \in Seq(Batches) /\ n \in Nat
    BY <2>1, FilterType
  <2>4. /\ e \in [1..n -> 1..Len(batches)]
        /\ \A j, k \in 1..n : j < k => e[j] < e[k]
        /\ \A k \in 1..n : w[k] = batches[e[k]]
    BY <2>2 DEF Embeds
  <2>5. /\ done \in Seq(Seq(Lines)) /\ Len(done) = n
        /\ \A k \in 1..n : done[k] = w[k].lines
    BY <2>3, LinesOfBatches DEF AcceptedMails
  <2>6. \A k \in 1..n : done[k] = batches[e[k]].lines
    BY <2>4, <2>5
  <2>7. Lines \subseteq Nat /\ buffer \in Seq(Lines)
    BY <1>1, ExecAndMailAssumption DEF IInv, TypeOK, Lines
  <2> HIDE DEF w, done, n
  <2>8. MailsInOrder(done)
    <3>1. ASSUME NEW k \in 1..n, NEW i \in 1..Len(done[k]), NEW j \in 1..Len(done[k]), i < j
          PROVE  done[k][i] < done[k][j]
      <4>1. e[k] \in 1..Len(batches) /\ done[k] = batches[e[k]].lines
        BY <2>4, <2>6
      <4> QED
        BY <1>1, <3>1, <4>1, BatchesInOrder
    <3>2. ASSUME NEW k \in 1..n, NEW l \in 1..n, k < l,
                 NEW i \in 1..Len(done[k]), NEW j \in 1..Len(done[l])
          PROVE  done[k][i] < done[l][j]
      <4>1. /\ e[k] \in 1..Len(batches) /\ done[k] = batches[e[k]].lines
            /\ e[l] \in 1..Len(batches) /\ done[l] = batches[e[l]].lines
            /\ e[k] < e[l]
        BY <2>4, <2>6, <3>2
      <4> QED
        BY <1>1, <3>2, <4>1, BatchesInOrder
    <3> QED
      BY <2>5, <3>1, <3>2 DEF MailsInOrder
  <2>9. done \in Seq(Seq(Nat))
    <3>1. Seq(Lines) \subseteq Seq(Nat)
      BY <2>7, SeqMonotonic
    <3> QED
      BY <2>5, <3>1, SeqMonotonic
  <2>10. CASE mailbox = done
    <3> QED
      BY <2>8, <2>9, <2>10, FlattenKeepsOrder DEF MailedAtMostOnceInOrder
  <2>11. CASE mailbox = Append(done, buffer)
    <3>1. PICK b \in Seq(Nat) : b = buffer
      BY <2>7, SeqMonotonic
    <3>2. /\ Append(done, b) \in Seq(Seq(Nat)) /\ Len(Append(done, b)) = n + 1
          /\ Append(done, b)[n + 1] = b
          /\ \A k \in 1..n : Append(done, b)[k] = done[k]
      BY <2>5, <2>9, AppendProperties
    <3>3. PICK u \in Seq(Seq(Nat)) : u = Append(done, b)
      BY <3>2
    <3>4. HandedUpTo \in Nat /\ Len(b) \in Nat /\ \A i \in 1..Len(b) : b[i] = HandedUpTo + i
      BY <1>1, <3>1, BufferByElements DEF IInv, HandedWereAppended
    <3>5. ASSUME NEW k \in 1..n, NEW i \in 1..Len(done[k]), NEW j \in 1..Len(b)
          PROVE  done[k][i] < b[j]
      <4>1. e[k] \in 1..Len(batches) /\ done[k] = batches[e[k]].lines
        BY <2>4, <2>6
      <4>2. done[k][i] <= HandedUpTo
        BY <1>1, <4>1, BatchesInOrder
      <4>3. done[k] \in Seq(Nat)
        BY <2>5, <2>9
      <4>4. done[k][i] \in Nat
        BY <4>3
      <4> QED
        BY <3>4, <4>2, <4>4
    <3>6. MailsInOrder(u)
      <4>1. \A k \in 1..Len(u) : k \in 1..n \/ k = n + 1
        BY <2>3, <3>2, <3>3
      <4>2. \A k \in 1..Len(u) : \A i, j \in 1..Len(u[k]) : i < j => u[k][i] < u[k][j]
        <5> SUFFICES ASSUME NEW k \in 1..Len(u), NEW i \in 1..Len(u[k]), NEW j \in 1..Len(u[k]),
                            i < j
                     PROVE  u[k][i] < u[k][j]
          OBVIOUS
        <5>1. CASE k = n + 1
          <6>1. u[k] = b /\ i \in Nat /\ j \in Nat
            BY <3>2, <3>3, <5>1
          <6> QED
            BY <3>4, <6>1
        <5>2. CASE k \in 1..n
          BY <2>5, <2>8, <3>2, <3>3, <5>2 DEF MailsInOrder
        <5> QED
          BY <4>1, <5>1, <5>2
      <4>3. ASSUME NEW k \in 1..Len(u), NEW l \in 1..Len(u), k < l,
                   NEW i \in 1..Len(u[k]), NEW j \in 1..Len(u[l])
            PROVE  u[k][i] < u[l][j]
        <5>1. k \in 1..n
          BY <2>3, <3>2, <3>3, <4>3
        <5>2. CASE l = n + 1
          BY <3>2, <3>3, <3>5, <5>1, <5>2
        <5>3. CASE l \in 1..n
          BY <2>5, <2>8, <3>2, <3>3, <4>3, <5>1, <5>3 DEF MailsInOrder
        <5> QED
          BY <4>1, <5>2, <5>3
      <4> QED
        BY <4>2, <4>3 DEF MailsInOrder
    <3>7. mailbox = u
      BY <2>11, <3>1, <3>3
    <3> QED
      BY <3>6, <3>7, FlattenKeepsOrder DEF MailedAtMostOnceInOrder
  <2> QED
    BY <1>1, <2>10, <2>11 DEF MailInv, done
<1> QED
  BY <1>1, MailInvariance, PTL
=============================================================================
