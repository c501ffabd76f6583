------------------------------ MODULE HostWatch ------------------------------
(***************************************************************************)
(* src/hostwatch.c: the main thread reads packets from tcpdump and counts  *)
(* their bytes per pair of hosts; create_out drops what is older than the  *)
(* timespan, sorts the pairs and writes the first of them to the list out. *)
(* On a terminal main calls it every few seconds; as a server (-s) the     *)
(* accept thread calls it for every client, and sends the list with        *)
(* update_data_mutex held.                                                 *)
(*                                                                         *)
(* A packet is a pair of addresses and a length, as they are after the     *)
(* line was parsed and the ports were stripped.                            *)
(***************************************************************************)
EXTENDS Integers, Sequences, FiniteSets, SequencesExt, SeqFilter

CONSTANTS
  Hosts, Lengths,
  timespan_seconds, print_interval_seconds, print_max_items,
  MaxPackets,    (* bound: packets tcpdump prints            *)
  MaxTime        (* bound: the last second of the clock      *)

ASSUME HostWatchAssumption ==
  /\ Lengths \subseteq Nat
  /\ {timespan_seconds, print_interval_seconds, print_max_items} \subseteq Nat
  /\ {MaxPackets, MaxTime} \subseteq Nat

VARIABLES
  now,               (* the clock time() reads                                *)
  ignore_direction,  (* option -x                                             *)
  pc,                (* where main and the accept thread ("off" without -s)   *)
                     (* stand                                                 *)
  packet,            (* main's locals: the packet it parsed, and `now'        *)
  update_data_mutex, (* the thread between create_out's first step and its    *)
                     (* unlock, or NoThread                                   *)
  data,              (* the host_data items in order                          *)
  out,               (* the list of rows, and when and of how many packets it *)
                     (* was made                                              *)
  last_print_data,
  seen               (* history: the packets counted so far                   *)

vars == <<now, ignore_direction, pc, packet, update_data_mutex, data, out,
          last_print_data, seen>>

Threads  == {"main", "server"}
NoThread == "none"
Packets  == [a : Hosts, b : Hosts, bytes : Lengths, ts : Nat]
NoPacket == [a |-> "none", b |-> "none", bytes |-> 0, ts |-> 0]

(* The epoch is long ago: the first packet is always time to print.        *)
StartTime == print_interval_seconds + 1

IsServer == pc["server"] # "off"
Running  == pc["main"] # "exited"

GoTo(t, p) == pc' = [pc EXCEPT ![t] = p]

-----------------------------------------------------------------------------
Init ==
  /\ now = StartTime
  /\ ignore_direction \in BOOLEAN
  /\ pc \in {[main |-> "read", server |-> s] : s \in {"off", "accept"}}
  /\ packet = NoPacket
  /\ update_data_mutex = NoThread
  /\ data = <<>>
  /\ out = [ts |-> 0, upto |-> 0, rows |-> <<>>, total |-> 0]
  /\ last_print_data = 0
  /\ seen = <<>>

-----------------------------------------------------------------------------
SumOf(counts) ==
  LET upto[n \in 0..Len(counts)] == IF n = 0 THEN 0 ELSE upto[n - 1] + counts[n].bytes
  IN  upto[Len(counts)]

(* Mutant: an entry as old as the cutoff goes as well.                     *)
FreshTooFew(counts, before) == SelectInSeq(counts, LAMBDA c : c.ts > before)

(* The first entry that is not older than `before'; 0 if there is none.    *)
Fresh(counts, before) == SelectInSeq(counts, LAMBDA c : c.ts >= before)

(* remove_byte_count_before: entries go from the front of the list, up to  *)
(* the first that is fresh.                                                *)
DropBefore(counts, before) ==
  IF Fresh(counts, before) = 0 THEN <<>>
  ELSE SubSeq(counts, Fresh(counts, before), Len(counts))

(* Mutant: byte_sum is not brought up to date.                             *)
CleanedKeepsSum(item, before) ==
  [item EXCEPT !.counts = DropBefore(@, before)]

(* cleanup_host_data for one item.                                         *)
Cleaned(item, before) ==
  LET counts == DropBefore(item.counts, before)
  IN  IF counts = item.counts THEN item
      ELSE [item EXCEPT !.counts = counts, !.sum = SumOf(counts)]

(* compare: more bytes go first.                                           *)
Above(x, y) == x.sum > y.sum

INSTANCE Ranking

(* Mutant: -x is not looked at.                                            *)
IndexOfDirected(a, b) == SelectInSeq(data, LAMBDA x : x.a = a /\ x.b = b)

(* find_item, for the packet as it is and with -x the other way round; 0   *)
(* if there is no such item.                                               *)
IndexOf(a, b) ==
  LET found == SelectInSeq(data, LAMBDA x : x.a = a /\ x.b = b)
  IN  IF found # 0 \/ ~ignore_direction THEN found
      ELSE SelectInSeq(data, LAMBDA x : x.a = b /\ x.b = a)

-----------------------------------------------------------------------------
Tick ==
  /\ Running
  /\ now < MaxTime
  /\ now' = now + 1
  /\ UNCHANGED <<ignore_direction, pc, packet, update_data_mutex, data, out,
                 last_print_data, seen>>

(* fgets yields a packet; main looks at the clock before it takes the      *)
(* mutex.                                                                  *)
ReadPacket ==
  /\ pc["main"] = "read"
  /\ Len(seen) < MaxPackets
  /\ \E a, b \in Hosts, bytes \in Lengths :
       packet' = [a |-> a, b |-> b, bytes |-> bytes, ts |-> now]
  /\ GoTo("main", "update")
  /\ UNCHANGED <<now, ignore_direction, update_data_mutex, data, out,
                 last_print_data, seen>>

(* tcpdump ends: main returns, and the process ends.                       *)
ReadEnds ==
  /\ pc["main"] = "read"
  /\ GoTo("main", "exited")
  /\ UNCHANGED <<now, ignore_direction, packet, update_data_mutex, data, out,
                 last_print_data, seen>>

(* create_item.                                                            *)
NewItem(a, b) == [a |-> a, b |-> b, counts |-> <<>>, sum |-> 0]

(* add_bytes, to the list of counts of the packet's item.                  *)
AddBytes(counts) == Append(counts, [bytes |-> packet.bytes, ts |-> packet.ts])

(* The item of the packet after the packet was counted.                    *)
Counted(item) ==
  LET counts == AddBytes(DropBefore(item.counts, packet.ts - timespan_seconds))
  IN  [item EXCEPT !.counts = counts, !.sum = SumOf(counts)]

PrintDue == ~IsServer /\ packet.ts - last_print_data > print_interval_seconds

(* Mutant: main does not wait for the mutex.                               *)
CountPacketUnlocked ==
  /\ pc["main"] = "update"
  /\ LET i == IndexOf(packet.a, packet.b)
     IN  data' = IF i = 0 THEN Append(data, Counted(NewItem(packet.a, packet.b)))
                 ELSE [data EXCEPT ![i] = Counted(@)]
  /\ seen' = Append(seen, packet)
  /\ GoTo("main", IF PrintDue THEN "create_out" ELSE "read")
  /\ UNCHANGED <<now, ignore_direction, packet, update_data_mutex, out,
                 last_print_data>>

(* Main's critical section: the packet is counted in the item of its pair, *)
(* which is created at the end of the list if there is none.               *)
CountPacket ==
  /\ pc["main"] = "update"
  /\ update_data_mutex = NoThread
  /\ LET i == IndexOf(packet.a, packet.b)
     IN  data' = IF i = 0 THEN Append(data, Counted(NewItem(packet.a, packet.b)))
                 ELSE [data EXCEPT ![i] = Counted(@)]
  /\ seen' = Append(seen, packet)
  /\ GoTo("main", IF PrintDue THEN "create_out" ELSE "read")
  /\ UNCHANGED <<now, ignore_direction, packet, update_data_mutex, out,
                 last_print_data>>

-----------------------------------------------------------------------------
(* accept returned a client; its request is read with no mutex held.       *)
Accept ==
  /\ Running /\ pc["server"] = "accept"
  /\ GoTo("server", "request")
  /\ UNCHANGED <<now, ignore_direction, packet, update_data_mutex, data, out,
                 last_print_data, seen>>

(* init_response read the end of the request and answered it, or the       *)
(* connection failed.                                                      *)
ReadRequest ==
  /\ Running /\ pc["server"] = "request"
  /\ GoTo("server", "create_out") \/ GoTo("server", "accept")
  /\ UNCHANGED <<now, ignore_direction, packet, update_data_mutex, data, out,
                 last_print_data, seen>>

(* create_out, first half: under the mutex, read the clock, drop what is   *)
(* too old and sort.  The old list is gone.                                *)
CleanAndSort(t) ==
  /\ Running /\ pc[t] = "create_out"
  /\ update_data_mutex = NoThread
  /\ update_data_mutex' = t
  /\ data' = StableSort([i \in DOMAIN data |-> Cleaned(data[i], now - timespan_seconds)])
  /\ out' = [ts |-> now, upto |-> 0, rows |-> <<>>, total |-> 0]
  /\ GoTo(t, "write")
  /\ UNCHANGED <<now, ignore_direction, packet, last_print_data, seen>>

(* create_out, second half: the header, one row for each of the first      *)
(* print_max_items items, and the count of all items.                      *)
WriteOut(t) ==
  /\ Running /\ pc[t] = "write"
  /\ LET shown == IF Len(data) < print_max_items THEN Len(data) ELSE print_max_items
         row(x) == [a |-> x.a, b |-> x.b, bytes |-> x.sum, packets |-> Len(x.counts)]
     IN  out' = [ts |-> out.ts, upto |-> Len(seen),
                 rows |-> [k \in 1..shown |-> row(data[k])], total |-> Len(data)]
  /\ GoTo(t, "show")
  /\ UNCHANGED <<now, ignore_direction, packet, update_data_mutex, data,
                 last_print_data, seen>>

(* Mutant: what the client did not take is sent again until it does.      *)
ShowOutRetries(t) ==
  /\ Running /\ pc[t] = "show"
  /\ IF t = "server" THEN UNCHANGED vars
     ELSE /\ update_data_mutex' = NoThread
          /\ last_print_data' = packet.ts
          /\ GoTo(t, "read")
          /\ UNCHANGED <<now, ignore_direction, packet, data, out, seen>>

(* The list was printed, or sent to the client (or as much of it as the    *)
(* client took: a failed send is ignored); the mutex is free again.        *)
ShowOut(t) ==
  /\ Running /\ pc[t] = "show"
  /\ update_data_mutex' = NoThread
  /\ IF t = "main"
     THEN last_print_data' = packet.ts /\ GoTo(t, "read")
     ELSE UNCHANGED last_print_data /\ GoTo(t, "accept")
  /\ UNCHANGED <<now, ignore_direction, packet, data, out, seen>>

Exited == pc["main"] = "exited" /\ UNCHANGED vars

-----------------------------------------------------------------------------
CreateOut(t) == CleanAndSort(t) \/ WriteOut(t) \/ ShowOut(t)

Next ==
  \/ Tick \/ ReadPacket \/ ReadEnds \/ CountPacket \/ Accept \/ ReadRequest
  \/ \E t \in Threads : CreateOut(t)
  \/ Exited

Spec == Init /\ [][Next]_vars

(* A thread that can run runs, and a client takes its answer or is gone;   *)
(* there is no timeout on a send.  Nothing is assumed of tcpdump, of new   *)
(* clients, or of clients that do not send a request.                      *)
Fairness ==
  /\ WF_vars(CountPacket)
  /\ \A t \in Threads : WF_vars(CreateOut(t))

FairSpec == Spec /\ Fairness

-----------------------------------------------------------------------------
(* Whose packet it is: the pair of an item and, with -x, the reverse.      *)
IsOf(p, x) == \/ p.a = x.a /\ p.b = x.b
              \/ ignore_direction /\ p.a = x.b /\ p.b = x.a

(* Each packet belongs to one item: no two items are of the same pair,     *)
(* with -x not even of a pair and its reverse (find_item, create_item).    *)
PairsUnique ==
  \A i, j \in DOMAIN data : i # j => ~IsOf(data[j], data[i])

(* byte_sum, which is kept beside the list of counts it is the sum of, is  *)
(* up to date at every step (update_bytes_sum).                            *)
SumsUpToDate == \A i \in DOMAIN data : data[i].sum = SumOf(data[i].counts)

(* The packets of x among the first n, not older than `from'.              *)
Window(x, n, from) ==
  Filter(SubSeq(seen, 1, n), {p \in Packets : p.ts >= from /\ IsOf(p, x)})

(* README: "Counts bytes transferred between two hosts and shows a sorted  *)
(* table".  What is shown is exact: every row holds the bytes and packets  *)
(* of its pair of the last timespan_seconds, as of the moment create_out   *)
(* looked at the clock; rows are in order; and every other pair has no     *)
(* more bytes than any row.                                                *)
TableIsExact ==
  out.upto > 0 =>
    LET from == out.ts - timespan_seconds
        rows == out.rows
        win(x) == Window(x, out.upto, from)
    IN  /\ \A k \in DOMAIN rows : /\ rows[k].bytes = SumOf(win(rows[k]))
                                  /\ rows[k].packets = Len(win(rows[k]))
        /\ \A k, l \in DOMAIN rows : k < l => rows[k].bytes >= rows[l].bytes
        /\ Len(rows) = IF out.total < print_max_items THEN out.total ELSE print_max_items
        /\ \A n \in 1..out.upto :
             \/ \E k \in DOMAIN rows : IsOf(seen[n], rows[k])
             \/ /\ Len(rows) = print_max_items
                /\ \A k \in DOMAIN rows : SumOf(win(seen[n])) <= rows[k].bytes

(* A packet main has read is counted in the end: a client that is being    *)
(* answered with the mutex held delays the counting but does not stop it,  *)
(* unless there is always another client, who may each time be faster than *)
(* main.                                                                   *)
PacketsAreCounted ==
  \/ []<><<Accept>>_vars
  \/ (pc["main"] = "update") ~> (pc["main"] # "update")
=============================================================================
