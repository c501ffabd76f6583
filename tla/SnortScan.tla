------------------------------ MODULE SnortScan ------------------------------
(***************************************************************************)
(* src/snort-scan-util.c: the main thread reads alerts from snort and      *)
(* counts them per pair of hosts.  After each alert it drops what is older *)
(* than the timespan, sorts the pairs and makes the list out anew, all     *)
(* with update_data_mutex held.  On a terminal it then prints the list; as *)
(* a server (-s) the accept thread sends the list, as it is, to clients.   *)
(*                                                                         *)
(* An alert is a pair of hosts and a priority, as they are after the line  *)
(* was parsed; protocol and message only travel along.                     *)
(***************************************************************************)
EXTENDS Integers, Sequences, FiniteSets, SequencesExt, SeqFilter

CONSTANTS
  Pairs,         (* source and destination of an alert               *)
  Prios,         (* priorities, 1 is the most severe                 *)
  PrioWeight,    (* what one priority counts in hits: 10000          *)
  timespan_seconds, print_max_items,
  MaxEvents,     (* bound: alerts snort prints                       *)
  MaxTime        (* bound: the last second of the clock              *)

ASSUME SnortScanAssumption ==
  /\ Prios \subseteq Nat
  /\ {PrioWeight, timespan_seconds, print_max_items, MaxEvents, MaxTime} \subseteq Nat

VARIABLES
  now,               (* the clock time() reads                                *)
  pc,                (* where main and the accept thread ("off" without -s)   *)
                     (* stand                                                 *)
  event,             (* main's locals: the alert it parsed, and `now'         *)
  update_data_mutex, (* the thread that prints or sends, or NoThread          *)
  data,              (* the event_data items in order                         *)
  out,               (* the list of rows, and of how many alerts it was made  *)
  seen               (* history: the alerts counted so far                    *)

vars == <<now, pc, event, update_data_mutex, data, out, seen>>

Threads  == {"main", "server"}
NoThread == "none"
Events   == [pair : Pairs, prio : Prios, ts : Nat]
NoEvent  == [pair |-> "none", prio |-> 99, ts |-> 0]

IsServer == pc["server"] # "off"
Running  == pc["main"] # "exited"

GoTo(t, p) == pc' = [pc EXCEPT ![t] = p]

-----------------------------------------------------------------------------
Init ==
  /\ now = 0
  /\ pc \in {[main |-> "read", server |-> s] : s \in {"off", "accept"}}
  /\ event = NoEvent
  /\ update_data_mutex = NoThread
  /\ data = <<>>
  /\ out = [upto |-> 0, rows |-> <<>>, total |-> 0]
  /\ seen = <<>>

-----------------------------------------------------------------------------
(* The hit_count list without its entries in front that are older than     *)
(* `before'.  Each entry is one hit and is told by its time.               *)
DropBefore(hits, before) ==
  LET fresh == SelectInSeq(hits, LAMBDA ts : ts >= before)
  IN  IF fresh = 0 THEN <<>> ELSE SubSeq(hits, fresh, Len(hits))

(* Mutant: the list at which the walk ends is freed as a whole.            *)
RemoveHitCountBeforeAll(items, before) ==
  LET fresh == SelectInSeq(items, LAMBDA x : DropBefore(x.hits, before) # <<>>)
  IN  [i \in DOMAIN items |->
         IF i <= fresh THEN [items[i] EXCEPT !.hits = <<>>] ELSE items[i]]

(* remove_hit_count_before: the items are walked in order, and the walk    *)
(* ends at the first fresh hit there is; what lies behind is not looked at.*)
RemoveHitCountBefore(items, before) ==
  LET fresh == SelectInSeq(items, LAMBDA x : DropBefore(x.hits, before) # <<>>)
  IN  [i \in DOMAIN items |->
         IF fresh = 0 \/ i <= fresh
         THEN [items[i] EXCEPT !.hits = DropBefore(@, before)]
         ELSE items[i]]

(* sum_hits: every entry counts one hit.                                   *)
SumHits(x) == Len(x.hits)

Score(x) == x.prio * PrioWeight + SumHits(x)

(* Mutant: the comparison the other way round.                             *)
AboveDescending(x, y) == Score(x) > Score(y)

(* compare: the lower score goes first.                                    *)
Above(x, y) == Score(x) < Score(y)

INSTANCE Ranking

(* find_item; 0 if there is none.                                          *)
IndexOf(pair) == SelectInSeq(data, LAMBDA x : x.pair = pair)

Min2(m, n) == IF m < n THEN m ELSE n

(* create_out: one row for each of the first print_max_items items, and    *)
(* the count of all.                                                       *)
OutOf(items, upto) ==
  [upto  |-> upto,
   rows  |-> [k \in 1..Min2(Len(items), print_max_items) |->
                [pair |-> items[k].pair, prio |-> items[k].prio,
                 hits |-> SumHits(items[k])]],
   total |-> Len(items)]

-----------------------------------------------------------------------------
Tick ==
  /\ Running
  /\ now < MaxTime
  /\ now' = now + 1
  /\ UNCHANGED <<pc, event, update_data_mutex, data, out, seen>>

(* fgets yields an alert; main looks at the clock before it takes the      *)
(* mutex.                                                                  *)
ReadEvent ==
  /\ pc["main"] = "read"
  /\ Len(seen) < MaxEvents
  /\ \E pair \in Pairs, prio \in Prios :
       event' = [pair |-> pair, prio |-> prio, ts |-> now]
  /\ GoTo("main", "update")
  /\ UNCHANGED <<now, update_data_mutex, data, out, seen>>

(* snort ends: main returns, and the process ends.                         *)
ReadEnds ==
  /\ pc["main"] = "read"
  /\ GoTo("main", "exited")
  /\ UNCHANGED <<now, event, update_data_mutex, data, out, seen>>

(* create_item; its priority is set at once.                               *)
NewItem == [pair |-> event.pair, prio |-> event.prio, hits |-> <<>>]

(* The items with that of the alert found, or created at the end, and its  *)
(* priority set.                                                           *)
WithItem ==
  LET i == IndexOf(event.pair)
  IN  IF i = 0 THEN Append(data, NewItem)
      ELSE [data EXCEPT ![i].prio = event.prio]

(* add_hit to the item of the alert.                                       *)
AddHit(items) ==
  [i \in DOMAIN items |-> IF items[i].pair = event.pair
                          THEN [items[i] EXCEPT !.hits = Append(@, event.ts)]
                          ELSE items[i]]

(* Mutant: main does not wait for the mutex.                               *)
UpdateUnlocked ==
  /\ pc["main"] = "update"
  /\ data' = StableSort(AddHit(RemoveHitCountBefore(WithItem, event.ts - timespan_seconds)))
  /\ seen' = Append(seen, event)
  /\ out' = OutOf(data', Len(seen'))
  /\ GoTo("main", IF IsServer THEN "read" ELSE "print")
  /\ UNCHANGED <<now, event, update_data_mutex>>

(* Main's critical section.                                                *)
Update ==
  /\ pc["main"] = "update"
  /\ update_data_mutex = NoThread
  /\ data' = StableSort(AddHit(RemoveHitCountBefore(WithItem, event.ts - timespan_seconds)))
  /\ seen' = Append(seen, event)
  /\ out' = OutOf(data', Len(seen'))
  /\ GoTo("main", IF IsServer THEN "read" ELSE "print")
  /\ UNCHANGED <<now, event, update_data_mutex>>

(* print_data, on a terminal.                                              *)
PrintData ==
  /\ pc["main"] = "print"
  /\ update_data_mutex = NoThread
  /\ GoTo("main", "read")
  /\ UNCHANGED <<now, event, update_data_mutex, data, out, seen>>

-----------------------------------------------------------------------------
(* accept returned a client; its request is read with no mutex held.       *)
Accept ==
  /\ Running /\ pc["server"] = "accept"
  /\ GoTo("server", "request")
  /\ UNCHANGED <<now, event, update_data_mutex, data, out, seen>>

(* init_response failed: the client gets nothing.                          *)
RequestFails ==
  /\ Running /\ pc["server"] = "request"
  /\ GoTo("server", "accept")
  /\ UNCHANGED <<now, event, update_data_mutex, data, out, seen>>

(* The request was read and answered; the list is sent with the mutex      *)
(* held, row after row, until the client has taken it or is gone.          *)
BeginSend ==
  /\ Running /\ pc["server"] = "request"
  /\ update_data_mutex = NoThread
  /\ update_data_mutex' = "server"
  /\ GoTo("server", "send")
  /\ UNCHANGED <<now, event, data, out, seen>>

EndSend ==
  /\ Running /\ pc["server"] = "send"
  /\ update_data_mutex' = NoThread
  /\ GoTo("server", "accept")
  /\ UNCHANGED <<now, event, data, out, seen>>

Exited == pc["main"] = "exited" /\ UNCHANGED vars

Next ==
  \/ Tick \/ ReadEvent \/ ReadEnds \/ Update \/ PrintData
  \/ Accept \/ RequestFails \/ BeginSend \/ EndSend \/ Exited

Spec == Init /\ [][Next]_vars

-----------------------------------------------------------------------------
(* The alerts of a pair among those counted.                               *)
AlertsOf(pair) == Filter(seen, {e \in Events : e.pair = pair})

(* No hit is lost or counted twice, however often the items were cleaned   *)
(* and moved about: every pair that was seen has one item, with the        *)
(* priority of its latest alert, and its hit_count is the end of the       *)
(* sequence of its alerts, with at least all those of the timespan.        *)
HitsAccountedFor ==
  /\ \A n \in DOMAIN seen : \E i \in DOMAIN data : data[i].pair = seen[n].pair
  /\ \A i \in DOMAIN data :
       LET alerts == AlertsOf(data[i].pair)
           times  == [n \in DOMAIN alerts |-> alerts[n].ts]
       IN  /\ \A j \in DOMAIN data : data[j].pair = data[i].pair => i = j
           /\ alerts # <<>> /\ data[i].prio = alerts[Len(alerts)].prio
           /\ IsSuffix(data[i].hits, times)
           /\ IsSuffix(DropBefore(times, seen[Len(seen)].ts - timespan_seconds),
                       data[i].hits)

(* What a pair is sorted by: the priority of its latest alert, then the   *)
(* hits of its item.                                                       *)
ScoreNow(pair) ==
  LET alerts == AlertsOf(pair)
      i == CHOOSE i \in DOMAIN data : data[i].pair = pair
  IN  alerts[Len(alerts)].prio * PrioWeight + Len(data[i].hits)

(* What the accept thread sends was made by main, at some earlier time,    *)
(* from the items: it is never behind them, and it lists the severe pairs  *)
(* first.  A pair stands below a less severe one only if it has so many    *)
(* more hits that they outweigh its priority; no pair left out would       *)
(* belong above one that is shown.                                         *)
OutIsCurrent ==
  /\ out.upto = Len(seen)
  /\ out.total = Cardinality({seen[n].pair : n \in DOMAIN seen})
  /\ Len(out.rows) = Min2(out.total, print_max_items)
  /\ \A k \in DOMAIN out.rows :
       /\ \A l \in DOMAIN out.rows :
            k < l => /\ out.rows[k].pair # out.rows[l].pair
                     /\ ScoreNow(out.rows[k].pair) <= ScoreNow(out.rows[l].pair)
       /\ \A n \in DOMAIN seen :
            \/ \E l \in DOMAIN out.rows : out.rows[l].pair = seen[n].pair
            \/ ScoreNow(out.rows[k].pair) <= ScoreNow(seen[n].pair)

(* A client is sent one list: main makes no new one, which would free the  *)
(* rows the accept thread is walking, while they are sent.                 *)
ListStaysWhileSent == [][update_data_mutex = "server" => out' = out]_vars

(* README, option t: "Timespan in seconds to be observed", and the comment *)
(* at remove_hit_count_before's early return, "items appear in order, it   *)
(* is safe to exit".  No row counts a hit that is older than the timespan  *)
(* was when the list was made.                                             *)
TimespanObserved ==
  \A k \in DOMAIN out.rows :
    LET from == seen[out.upto].ts - timespan_seconds
    IN  out.rows[k].hits <=
          Len(SelectSeq(seen, LAMBDA e : e.pair = out.rows[k].pair /\ e.ts >= from))
=============================================================================
