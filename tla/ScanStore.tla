------------------------------ MODULE ScanStore ------------------------------
(***************************************************************************)
(* What the address tools rely on: a table from keys to values that only   *)
(* ever changes by a whole scan of arp-scan-util at a time, whatever       *)
(* happens to the process or to the machine.  It knows no pages, locks or  *)
(* snapshots.                                                              *)
(***************************************************************************)
EXTENDS Naturals, Sequences

CONSTANTS Ips, Macs, Names, Times

VARIABLES
  stored,    (* the table                                                  *)
  pending    (* <<>>, or <<t>>: the scan in progress has made it table t   *)

storeVars == <<stored, pending>>

NoScan == <<>>

(* The keys of a line, as arp-scan-util builds them.                        *)
NameOf(host) == <<"name", host>>     (* the address itself                 *)
IpOf(mac) == <<"macip", mac>>        (* MacIp:mac                          *)
SeenAt(host) == <<"ts", host>>       (* address_ts                         *)

(* Mutant: no time for the mac.                                             *)
LineKeysUntimed(ip, mac) == {NameOf(ip), NameOf(mac), IpOf(mac), SeenAt(ip)}

Hosts == Ips \cup Macs
Keys == {NameOf(h) : h \in Hosts} \cup {IpOf(m) : m \in Macs} \cup {SeenAt(h) : h \in Hosts}
LineKeys(ip, mac) == {NameOf(ip), NameOf(mac), IpOf(mac), SeenAt(ip), SeenAt(mac)}

(* A table with the entries of one line of arp-scan put into it.            *)
WithLine(table, ip, mac, name, time) ==
  [k \in DOMAIN table \cup LineKeys(ip, mac) |->
     IF k \notin LineKeys(ip, mac) THEN table[k]
     ELSE IF k = IpOf(mac) THEN ip
     ELSE IF k \in {NameOf(ip), NameOf(mac)} THEN name
     ELSE time]

Init ==
  /\ stored = [k \in {} |-> 0]
  /\ pending = NoScan

Begin ==
  /\ pending = NoScan
  /\ pending' = <<stored>>
  /\ UNCHANGED stored

Line(ip, mac, name, time) ==
  /\ pending # NoScan
  /\ pending' = <<WithLine(pending[1], ip, mac, name, time)>>
  /\ UNCHANGED stored

Commit ==
  /\ pending # NoScan
  /\ stored' = pending[1]
  /\ pending' = NoScan

(* The scan failed or was killed, or the machine went down.                 *)
Abandon ==
  /\ pending # NoScan
  /\ pending' = NoScan
  /\ UNCHANGED stored

Next ==
  \/ Begin
  \/ \E ip \in Ips, mac \in Macs, name \in Names, time \in Times : Line(ip, mac, name, time)
  \/ Commit
  \/ Abandon

Spec == Init /\ [][Next]_storeVars
-----------------------------------------------------------------------------
(* What arp-history -t looks up for an address pair: the pair itself, the   *)
(* name stored for the ip, the time stored for the mac.                     *)
RowComplete(table, mac) ==
  IpOf(mac) \in DOMAIN table =>
    /\ table[IpOf(mac)] \in Ips
    /\ NameOf(table[IpOf(mac)]) \in DOMAIN table
    /\ {NameOf(mac), SeenAt(mac), SeenAt(table[IpOf(mac)])} \subseteq DOMAIN table
=============================================================================
