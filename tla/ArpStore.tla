------------------------------ MODULE ArpStore ------------------------------
(***************************************************************************)
(* arp-scan-util and arp-history, and readers of the same directory        *)
(* (mdb_stat, mdb_dump), on top of LmdbTxn; a process runs any of them.    *)
(* Both tools begin a write transaction when they start and commit it when *)
(* they end (lib/mdb.c), so that a scan, with everything it waits for, is  *)
(* one transaction; one of arp-history is a scan that finds nothing.       *)
(***************************************************************************)
EXTENDS LmdbTxn

CONSTANTS
  Ips, Macs, Names,   (* what arp-scan and the resolver answer              *)
  MaxLines            (* bound: lines of arp-scan in one scan               *)

ASSUME ArpStoreAssumption == MaxLines \in Nat

VARIABLES
  scan       (* the scan in progress: lines stored, keys announced         *)

vars == <<lmdbVars, scan>>

NoScan == [lines |-> 0, announced |-> {}]

(* The newest table, on the disk.                                           *)
Stored == DataIn(disk, Newest.main)

(* The process whose transaction may still be committed, if there is one.   *)
Scanning == {p \in Procs : pc[p] \in {"writing", "flushing", "synced"}}
Pending == IF Scanning = {} THEN <<>>
           ELSE <<DataOf(txn[CHOOSE p \in Scanning : TRUE])>>

Table == INSTANCE ScanStore
           WITH Times <- 1..MaxTxnid, stored <- Stored, pending <- Pending

Init == LmdbInit /\ scan = NoScan

(* What a scan knows is gone when its transaction is.                       *)
Forget == scan' = IF wmutex' = wmutex THEN scan ELSE NoScan

(* prepareMdb: the transaction of either tool.                              *)
Prepare(p) ==
  /\ BeginWrite(p)
  /\ scan' = NoScan

(* exit(EX_IOERR) with the transaction open.                                *)
PopenFails(p) ==
  /\ pc[p] = "writing" /\ scan = NoScan /\ ~txn[p].error
  /\ Gone(p)
  /\ Forget
  /\ UNCHANGED faults

(* Mutant: the names are not compared with what is stored.                  *)
ScanLineUncompared(p, ip, mac, name) ==
  /\ pc[p] = "writing" /\ ~txn[p].error
  /\ scan.lines < MaxLines
  /\ LET before == DataOf(txn[p])
         unknown == {Table!NameOf(ip), Table!NameOf(mac)} \ DOMAIN before
         after == Table!WithLine(before, ip, mac, name, txn[p].txnid)
     IN /\ txn' = [txn EXCEPT ![p] = PutAll(@, after)]
        /\ scan' = [lines |-> scan.lines + IF txn'[p].error THEN 0 ELSE 1,
                    announced |-> scan.announced \cup unknown]
  /\ UNCHANGED <<fileVars, lockVars, pc, history, faults>>

(* One line of arp-scan: look both addresses up, tell what is new or has    *)
(* changed its name, store five entries.                                    *)
ScanLine(p, ip, mac, name) ==
  /\ pc[p] = "writing" /\ ~txn[p].error
  /\ scan.lines < MaxLines
  /\ LET before == DataOf(txn[p])
         names == {Table!NameOf(ip), Table!NameOf(mac)}
         unknown == names \ DOMAIN before
         renamed == {k \in names \cap DOMAIN before : before[k] # name}
         after == Table!WithLine(before, ip, mac, name, txn[p].txnid)
     IN /\ txn' = [txn EXCEPT ![p] = PutAll(@, after)]
        /\ scan' = [lines |-> scan.lines + IF txn'[p].error THEN 0 ELSE 1,
                    announced |-> scan.announced \cup unknown \cup renamed]
  /\ UNCHANGED <<fileVars, lockVars, pc, history, faults>>

(* A line after a put has failed: getMdb returns neither success nor        *)
(* MDB_NOTFOUND and the name to compare with is not initialised.  The       *)
(* process dies of it, or goes on without storing anything.                 *)
ScanLineAfterError(p) ==
  /\ pc[p] = "writing" /\ txn[p].error
  /\ Gone(p)
  /\ Forget
  /\ UNCHANGED faults

(* closeMdb of either tool.                                                 *)
Commit(p) ==
  /\ CommitNothing(p) \/ CommitSave(p)
  /\ Forget

(* mdb_stat and mdb_dump.                                                   *)
BeginRead(p) ==
  /\ ClaimSlot(p)
  /\ UNCHANGED scan

(* The library's own steps.                                                 *)
Library(p) == LmdbStep(p) /\ Forget

Next ==
  \/ \E p \in Procs :
       \/ Prepare(p) \/ PopenFails(p) \/ ScanLineAfterError(p) \/ Commit(p)
       \/ BeginRead(p) \/ Library(p)
       \/ \E ip \in Ips, mac \in Macs, name \in Names : ScanLine(p, ip, mac, name)
  \/ PowerFails /\ scan' = NoScan

Spec == Init /\ [][Next]_vars
-----------------------------------------------------------------------------
(* arp-history -t: the rows of the table (all of them; the code leaves out  *)
(* the first one).                                                          *)
NULL == 0
PrintTable(table) ==
  LET Find(key) == IF key \in DOMAIN table THEN table[key] ELSE NULL
  IN {[mac |-> m, ip |-> table[Table!IpOf(m)],
       name |-> Find(Table!NameOf(table[Table!IpOf(m)])),
       ts |-> Find(Table!SeenAt(m))] :
       m \in {n \in Macs : Table!IpOf(n) \in DOMAIN table}}
-----------------------------------------------------------------------------
(* Every transaction reads what was committed when it got its snapshot, for *)
(* as long as it lasts: pages it can reach are not written to, although     *)
(* later writers recycle pages and the reader table is read without a lock  *)
(* (mdb_page_alloc, mdb_find_oldest, mdb_txn_renew0).                       *)
SnapshotsIntact ==
  /\ \A p \in Procs : pc[p] = "reading" =>
       /\ \E id \in DOMAIN history : id >= txn[p].txnid /\ history[id] = txn[p].sees
       /\ DataIn(cache, txn[p].main) = txn[p].sees
  /\ \A p \in Procs : pc[p] = "writing" /\ txn[p].dirty = Nothing =>
       DataIn(cache, txn[p].main) = history[txn[p].txnid - 1]

(* What the newest meta page refers to has reached the disk, so that no     *)
(* power failure can take a committed scan back (mdb_txn_commit: sync       *)
(* before mdb_env_write_meta).                                              *)
CommittedIsDurable == Stored = history[Newest.txnid]

(* Every page of the file is in exactly one place: the main tree, the free  *)
(* list's own page, or one record of the free list.  Pages are neither lost *)
(* nor handed out twice, over any number of commits, failures and repairs   *)
(* (mdb_freelist_save, mdb_page_alloc).                                     *)
PagesAccountedFor ==
  LET idl == IdlIn(disk, Newest.free)
      roots == {Newest.main, Newest.free} \ {NoPage}
  IN /\ roots \cup UNION {idl[id] : id \in DOMAIN idl} = 2..Newest.last
     /\ Newest.main = Newest.free => Newest.main = NoPage
     /\ \A id \in DOMAIN idl :
          /\ idl[id] \cap roots = {}
          /\ \A other \in DOMAIN idl \ {id} : idl[id] \cap idl[other] = {}

(* A name that changes in the store was announced by the scan that changes  *)
(* it, when it was read; the mail of arp-scan-and-mail-changes.sh is made   *)
(* of these announcements (arp-scan-util.c, main).                          *)
ChangesAreAnnounced ==
  [][\A h \in Ips \cup Macs :
       LET k == Table!NameOf(h)
           Known(table) == IF k \in DOMAIN table THEN table[k] ELSE NULL
       IN Known(Stored') # Known(Stored) => k \in scan.announced]_vars

(* arp-history never prints half a row, nor passes a NULL to strtol, because*)
(* it sees whole scans only (arp-history.c, print_table).                   *)
RowsAreComplete ==
  \A p \in Procs : pc[p] = "writing" =>
    \A row \in PrintTable(DataOf(txn[p])) : NULL \notin {row.name, row.ts}

(* The store that the tools and the library make together changes by whole  *)
(* scans only, through kills, repairs of the mutex and power failures.      *)
ImplementsScanStore == Table!Spec
=============================================================================
