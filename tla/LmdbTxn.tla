------------------------------- MODULE LmdbTxn -------------------------------
(***************************************************************************)
(* Transactions of the LMDB that sntools is built with: several processes  *)
(* open one environment with default flags, one writer at a time copies    *)
(* the pages it changes, readers pin a snapshot in the reader table, and   *)
(* two meta pages take turns to name the newest one.  Processes may be     *)
(* killed and the power may fail at any step.                              *)
(*                                                                         *)
(* Each of the two trees (the main one and the free list) is one page      *)
(* here; trees of several pages are the subject of LmdbTree.  The free     *)
(* list is the real thing: a page of records from a transaction to the     *)
(* pages it freed, copied on write like any other.                         *)
(***************************************************************************)
EXTENDS Integers, FiniteSets, FiniteSetsExt

CONSTANTS
  Procs,       (* process slots; a killed one may be started again          *)
  MaxPg,       (* me_maxpg: the map has pages 0..MaxPg-1, 0 and 1 are metas *)
  MaxReaders,  (* me_maxreaders: slots of the reader table                  *)
  MaxTxnid,    (* bound: committed transactions                             *)
  MaxFaults,   (* bound: processes killed, power and write failures, in all *)
  CacheKeeps   (* TRUE: what a failed write wrote can be read in the file   *)

ASSUME LmdbTxnAssumption ==
  /\ {MaxPg, MaxReaders, MaxTxnid, MaxFaults} \subseteq Nat
  /\ MaxPg > 2
  /\ CacheKeeps \in BOOLEAN
  /\ {"nobody", "dead"} \cap Procs = {}

VARIABLES
  cache,       (* the file as the processes see it: page number to content  *)
  disk,        (* what of it would survive a power failure                  *)
  metas,       (* me_metas; written through to the disk                     *)
  mti_txnid,   (* lock file: newest transaction readers may use             *)
  readers,     (* lock file: reader table, slot to [pid, txnid]             *)
  numreaders,  (* lock file: mti_numreaders                                 *)
  wmutex,      (* lock file: "nobody", its owner, or "dead": owner killed   *)
  mutexes,     (* lock file: the mutexes are initialised                    *)
  flock,       (* fcntl lock on the lock file: "none", "shared", "excl"     *)
  pc,          (* where in the library each process is                      *)
  txn,         (* the transaction of each process                           *)
  history,     (* history: what each committed transaction stored           *)
  faults       (* history: processes killed, power and write failures       *)

fileVars == <<cache, disk, metas>>
lockVars == <<mti_txnid, readers, numreaders, wmutex, mutexes, flock>>
lmdbVars == <<fileVars, lockVars, pc, txn, history, faults>>

NoPage == 0                      (* P_INVALID                               *)
NotReading == 1000000            (* (txnid_t)-1                             *)
Nothing == <<>>                  (* the function with empty domain          *)
EmptyPage == [data |-> Nothing, idl |-> Nothing]
NoTxn == [txnid |-> 0]
FreeSlot == [pid |-> "nobody", txnid |-> NotReading]
Slots == 1..MaxReaders

(* The function f with value v for x.                                       *)
With(f, x, v) == [y \in DOMAIN f \cup {x} |-> IF y = x THEN v ELSE f[y]]

(* mdb_env_pick_meta                                                        *)
Newest == IF metas[0].txnid < metas[1].txnid THEN metas[1] ELSE metas[0]

DataIn(file, root) == IF root = NoPage THEN Nothing ELSE file[root].data
IdlIn(file, root) == IF root = NoPage THEN Nothing ELSE file[root].idl

(* A new file: mdb_env_init_meta0 and mdb_env_init_meta.                    *)
InitialMeta == [txnid |-> 0, main |-> NoPage, free |-> NoPage, last |-> 1]

LmdbInit ==
  /\ cache = [g \in 2..MaxPg - 1 |-> EmptyPage]
  /\ disk = cache
  /\ metas = [i \in 0..1 |-> InitialMeta]
  /\ mti_txnid = 0
  /\ readers = [i \in Slots |-> FreeSlot]
  /\ numreaders = 0
  /\ wmutex = "nobody"
  /\ mutexes = FALSE
  /\ flock = [p \in Procs |-> "none"]
  /\ pc = [p \in Procs |-> "closed"]
  /\ txn = [p \in Procs |-> NoTxn]
  /\ history = With(Nothing, 0, Nothing)
  /\ faults = 0

Goto(p, place) == pc' = [pc EXCEPT ![p] = place]

(* mdb_reader_check0: slots of processes that are gone are emptied.         *)
WithoutDead(table) ==
  [i \in Slots |-> IF i <= numreaders /\ table[i].pid = "dead"
                   THEN [table[i] EXCEPT !.pid = "nobody"] ELSE table[i]]

-----------------------------------------------------------------------------
(* Opening and closing the environment.  mdb_env_setup_locks first tries   *)
(* for the lock alone; who gets it initialises the lock file and then      *)
(* shares the lock (mdb_env_share_locks), in one step here since nobody    *)
(* else can have the file open meanwhile.                                  *)
OpenFirst(p) ==
  /\ pc[p] = "closed"
  /\ \A q \in Procs : flock[q] = "none"
  /\ flock' = [flock EXCEPT ![p] = "shared"]
  /\ mutexes' = TRUE
  /\ wmutex' = "nobody"
  /\ numreaders' = 0
  /\ mti_txnid' = Newest.txnid
  /\ Goto(p, "open")
  /\ UNCHANGED <<fileVars, readers, txn, history, faults>>

(* mdb_env_excl_lock did not get it and waits for a shared one ...          *)
OpenSecond(p) ==
  /\ pc[p] = "closed"
  /\ \E q \in Procs : flock[q] # "none"
  /\ Goto(p, "waiting")
  /\ UNCHANGED <<fileVars, lockVars, txn, history, faults>>

(* ... which it gets even if everybody else has closed the file by then.    *)
OpenShared(p) ==
  /\ pc[p] = "waiting"
  /\ \A q \in Procs : flock[q] # "excl"
  /\ flock' = [flock EXCEPT ![p] = "shared"]
  /\ Goto(p, "open")
  /\ UNCHANGED <<fileVars, mti_txnid, readers, numreaders, wmutex, mutexes,
                 txn, history, faults>>

(* mdb_env_close0: the process leaves the reader table; if it is the only   *)
(* one to have the file open it destroys the mutexes under the lock.        *)
CloseEnv(p) ==
  /\ pc[p] = "ended"
  /\ readers' = [i \in Slots |-> IF readers[i].pid = p
                                 THEN [readers[i] EXCEPT !.pid = "nobody"] ELSE readers[i]]
  /\ txn' = [txn EXCEPT ![p] = NoTxn]
  /\ \/ /\ \A q \in Procs \ {p} : flock[q] = "none"
        /\ flock' = [flock EXCEPT ![p] = "excl"]
        /\ mutexes' = FALSE
        /\ Goto(p, "closing")
     \/ /\ \E q \in Procs \ {p} : flock[q] # "none"
        /\ flock' = [flock EXCEPT ![p] = "none"]
        /\ Goto(p, "closed")
        /\ UNCHANGED mutexes
  /\ UNCHANGED <<fileVars, mti_txnid, numreaders, wmutex, history, faults>>

(* close(me_lfd) gives the lock back.                                       *)
CloseLast(p) ==
  /\ pc[p] = "closing"
  /\ flock' = [flock EXCEPT ![p] = "none"]
  /\ Goto(p, "closed")
  /\ UNCHANGED <<fileVars, mti_txnid, readers, numreaders, wmutex, mutexes,
                 txn, history, faults>>

(* A mutex that was destroyed cannot be locked: mdb_txn_begin fails.        *)
BeginFails(p) ==
  /\ pc[p] = "open" /\ ~mutexes
  /\ Goto(p, "ended")
  /\ UNCHANGED <<fileVars, lockVars, txn, history, faults>>

-----------------------------------------------------------------------------
(* Read-only transactions.  Claiming a slot is a critical section of        *)
(* me_rmutex; publishing the snapshot in it is not.                         *)
ClaimSlot(p) ==
  /\ pc[p] = "open" /\ mutexes
  /\ LET unused == {i \in 1..numreaders : readers[i].pid = "nobody"}
         slot == IF unused = {} THEN numreaders + 1 ELSE Min(unused)
     IN \/ /\ slot <= MaxReaders
           /\ readers' = [readers EXCEPT ![slot] = [pid |-> p, txnid |-> NotReading]]
           /\ numreaders' = Max({numreaders, slot})
           /\ txn' = [txn EXCEPT ![p] = [txnid |-> 0, slot |-> slot]]
           /\ Goto(p, "claimed")
        \/ /\ slot > MaxReaders      (* MDB_READERS_FULL                    *)
           /\ Goto(p, "ended")
           /\ UNCHANGED <<readers, numreaders, txn>>
  /\ UNCHANGED <<fileVars, mti_txnid, wmutex, mutexes, flock, history, faults>>

(* r->mr_txnid = ti->mti_txnid is a load ...                                *)
LoadTxnid(p) ==
  /\ pc[p] = "claimed"
  /\ txn' = [txn EXCEPT ![p].txnid = mti_txnid]
  /\ Goto(p, "loaded")
  /\ UNCHANGED <<fileVars, lockVars, history, faults>>

(* ... and a store; then both are compared and it is done again.            *)
StoreTxnid(p) ==
  /\ pc[p] = "loaded"
  /\ readers' = [readers EXCEPT ![txn[p].slot].txnid = txn[p].txnid]
  /\ Goto(p, "stored")
  /\ UNCHANGED <<fileVars, mti_txnid, numreaders, wmutex, mutexes, flock,
                 txn, history, faults>>

(* The loop's test: leave it when mti_txnid has not moved.                  *)
CompareTxnid(p) ==
  /\ pc[p] = "stored"
  /\ Goto(p, IF readers[txn[p].slot].txnid = mti_txnid THEN "pinned" ELSE "claimed")
  /\ UNCHANGED <<fileVars, lockVars, txn, history, faults>>

(* The roots come from the meta page of that parity, whatever transaction  *)
(* it belongs to by now.                                                    *)
CopyRoots(p) ==
  /\ pc[p] = "pinned"
  /\ LET meta == metas[txn[p].txnid % 2]
     IN txn' = [txn EXCEPT ![p] = [txnid |-> @.txnid, slot |-> @.slot, main |-> meta.main,
                                   sees |-> DataIn(cache, meta.main)]]
  /\ Goto(p, "reading")
  /\ UNCHANGED <<fileVars, lockVars, history, faults>>

(* mdb_txn_end of a read-only transaction: the slot stays claimed.          *)
EndRead(p) ==
  /\ pc[p] = "reading"
  /\ readers' = [readers EXCEPT ![txn[p].slot].txnid = NotReading]
  /\ Goto(p, "ended")
  /\ UNCHANGED <<fileVars, mti_txnid, numreaders, wmutex, mutexes, flock,
                 txn, history, faults>>

-----------------------------------------------------------------------------
(* mdb_txn_renew0 of a write transaction.                                   *)
NewWrite(txnid, meta) ==
  [txnid |-> txnid, main |-> meta.main, free |-> meta.free, next |-> meta.last + 1,
   freed |-> {}, pghead |-> {}, pglast |-> 0, pgoldest |-> 0, dirty |-> Nothing,
   error |-> FALSE]

(* Mutant: what the lock file says is believed after the writer was killed. *)
BeginWriteUnrepaired(p) ==
  /\ pc[p] = "open" /\ mutexes
  /\ wmutex \in {"nobody", "dead"}
  /\ mti_txnid < MaxTxnid
  /\ txn' = [txn EXCEPT ![p] = NewWrite(mti_txnid + 1, metas[mti_txnid % 2])]
  /\ wmutex' = p
  /\ Goto(p, "writing")
  /\ UNCHANGED <<fileVars, mti_txnid, readers, numreaders, mutexes, flock, history, faults>>

(* Write transactions.  A mutex whose owner was killed is repaired by the   *)
(* next one (mdb_mutex_failed), which then asks the meta pages.             *)
LastTxnid == IF wmutex = "dead" THEN Newest.txnid ELSE mti_txnid

BeginWrite(p) ==
  /\ pc[p] = "open" /\ mutexes
  /\ wmutex \in {"nobody", "dead"}
  /\ LastTxnid < MaxTxnid
  /\ mti_txnid' = LastTxnid
  /\ txn' = [txn EXCEPT ![p] = NewWrite(LastTxnid + 1, metas[LastTxnid % 2])]
  /\ readers' = IF wmutex = "dead" THEN WithoutDead(readers) ELSE readers
  /\ wmutex' = p
  /\ Goto(p, "writing")
  /\ UNCHANGED <<fileVars, numreaders, mutexes, flock, history, faults>>

(* Mutant: the last slot is left out.                                       *)
FindOldestButOne(t) ==
  Min({t.txnid - 1} \cup
      {readers[i].txnid : i \in {j \in 1..numreaders - 1 : readers[j].pid # "nobody"}})

(* mdb_find_oldest: the oldest snapshot in use.                             *)
FindOldest(t) ==
  Min({t.txnid - 1} \cup
      {readers[i].txnid : i \in {j \in 1..numreaders : readers[j].pid # "nobody"}})

(* A page as the transaction sees it.                                       *)
PageOf(t, g) == IF g \in DOMAIN t.dirty THEN t.dirty[g] ELSE cache[g]
IdlOf(t) == IF t.free = NoPage THEN Nothing ELSE PageOf(t, t.free).idl

(* mdb_page_alloc, first half: when me_pghead is empty, take over records   *)
(* of the free list, oldest first, until one of them holds a page; never    *)
(* one that a snapshot in use may need.  me_pgoldest is looked up again     *)
(* only when the last answer does not suffice.                              *)
MayReuse(t, fresh, id) == id < t.pgoldest \/ id < fresh
FetchRecords(t) ==
  LET fresh == FindOldest(t)
      idl == IdlOf(t)
      old == {id \in DOMAIN idl : id > t.pglast /\ MayReuse(t, fresh, id)}
      full == {id \in old : idl[id] # {}}
      last == IF full = {} THEN Max(old \cup {t.pglast}) ELSE Min(full)
  IN IF t.pghead # {} THEN t
     ELSE [t EXCEPT !.pglast = last,
                    !.pghead = IF full = {} THEN {} ELSE idl[last],
                    !.pgoldest = IF full # {} /\ last < @ THEN @ ELSE fresh]

(* mdb_page_alloc, second half, for one page: the last of me_pghead, which  *)
(* is sorted downwards, or a new page at the end of the map.                *)
TakePage(t) ==
  IF t.pghead # {}
  THEN [t |-> [t EXCEPT !.pghead = @ \ {Min(@)}], page |-> Min(t.pghead)]
  ELSE IF t.next + 1 >= MaxPg
  THEN [t |-> [t EXCEPT !.error = TRUE], page |-> NoPage]
  ELSE [t |-> [t EXCEPT !.next = @ + 1], page |-> t.next]

PageAlloc(t) == TakePage(FetchRecords(t))

(* mdb_page_touch on the root of a tree, or mdb_page_new for an empty tree: *)
(* the page in use becomes a dirty one of this transaction.                 *)
MoveRoot(t, tree, a) ==
  IF a.page = NoPage THEN a.t
  ELSE [a.t EXCEPT ![tree] = a.page,
                   !.freed = @ \cup ({t[tree]} \ {NoPage}),
                   !.dirty = With(@, a.page, IF t[tree] = NoPage THEN EmptyPage
                                             ELSE PageOf(t, t[tree]))]
Touch(t, tree) ==
  IF t[tree] \in DOMAIN t.dirty THEN t ELSE MoveRoot(t, tree, PageAlloc(t))

(* mdb_put of whatever makes the table this one, in a transaction that has  *)
(* not failed.                                                              *)
PutEntries(t, table) == IF t.error THEN t ELSE [t EXCEPT !.dirty[t.main].data = table]
PutAll(t, table) == PutEntries(Touch(t, "main"), table)

DataOf(t) == IF t.main = NoPage THEN Nothing ELSE PageOf(t, t.main).data

(* Mutant: the last record that was used up stays.                          *)
RecordsAgain(t) ==
  LET rest == [id \in {i \in DOMAIN IdlOf(t) : i >= t.pglast} |-> IdlOf(t)[id]]
      freed == With(rest, t.txnid, t.freed)
  IN IF t.pghead = {} THEN freed ELSE With(freed, t.pglast, t.pghead)

(* mdb_freelist_save: the records that were used up go, the pages this      *)
(* transaction freed are recorded under its number, and what is left of     *)
(* me_pghead under the last record used.  The free list's own page is       *)
(* touched first, and may use up one more record for that.                  *)
Records(t) ==
  LET rest == [id \in {i \in DOMAIN IdlOf(t) : i > t.pglast} |-> IdlOf(t)[id]]
      freed == With(rest, t.txnid, t.freed)
  IN IF t.pghead = {} THEN freed ELSE With(freed, t.pglast, t.pghead)
SaveRecords(t) == IF t.error THEN t ELSE [t EXCEPT !.dirty[t.free].idl = Records(t)]
FreelistSave(t) ==
  IF t.pglast > 0 \/ t.freed # {} THEN SaveRecords(Touch(t, "free")) ELSE t

(* mdb_txn_end of a write transaction: its pages go, the writer's mutex is  *)
(* free.                                                                    *)
EndWrite(p) ==
  /\ wmutex' = "nobody"
  /\ txn' = [txn EXCEPT ![p] = NoTxn]
  /\ Goto(p, "ended")

(* mdb_txn_commit of a transaction that failed, or that changed nothing.    *)
CommitNothing(p) ==
  /\ pc[p] = "writing"
  /\ txn[p].error \/ txn[p].dirty = Nothing
  /\ EndWrite(p)
  /\ UNCHANGED <<fileVars, mti_txnid, readers, numreaders, mutexes, flock, history, faults>>

(* mdb_txn_commit up to mdb_page_flush.                                     *)
CommitSave(p) ==
  /\ pc[p] = "writing"
  /\ ~txn[p].error /\ txn[p].dirty # Nothing
  /\ \E t \in {FreelistSave(txn[p])} :
       \/ /\ t.error
          /\ EndWrite(p)
       \/ /\ ~t.error
          /\ txn' = [txn EXCEPT ![p] = t]
          /\ Goto(p, "flushing")
          /\ UNCHANGED wmutex
  /\ UNCHANGED <<fileVars, mti_txnid, readers, numreaders, mutexes, flock, history, faults>>

(* mdb_page_flush writes the dirty list, which is sorted upwards.           *)
FlushPage(p) ==
  /\ pc[p] = "flushing"
  /\ txn[p].dirty # Nothing
  /\ LET g == Min(DOMAIN txn[p].dirty)
     IN /\ cache' = [cache EXCEPT ![g] = txn[p].dirty[g]]
        /\ txn' = [txn EXCEPT ![p].dirty = [h \in DOMAIN @ \ {g} |-> @[h]]]
  /\ UNCHANGED <<disk, metas, lockVars, pc, history, faults>>

(* Mutant: the pages are left to the cache.                                 *)
SyncPagesLater(p) ==
  /\ pc[p] = "flushing"
  /\ txn[p].dirty = Nothing
  /\ Goto(p, "synced")
  /\ UNCHANGED <<fileVars, lockVars, txn, history, faults>>

(* mdb_env_sync0: fdatasync.                                                *)
SyncPages(p) ==
  /\ pc[p] = "flushing"
  /\ txn[p].dirty = Nothing
  /\ disk' = cache
  /\ Goto(p, "synced")
  /\ UNCHANGED <<cache, metas, lockVars, txn, history, faults>>

(* mdb_env_write_meta, the write: the older meta page is overwritten,       *)
(* through a descriptor that syncs.                                         *)
WriteMeta(p) ==
  /\ pc[p] = "synced"
  /\ LET t == txn[p]
     IN /\ metas' = [metas EXCEPT ![t.txnid % 2] =
                       [txnid |-> t.txnid, main |-> t.main, free |-> t.free,
                        last |-> t.next - 1]]
        /\ history' = With(history, t.txnid, DataIn(cache, t.main))
  /\ Goto(p, "written")
  /\ UNCHANGED <<cache, disk, lockVars, txn, faults>>

(* mdb_env_write_meta after the write, and mdb_txn_end.                     *)
Publish(p) ==
  /\ pc[p] = "written"
  /\ mti_txnid' = txn[p].txnid
  /\ EndWrite(p)
  /\ UNCHANGED <<fileVars, readers, numreaders, mutexes, flock, history, faults>>

OneMoreFault ==
  /\ faults < MaxFaults
  /\ faults' = faults + 1

(* Writing or syncing a page fails, and so does the commit; or writing the  *)
(* meta page fails, and some of the old one is written back in case the     *)
(* cache has kept the new one: its number and last page, not its roots.     *)
WriteFails(p) ==
  /\ pc[p] \in {"flushing", "synced"}
  /\ OneMoreFault
  /\ LET t == txn[p]
     IN metas' = IF pc[p] = "flushing" \/ ~CacheKeeps THEN metas
                 ELSE [metas EXCEPT ![t.txnid % 2].main = t.main, ![t.txnid % 2].free = t.free]
  /\ EndWrite(p)
  /\ UNCHANGED <<cache, disk, mti_txnid, readers, numreaders, mutexes, flock, history>>

-----------------------------------------------------------------------------
(* The process is gone: its lock on the file with it, its slots and the     *)
(* writer's mutex keep the name of a process that does not exist.           *)
Gone(p) ==
  /\ pc[p] # "closed"
  /\ flock' = [flock EXCEPT ![p] = "none"]
  /\ readers' = [i \in Slots |-> IF readers[i].pid = p
                                 THEN [readers[i] EXCEPT !.pid = "dead"] ELSE readers[i]]
  /\ wmutex' = IF wmutex = p THEN "dead" ELSE wmutex
  /\ txn' = [txn EXCEPT ![p] = NoTxn]
  /\ Goto(p, "closed")
  /\ UNCHANGED <<fileVars, mti_txnid, numreaders, mutexes, history>>

Killed(p) ==
  /\ OneMoreFault
  /\ Gone(p)

(* The machine goes down.  Any of the pages that were not synced may be     *)
(* lost.  The lock file is initialised by the first process that opens it.  *)
PowerFails ==
  /\ OneMoreFault
  /\ \E lost \in SUBSET {g \in DOMAIN cache : cache[g] # disk[g]} :
       cache' = [g \in DOMAIN cache |-> IF g \in lost THEN disk[g] ELSE cache[g]]
  /\ disk' = cache'
  /\ flock' = [p \in Procs |-> "none"]
  /\ pc' = [p \in Procs |-> "closed"]
  /\ txn' = [p \in Procs |-> NoTxn]
  /\ wmutex' = "nobody"
  /\ readers' = [i \in Slots |-> FreeSlot]
  /\ mutexes' = FALSE
  /\ UNCHANGED <<metas, mti_txnid, numreaders, history>>

(* What a process does by itself, apart from the calls of its program.      *)
LmdbStep(p) ==
  \/ OpenFirst(p) \/ OpenSecond(p) \/ OpenShared(p)
  \/ CloseEnv(p) \/ CloseLast(p) \/ BeginFails(p)
  \/ LoadTxnid(p) \/ StoreTxnid(p) \/ CompareTxnid(p) \/ CopyRoots(p) \/ EndRead(p)
  \/ FlushPage(p) \/ SyncPages(p) \/ WriteMeta(p) \/ Publish(p) \/ WriteFails(p)
  \/ Killed(p)
=============================================================================
