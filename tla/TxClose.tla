------------------------------ MODULE TxClose ------------------------------
(***************************************************************************)
(* The end of a write transaction in src/tx.go.  Commit and Rollback both  *)
(* end in Tx.close, which grabs the freelist figures, releases the writer  *)
(* lock, and only then merges the figures and the tx's counters into       *)
(* db.stats under statlock; a successful Commit then runs its OnCommit     *)
(* handlers.  Several goroutines run write transactions, so the next       *)
(* writer can begin, and even finish, between one writer's unlock and its  *)
(* stats merge, and a handler can itself open a write transaction.         *)
(*                                                                         *)
(* The freelist is reduced to its counts: a tx takes pages from the free   *)
(* list or above the high water mark, and frees at most one page, which    *)
(* stays pending under its txid until a later writer releases it.          *)
(***************************************************************************)
EXTENDS Integers, FiniteSets

CONSTANTS
    Goroutines,     \* goroutines that run write transactions
    MaxTxid,        \* the highest txid a commit may reach
    MaxAlloc,       \* allocations per tx
    MaxCloses,      \* write txs the callers open (a handler's not counted)
    HandlerWriters, \* goroutines whose OnCommit handler opens a write tx
    NoTx            \* model value: no tx

VARIABLES
    pc,          \* [g -> how far g's write tx has got]
    txid,        \* [g -> tx.meta.txid]
    nested,      \* [g -> g's tx was opened by an OnCommit handler]
    allocs,      \* [g -> pages g's tx took from the free list]
    pageCount,   \* [g -> tx.stats.PageCount]
    grab,        \* [g -> freelist figures close grabbed before unlocking]
    ok,          \* [g -> its Commit succeeded]
    rwtx,        \* db.rwtx: the goroutine holding db.rwlock
    metaTxid,    \* txid of db.meta()
    free,        \* freelist.free_count()
    pending,     \* txids with a pending page
    reader,      \* txid of the open read tx's snapshot, or NoTx
    stats,       \* db.stats
    lastClose,   \* history: the figures of the writer that unlocked last
    opened       \* write txs the callers opened, bounded by MaxCloses

vars == <<pc, txid, nested, allocs, pageCount, grab, ok, rwtx, metaTxid,
          free, pending, reader, stats, lastClose, opened>>

\* free_count() and pending_count() of a freelist.
Figures(fr, pd) == [free |-> fr, pendingPages |-> Cardinality(pd)]

Stages == {"idle", "waiting", "active", "stats", "handlers"}

TypeOK ==
    /\ pc \in [Goroutines -> Stages]
    /\ txid \in [Goroutines -> 0 .. (MaxTxid + 1)]
    /\ nested \in [Goroutines -> BOOLEAN]
    /\ allocs \in [Goroutines -> 0 .. MaxAlloc]
    /\ pageCount \in [Goroutines -> 0 .. MaxAlloc]
    /\ ok \in [Goroutines -> BOOLEAN]
    /\ rwtx \in Goroutines \cup {NoTx}
    /\ metaTxid \in 0 .. MaxTxid
    /\ pending \subseteq 1 .. (MaxTxid + 1)
    /\ reader \in (0 .. MaxTxid) \cup {NoTx}
    /\ stats.PageCount \in Nat
    /\ opened \in 0 .. MaxCloses

Init ==
    /\ pc = [g \in Goroutines |-> "idle"]
    /\ txid = [g \in Goroutines |-> 0]
    /\ nested = [g \in Goroutines |-> FALSE]
    /\ allocs = [g \in Goroutines |-> 0]
    /\ pageCount = [g \in Goroutines |-> 0]
    /\ grab = [g \in Goroutines |-> Figures(0, {})]
    /\ ok = [g \in Goroutines |-> FALSE]
    /\ rwtx = NoTx
    /\ metaTxid = 0
    /\ free = 0
    /\ pending = {}
    /\ reader = NoTx
    /\ stats = [FreePageN |-> 0, PendingPageN |-> 0, PendingN |-> 0,
                PageCount |-> 0]
    /\ lastClose = Figures(0, {})
    /\ opened = 0

\* db.freePages: freelist.release(minid - 1) frees the pages of txids
\* below the oldest open reader's.
Released == {t \in pending : reader = NoTx \/ t < reader}

\* db.beginRWTx: take the writer lock, release pending pages, Tx.init.
BeginTx(g) ==
    /\ rwtx = NoTx
    /\ rwtx' = g
    /\ txid' = [txid EXCEPT ![g] = metaTxid + 1]
    /\ pc' = [pc EXCEPT ![g] = "active"]
    /\ allocs' = [allocs EXCEPT ![g] = 0]
    /\ free' = free + Cardinality(Released)
    /\ pending' = pending \ Released

\* db.Begin(true): the caller asks for the writer lock and waits on it.
Begin(g) ==
    /\ pc[g] = "idle"
    /\ metaTxid < MaxTxid
    /\ opened < MaxCloses
    /\ opened' = opened + 1
    /\ pc' = [pc EXCEPT ![g] = "waiting"]
    /\ UNCHANGED <<txid, nested, allocs, pageCount, grab, ok, rwtx, metaTxid,
                   free, pending, reader, stats, lastClose>>

\* db.rwlock.Lock() returns to a waiting caller; the write tx begins.
Acquire(g) ==
    /\ pc[g] = "waiting"
    /\ BeginTx(g)
    /\ nested' = [nested EXCEPT ![g] = FALSE]
    /\ UNCHANGED <<pageCount, grab, ok, metaTxid, reader, stats, lastClose,
                   opened>>

\* Tx.allocate: db.allocate takes a free page if there is one, else
\* grows the high water mark; IncPageCount.
Allocate(g) ==
    /\ pc[g] = "active"
    /\ pageCount[g] < MaxAlloc
    /\ pageCount' = [pageCount EXCEPT ![g] = @ + 1]
    /\ IF free > 0
          THEN /\ free' = free - 1
               /\ allocs' = [allocs EXCEPT ![g] = @ + 1]
          ELSE UNCHANGED <<free, allocs>>
    /\ UNCHANGED <<pc, txid, nested, grab, ok, rwtx, metaTxid, pending,
                   reader, stats, lastClose, opened>>

\* spill frees the page the tx replaced: it is pending under the txid.
FreePage(g) ==
    /\ pc[g] = "active"
    /\ txid[g] \notin pending
    /\ pending' = pending \cup {txid[g]}
    /\ UNCHANGED <<pc, txid, nested, allocs, pageCount, grab, ok, rwtx,
                   metaTxid, free, reader, stats, lastClose, opened>>

UnlockAfterHandlers(g, committed) == rwtx' = IF committed THEN g ELSE NoTx

\* Tx.close, lines 303-304: db.rwtx = nil; db.rwlock.Unlock().
Unlock(g, committed) == rwtx' = NoTx

\* The first half of Tx.close, for the freelist (fr, pd) the tx leaves:
\* grab free_count and pending_count, then release the writer lock.
CloseUnlock(g, fr, pd, committed) ==
    /\ grab' = [grab EXCEPT ![g] = Figures(fr, pd)]
    /\ Unlock(g, committed)
    /\ pc' = [pc EXCEPT ![g] = "stats"]
    /\ ok' = [ok EXCEPT ![g] = committed]
    /\ lastClose' = Figures(fr, pd)

\* Tx.Commit after a successful writeMeta: the meta is current, close.
Commit(g) ==
    /\ pc[g] = "active"
    /\ txid[g] <= MaxTxid
    /\ metaTxid' = txid[g]
    /\ CloseUnlock(g, free, pending, TRUE)
    /\ UNCHANGED <<txid, nested, allocs, pageCount, free, pending, reader,
                   stats, opened>>

\* A Commit that fails after spill (a write, a sync or the meta write
\* fails) calls tx.rollback: freelist.rollback(txid) drops the tx's
\* pending page and its allocation record, the reload from the current
\* meta's freelist page (db.data != nil) gives back the pages it
\* allocated, then close.
CommitFail(g) ==
    LET fr == free + allocs[g]
        pd == pending \ {txid[g]}
    IN /\ pc[g] = "active"
       /\ free' = fr
       /\ pending' = pd
       /\ CloseUnlock(g, fr, pd, FALSE)
       /\ UNCHANGED <<txid, nested, allocs, pageCount, metaTxid, reader,
                      stats, opened>>

\* Tx.Rollback by the caller, before Commit (the tx has allocated and
\* freed nothing: both happen inside Commit): nonPhysicalRollback runs
\* freelist.rollback(txid), with no reload, then close.  close ends with
\* tx.db = nil, so Rollback on a tx that Commit or Rollback already
\* closed returns ErrTxClosed and changes nothing: the guard is that the
\* tx is open.
Rollback(g) ==
    LET pd == pending \ {txid[g]}
    IN /\ pc[g] = "active"
       /\ pageCount[g] = 0
       /\ txid[g] \notin pending
       /\ pending' = pd
       /\ CloseUnlock(g, free, pd, FALSE)
       /\ UNCHANGED <<txid, nested, allocs, pageCount, metaTxid, reader,
                      stats, free, opened>>

\* TxStats.add: IncPageCount(other.GetPageCount()).
AddStats(total, n) == total + n

\* The second half of Tx.close, under statlock: store the grabbed
\* figures, read len(db.freelist.pending) now, add the tx's counters.
\* Commit then runs its handlers; a handler's own tx registers none.
MergeStats(g) ==
    /\ pc[g] = "stats"
    /\ stats' = [FreePageN |-> grab[g].free,
                 PendingPageN |-> grab[g].pendingPages,
                 PendingN |-> Cardinality(pending),
                 PageCount |-> AddStats(stats.PageCount, pageCount[g])]
    /\ pageCount' = [pageCount EXCEPT ![g] = 0]
    /\ pc' = [pc EXCEPT ![g] = IF ok[g] /\ ~nested[g] THEN "handlers"
                                                     ELSE "idle"]
    /\ UNCHANGED <<txid, nested, allocs, grab, ok, rwtx, metaTxid, free,
                   pending, reader, lastClose, opened>>

\* Tx.Commit runs its handlers after close (tx.go:220-223): a handler
\* that calls db.Update begins a write tx on its goroutine.
HandlerBegin(g) ==
    /\ pc[g] = "handlers"
    /\ g \in HandlerWriters
    /\ BeginTx(g)
    /\ nested' = [nested EXCEPT ![g] = TRUE]
    /\ UNCHANGED <<pageCount, grab, ok, metaTxid, reader, stats, lastClose,
                   opened>>

\* Handlers that do not write return, and so does Commit.
HandlersDone(g) ==
    /\ pc[g] = "handlers"
    /\ g \notin HandlerWriters
    /\ pc' = [pc EXCEPT ![g] = "idle"]
    /\ UNCHANGED <<txid, nested, allocs, pageCount, grab, ok, rwtx,
                   metaTxid, free, pending, reader, stats, lastClose,
                   opened>>

\* A read tx opens on the current meta, and closes.
BeginRead ==
    /\ reader = NoTx
    /\ reader' = metaTxid
    /\ UNCHANGED <<pc, txid, nested, allocs, pageCount, grab, ok, rwtx,
                   metaTxid, free, pending, stats, lastClose, opened>>

EndRead ==
    /\ reader # NoTx
    /\ reader' = NoTx
    /\ UNCHANGED <<pc, txid, nested, allocs, pageCount, grab, ok, rwtx,
                   metaTxid, free, pending, stats, lastClose, opened>>

Next ==
    \/ \E g \in Goroutines :
          \/ Begin(g) \/ Acquire(g) \/ Allocate(g) \/ FreePage(g) \/ Commit(g)
          \/ CommitFail(g) \/ Rollback(g) \/ MergeStats(g) \/ HandlerBegin(g)
          \/ HandlersDone(g)
    \/ BeginRead \/ EndRead

\* close and the handlers run without waiting on the caller; the lock a
\* handler or a caller waits for is free only now and then (sync.Mutex
\* hands it to a starving waiter); and the caller ends every write tx it
\* opens.
Fairness ==
    \A g \in Goroutines :
        /\ WF_vars(MergeStats(g))
        /\ WF_vars(HandlersDone(g))
        /\ SF_vars(HandlerBegin(g))
        /\ SF_vars(Acquire(g))
        /\ WF_vars(Commit(g) \/ CommitFail(g) \/ Rollback(g))

Spec == Init /\ [][Next]_vars /\ Fairness

-----------------------------------------------------------------------------
\* Once every close has merged, db.stats holds the freelist figures of
\* the writer that released the lock last (spec: close transfers the
\* figures under statlock and then releases the writer lock).
StatsFromLastClose ==
    (\A g \in Goroutines : pc[g] # "stats") =>
        /\ stats.FreePageN = lastClose.free
        /\ stats.PendingPageN = lastClose.pendingPages
        /\ stats.PendingN = lastClose.pendingPages

\* A Commit that reached close always returns: the stats merge and the
\* OnCommit handlers finish, even a handler that opens a write tx, since
\* the writer lock is released before the handlers run.
CommitReturns == \A g \in Goroutines : pc[g] = "stats" ~> pc[g] = "idle"

=============================================================================
