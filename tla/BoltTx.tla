------------------------------ MODULE BoltTx ------------------------------
(***************************************************************************)
(* Transactions of coyove/bbolt (src/tx.go): one writer at a time, many    *)
(* snapshot readers, the commit write path (spill, freelist into its fixed *)
(* region, grow, dirty pages, meta page) with every I/O failure the code   *)
(* handles, and process crashes.                                           *)
(*                                                                         *)
(* The file is kept twice: the page cache, which is what the mmap and      *)
(* every later read of this process see (metaC, flC, dataC), and the       *)
(* durable file (metaD, flD, dataD).  writeAt changes the cache,           *)
(* fdatasync copies the cache to the durable file, and a crash keeps, page *)
(* by page, either the durable or the cached content (the kernel may have  *)
(* written back any dirty page).                                           *)
(*                                                                         *)
(* The B+tree is abstracted to its root page: a modifying writer spills    *)
(* the root to a newly allocated page and frees the old one, as bucket     *)
(* spill does for every node it rewrites.  A data page holds the txid of   *)
(* the writer that wrote it.                                               *)
(***************************************************************************)
EXTENDS Integers, FiniteSets, Sequences, SequencesExt

CONSTANTS
    Readers,        \* handles of read-only transactions (model values)
    MaxTxid,        \* bound on transaction ids
    MaxPgid,        \* bound on the high-water mark meta.pgid
    RegionPages,    \* freelistRegionSize / pageSize
    NoSync,         \* DB.NoSync
    IgnoreNoSync,   \* the global IgnoreNoSync override
    Faults,         \* the failures a run lets happen
    NoTx,           \* no transaction (model value)
    Torn            \* a meta page whose checksum fails (model value)

ASSUME RegionPages \in Nat \ {0}
ASSUME Faults \subseteq {"spill", "freelist", "grow", "write", "sync",
                         "metawrite", "metasync", "crash"}

\* Layout: meta pages 0 and 1, the two freelist regions, then data pages.
MetaSlots == {0, 1}
FirstDataPgid == 2 + 2 * RegionPages
DataPages == FirstDataPgid .. (MaxPgid - 1)
Txids == 0 .. MaxTxid

\* tx.go:241, the page id of the freelist written by a tx with this flid
\* (freelistRegionSize / pageSize = RegionPages).
FreelistPgid(flid) == 2 + (flid % 2) * RegionPages
FreelistPages == {FreelistPgid(0), FreelistPgid(1)}

Metas == [txid : Txids, flid : Txids, root : DataPages,
          pgid : (FirstDataPgid + 1) .. MaxPgid]

\* fdatasync is issued unless NoSync, and always under IgnoreNoSync.
Syncs == ~NoSync \/ IgnoreNoSync

VARIABLES
    metaC, flC, dataC,   \* the page cache (mmap view) of the file
    metaD, flD, dataD,   \* the durable file
    free, pending,       \* the in-memory freelist
    rwtx,                \* the writable transaction, or NoTx
    readers,             \* snapshot of each read-only transaction, or NoTx
    up,                  \* FALSE between a crash and the next Open
    mapped,              \* db.data # nil: the file is mapped
    \* History variables, for the properties only.
    committed,           \* txids whose Commit returned nil
    rootVer              \* rootVer[t]: what meta t's root page must hold

cache == <<metaC, flC, dataC>>
durable == <<metaD, flD, dataD>>
vars == <<metaC, flC, dataC, metaD, flD, dataD, free, pending, rwtx,
          readers, up, mapped, committed, rootVer>>

Stages == {"active", "prepared", "written"}
WriterTxs == [stage : Stages, meta : Metas, modified : BOOLEAN,
              dirty : SUBSET DataPages,
              flbuf : [id : FreelistPages \cup {0}, ids : SUBSET DataPages]]
Snapshots == [meta : Metas, saw : Txids]

TypeOK ==
    /\ metaC \in [MetaSlots -> Metas \cup {Torn}]
    /\ metaD \in [MetaSlots -> Metas \cup {Torn}]
    /\ flC \in [FreelistPages -> SUBSET DataPages]
    /\ flD \in [FreelistPages -> SUBSET DataPages]
    /\ dataC \in [DataPages -> Txids]
    /\ dataD \in [DataPages -> Txids]
    /\ free \subseteq DataPages
    /\ pending \subseteq Txids \X DataPages
    /\ rwtx \in WriterTxs \cup {NoTx}
    /\ readers \in [Readers -> Snapshots \cup {NoTx}]
    /\ up \in BOOLEAN
    /\ mapped \in BOOLEAN
    /\ committed \subseteq Txids
    /\ rootVer \in [Txids -> Txids]

-----------------------------------------------------------------------------
(* Collaborators outside src/, modelled from the spec.                     *)

\* db.meta(): the valid meta page with the higher txid.
CurrentMeta(mc) ==
    LET valid == {s \in MetaSlots : mc[s] # Torn}
        s == CHOOSE s \in valid : \A o \in valid : mc[o].txid <= mc[s].txid
    IN mc[s]

HasValidMeta(mc) == \E s \in MetaSlots : mc[s] # Torn

\* meta.write: a meta is written to page txid % 2.
MetaSlot(m) == m.txid % 2

PendingPages(pd) == {pr[2] : pr \in pd}

\* db.freePages via freelist.release(minid - 1): pages freed by txids
\* below the oldest open reader's txid become allocatable.
ReleasePending(pd, rdrs) ==
    LET open == {r \in Readers : rdrs[r] # NoTx}
        minid == IF open = {} THEN MaxTxid + 1
                 ELSE Min({rdrs[r].meta.txid : r \in open})
    IN {pr \in pd : pr[1] < minid}

\* freelist.reload(db.freelistPage()): the ids of the current meta's
\* freelist page that are not pending.
Reload(mc, fc, pd) ==
    fc[FreelistPgid(CurrentMeta(mc).flid)] \ PendingPages(pd)

\* freelist.rollback(txid): the pages this tx freed are no longer pending.
FreelistRollback(pd, t) == {pr \in pd : pr[1] # t}

-----------------------------------------------------------------------------
(* Transaction state changes of src/tx.go.                                 *)

\* Bug variant of InitMeta: the writer keeps the freelist region of the
\* meta it copied (no flid++).
InitMetaSameRegion(m, writable) ==
    IF writable THEN [m EXCEPT !.txid = @ + 1] ELSE m

\* Tx.init: a copy of the meta; a writable tx takes the next txid and the
\* other freelist region.
InitMeta(m, writable) ==
    IF writable THEN [m EXCEPT !.txid = @ + 1, !.flid = @ + 1] ELSE m

\* Tx.close of the writer (tx.go:303-304): db.rwtx = nil and the writer lock
\* is released.
CloseWriter == rwtx' = NoTx

\* Bug variant of PhysicalRollback: the free pages are reloaded from the
\* freelist page this tx wrote instead of the current meta's.
RollbackOwnRegion(mc, fc, data) ==
    LET pd == FreelistRollback(pending, rwtx.meta.txid)
    IN /\ pending' = pd
       /\ free' = IF data THEN fc[FreelistPgid(rwtx.meta.flid)] \ PendingPages(pd)
                  ELSE free
       /\ CloseWriter

\* Bug variant of PhysicalRollback: a failed commit rolls back as a user
\* Rollback does, without reloading the free pages.
RollbackNoReload(mc, fc, data) ==
    /\ pending' = FreelistRollback(pending, rwtx.meta.txid)
    /\ UNCHANGED free
    /\ CloseWriter

\* Tx.rollback: freelist.rollback, then, if the file is still mapped
\* (data), the free pages are reloaded from the freelist page of the meta
\* the page cache now holds; then close.  freelist.rollback does not give
\* back the pages the tx allocated: without the reload they stay out of
\* the free list.
PhysicalRollback(mc, fc, data) ==
    LET pd == FreelistRollback(pending, rwtx.meta.txid)
    IN /\ pending' = pd
       /\ free' = IF data THEN Reload(mc, fc, pd) ELSE free
       /\ CloseWriter

Init ==
    LET m0 == [txid |-> 0, flid |-> 0, root |-> FirstDataPgid,
               pgid |-> FirstDataPgid + 1]
        m1 == [m0 EXCEPT !.txid = 1, !.flid = 1]
    IN /\ metaC = [s \in MetaSlots |-> IF s = 0 THEN m0 ELSE m1]
       /\ metaD = metaC
       /\ flC = [p \in FreelistPages |-> {}]
       /\ flD = flC
       /\ dataC = [p \in DataPages |-> 0]
       /\ dataD = dataC
       /\ free = {}
       /\ pending = {}
       /\ rwtx = NoTx
       /\ readers = [r \in Readers |-> NoTx]
       /\ up = TRUE
       /\ mapped = TRUE
       /\ committed = {}
       /\ rootVer = [t \in Txids |-> 0]

\* DB.beginRWTx: take the writer lock, Tx.init, then db.freePages.
BeginRW ==
    LET m == InitMeta(CurrentMeta(metaC), TRUE)
        rel == ReleasePending(pending, readers)
    IN /\ up /\ mapped
       /\ rwtx = NoTx
       /\ m.txid <= MaxTxid
       /\ rwtx' = [stage |-> "active", meta |-> m, modified |-> FALSE,
                   dirty |-> {}, flbuf |-> [id |-> 0, ids |-> {}]]
       /\ free' = free \cup PendingPages(rel)
       /\ pending' = pending \ rel
       /\ UNCHANGED <<cache, durable, readers, up, mapped, committed, rootVer>>

\* A Put or Delete through the root bucket (bucket layer, outside src/).
\* The bound: the spill at commit must find a page below MaxPgid.
Update ==
    /\ up /\ mapped
    /\ rwtx # NoTx
    /\ rwtx.stage = "active"
    /\ free # {} \/ rwtx.meta.pgid < MaxPgid
    /\ rwtx' = [rwtx EXCEPT !.modified = TRUE]
    /\ UNCHANGED <<cache, durable, free, pending, readers, up, mapped, committed,
                   rootVer>>

\* Tx.Rollback on the writer: nonPhysicalRollback, then close.
Rollback ==
    /\ up /\ mapped
    /\ rwtx # NoTx
    /\ rwtx.stage = "active"
    /\ pending' = FreelistRollback(pending, rwtx.meta.txid)
    /\ CloseWriter
    /\ UNCHANGED <<cache, durable, free, readers, up, mapped, committed, rootVer>>

\* Bug variant of AllocPage: the freelist is ignored.
AllocAtHighWater(m) == m.pgid

\* Tx.allocate(1) through db.allocate: the lowest free page, or a page at
\* the high-water mark.
AllocPage(m) == IF free # {} THEN Min(free) ELSE m.pgid

\* Tx.commitFreelist: freelist.write of the free and pending pages into a
\* buffer with the page id of the region the tx's flid selects, kept as a
\* dirty page.  The page-count arithmetic and the size assertion of
\* tx.go:229-242 are checked in PageWrite; here a region holds any freelist.
FreelistBuf(m, fr, pd) ==
    [id |-> FreelistPgid(m.flid), ids |-> fr \cup PendingPages(pd)]

\* Tx.Commit up to the dirty-page write: rebalance, spill (the root is
\* copied to a new page and the old one freed), meta.root, commitFreelist
\* (freelist.write of free and pending pages into the region of the tx's
\* flid), and grow when the high-water mark moved.  A failure of spill,
\* freelist.write or grow rolls the tx back.
CommitPrepare ==
    LET t == rwtx.meta.txid
        old == rwtx.meta
        p == AllocPage(old)
        m == IF rwtx.modified
             THEN [old EXCEPT !.root = p,
                              !.pgid = IF free = {} THEN @ + 1 ELSE @]
             ELSE old
        pd == IF rwtx.modified THEN pending \cup {<<t, old.root>>}
              ELSE pending
        fr == IF rwtx.modified THEN free \ {p} ELSE free
    IN /\ up /\ mapped
       /\ rwtx # NoTx
       /\ rwtx.stage = "active"
       /\ \/ /\ rwtx' = [rwtx EXCEPT !.stage = "prepared", !.meta = m,
                            !.dirty = IF rwtx.modified THEN {p} ELSE {},
                            !.flbuf = FreelistBuf(m, fr, pd)]
             /\ free' = fr
             /\ pending' = pd
             /\ rootVer' = [rootVer EXCEPT ![t] =
                              IF rwtx.modified THEN t
                              ELSE rootVer[t - 1]]
             /\ UNCHANGED mapped
          \/ /\ "spill" \in Faults
             /\ PhysicalRollback(metaC, flC, mapped)
             /\ UNCHANGED <<mapped, rootVer>>
          \/ /\ "spill" \in Faults
             \* db.allocate remaps the file for a page at the high-water
             \* mark; db.mmap waits for the readers, unmaps, and fails.
             /\ rwtx.modified /\ free = {}
             /\ \A r \in Readers : readers[r] = NoTx
             /\ mapped' = FALSE
             /\ PhysicalRollback(metaC, flC, FALSE)
             /\ UNCHANGED rootVer
          \/ /\ "freelist" \in Faults
             /\ PhysicalRollback(metaC, flC, mapped)
             /\ UNCHANGED <<mapped, rootVer>>
          \/ /\ "grow" \in Faults
             /\ m.pgid > old.pgid
             /\ PhysicalRollback(metaC, flC, mapped)
             /\ UNCHANGED <<mapped, rootVer>>
       /\ UNCHANGED <<cache, durable, readers, up, committed>>

\* The dirty pages in the ascending order Tx.write sorts them into.
WriteOrder == SetToSortSeq({rwtx.flbuf.id} \cup rwtx.dirty, <)

\* The page cache after writeAt of the pages in set ps.
WrittenFl(ps) == IF rwtx.flbuf.id \in ps
                 THEN [flC EXCEPT ![rwtx.flbuf.id] = rwtx.flbuf.ids]
                 ELSE flC
WrittenData(ps) == [p \in DataPages |->
                      IF p \in ps \cap rwtx.dirty THEN rwtx.meta.txid
                      ELSE dataC[p]]

\* Tx.write, as Commit calls it: every dirty page is written in ascending
\* id order, then fdatasync unless sync is skipped.  A failed writeAt
\* leaves the pages before it written; a failed write or fdatasync rolls
\* the tx back.
CommitWrite ==
    LET order == WriteOrder
        all == {order[i] : i \in 1 .. Len(order)}
    IN /\ up /\ mapped
       /\ rwtx # NoTx
       /\ rwtx.stage = "prepared"
       /\ \/ /\ flC' = WrittenFl(all)
             /\ dataC' = WrittenData(all)
             /\ rwtx' = [rwtx EXCEPT !.stage = "written"]
             /\ IF Syncs THEN /\ flD' = flC' /\ dataD' = dataC'
                             /\ metaD' = metaC
                ELSE UNCHANGED durable
             /\ UNCHANGED <<free, pending>>
          \/ /\ "write" \in Faults
             /\ \E k \in 0 .. (Len(order) - 1) :
                  LET ps == {order[i] : i \in 1 .. k}
                  IN /\ flC' = WrittenFl(ps)
                     /\ dataC' = WrittenData(ps)
                     /\ PhysicalRollback(metaC, WrittenFl(ps), mapped)
             /\ UNCHANGED durable
          \/ /\ "sync" \in Faults
             /\ Syncs
             /\ flC' = WrittenFl(all)
             /\ dataC' = WrittenData(all)
             /\ PhysicalRollback(metaC, WrittenFl(all), mapped)
             /\ UNCHANGED durable
       /\ UNCHANGED <<metaC, readers, up, mapped, committed, rootVer>>

\* Bug variants of CommitMeta's success: the meta page is not synced, or
\* not written at all, before Commit returns nil.
CommitMetaNoSync ==
    LET m == rwtx.meta
    IN /\ up /\ mapped
       /\ rwtx # NoTx
       /\ rwtx.stage = "written"
       /\ metaC' = [metaC EXCEPT ![MetaSlot(m)] = m]
       /\ CloseWriter
       /\ committed' = committed \cup {m.txid}
       /\ UNCHANGED <<durable, free, pending, flC, dataC, readers, up, mapped, rootVer>>
CommitMetaSkipWrite ==
    LET m == rwtx.meta
    IN /\ up /\ mapped
       /\ rwtx # NoTx
       /\ rwtx.stage = "written"
       /\ CloseWriter
       /\ committed' = committed \cup {m.txid}
       /\ UNCHANGED <<cache, durable, free, pending, readers, up, mapped, rootVer>>

\* Tx.writeMeta, then close; the commit handlers run after the lock is
\* released.  A failed writeAt leaves the meta page as it was or torn; a
\* failed fdatasync leaves the new meta in the page cache.  Either failure
\* rolls the tx back.
CommitMeta ==
    LET m == rwtx.meta
        slot == MetaSlot(m)
        written == [metaC EXCEPT ![slot] = m]
    IN /\ up /\ mapped
       /\ rwtx # NoTx
       /\ rwtx.stage = "written"
       /\ \/ /\ metaC' = written
             /\ IF Syncs THEN /\ metaD' = metaC' /\ flD' = flC
                             /\ dataD' = dataC
                ELSE UNCHANGED durable
             /\ CloseWriter
             /\ committed' = committed \cup {m.txid}
             /\ UNCHANGED <<free, pending>>
          \/ /\ "metawrite" \in Faults
             /\ \E mc \in {metaC, [metaC EXCEPT ![slot] = Torn]} :
                  /\ metaC' = mc
                  /\ PhysicalRollback(mc, flC, mapped)
             /\ UNCHANGED <<durable, committed>>
          \/ /\ "metasync" \in Faults
             /\ Syncs
             /\ metaC' = written
             /\ PhysicalRollback(written, flC, mapped)
             /\ UNCHANGED <<durable, committed>>
       /\ UNCHANGED <<flC, dataC, readers, up, mapped, rootVer>>

\* page.typ of a page below the high-water mark.  Pages hold no flags
\* here: on a file that commits wrote, the flags a page carries are the
\* ones its place in the layout gives it (meta, freelist region, data
\* abstracted to a leaf); typ over the flags themselves is PageCodec!Typ.
PageTyp(id) ==
    IF id \in MetaSlots THEN "meta"
    ELSE IF id \in FreelistPages THEN "freelist"
    ELSE "leaf"

\* Tx.Page(id) for a tx with meta m: nothing for an id at or past m.pgid;
\* "free" when freelist.freed(id), which is true for the free and the
\* pending pages of the one in-memory freelist; else the page's type.
TxPage(m, id) ==
    IF id >= m.pgid THEN "none"
    ELSE IF id \in free \cup PendingPages(pending) THEN "free"
    ELSE PageTyp(id)

\* DB.beginTx with Tx.init: a reader copies the current meta.  saw is the
\* content of the snapshot's root page when the reader began.
BeginRead(r) ==
    LET m == InitMeta(CurrentMeta(metaC), FALSE)
    IN /\ up /\ mapped
       /\ readers[r] = NoTx
       /\ readers' = [readers EXCEPT ![r] = [meta |-> m, saw |-> dataC[m.root]]]
       /\ UNCHANGED <<cache, durable, free, pending, rwtx, up, mapped, committed,
                      rootVer>>

\* Tx.Rollback of a reader: close removes it from db.txs.
EndRead(r) ==
    /\ up /\ mapped
    /\ readers[r] # NoTx
    /\ readers' = [readers EXCEPT ![r] = NoTx]
    /\ UNCHANGED <<cache, durable, free, pending, rwtx, up, mapped, committed,
                   rootVer>>

\* The process stops; each page of the file keeps its durable content or,
\* for the pages in km, kf, kd, the cached one the kernel wrote back.
\* A page whose fdatasync failed stays in the cache and may still be
\* written back later, which Linux does not promise after an fsync error.
\* With db.data nil the next access to the mapping faults the process.
Crash ==
    /\ "crash" \in Faults \/ ~mapped
    /\ up
    /\ \E km \in SUBSET MetaSlots, kf \in SUBSET FreelistPages,
         kd \in SUBSET DataPages :
         /\ metaD' = [s \in MetaSlots |-> IF s \in km THEN metaC[s] ELSE metaD[s]]
         /\ flD' = [p \in FreelistPages |-> IF p \in kf THEN flC[p] ELSE flD[p]]
         /\ dataD' = [p \in DataPages |-> IF p \in kd THEN dataC[p] ELSE dataD[p]]
    /\ up' = FALSE
    /\ rwtx' = NoTx
    /\ readers' = [r \in Readers |-> NoTx]
    /\ UNCHANGED <<cache, free, pending, mapped, committed, rootVer>>

\* DB.Open after a crash: the cache is the file, and the free pages are
\* read from the freelist page of the current meta.
Recover ==
    /\ ~up
    /\ HasValidMeta(metaD)
    /\ metaC' = metaD
    /\ flC' = flD
    /\ dataC' = dataD
    /\ free' = flD[FreelistPgid(CurrentMeta(metaD).flid)]
    /\ pending' = {}
    /\ up' = TRUE
    /\ mapped' = TRUE
    /\ UNCHANGED <<durable, rwtx, readers, committed, rootVer>>

Next ==
    \/ BeginRW \/ Update \/ Rollback
    \/ CommitPrepare \/ CommitWrite \/ CommitMeta
    \/ \E r \in Readers : BeginRead(r) \/ EndRead(r)
    \/ Crash \/ Recover

Spec == Init /\ [][Next]_vars

-----------------------------------------------------------------------------
(* Properties.                                                             *)

\* Snapshot isolation (spec 5): while a read-only tx is open, the page its
\* snapshot's root names still holds what it held when the tx began; no
\* writer reallocates and overwrites a page an open reader can reach.  It
\* rests on db.freePages holding back pages freed at or after the oldest
\* reader, and on Tx.rollback reloading a freelist that agrees with the meta
\* the page cache holds.
SnapshotIsolation ==
    \A r \in Readers :
        readers[r] # NoTx => dataC[readers[r].meta.root] = readers[r].saw

\* Crash consistency of the durable file (spec 3, Meta and Freelist
\* region): it always has a valid meta page, and for the newest one the
\* freelist region its flid selects does not list its root page and the
\* root page holds what that commit put there.  A commit must never write
\* into the freelist region or the pages the durable meta relies on.
Consistent(mc, fc, dc) ==
    /\ HasValidMeta(mc)
    /\ LET m == CurrentMeta(mc)
       IN /\ m.root \notin fc[FreelistPgid(m.flid)]
          /\ dc[m.root] = rootVer[m.txid]
CrashConsistent == Consistent(metaD, flD, dataD)

\* Durability (spec 4.4): once Commit has returned nil for txid t, the
\* durable file's current meta is t or later; the meta is synced before
\* Commit returns.
CommittedDurable ==
    HasValidMeta(metaD) /\ \A t \in committed : CurrentMeta(metaD).txid >= t


\* Read-your-commit (spec 8): a read-only tx that begins after Commit
\* returned nil for txid t sees t or a later meta, whatever failed or
\* crashed in between; a later failed commit may tear only the meta slot
\* the last successful commit did not use.
ReaderSeesLatestCommit ==
    [][\A r \in Readers :
         (readers[r] = NoTx /\ readers'[r] # NoTx) =>
            \A t \in committed : readers'[r].meta.txid >= t]_vars


\* The meta the in-memory freelist was built for: the committing writer's
\* once commitFreelist has run, else the meta the page cache holds.
FreelistMeta ==
    IF rwtx # NoTx /\ rwtx.stage \in {"prepared", "written"} THEN rwtx.meta
    ELSE CurrentMeta(metaC)

\* No page leaks (freelist.rollback drops the pages this tx allocated, and
\* only Tx.rollback's reload gets them back): every data page below that
\* meta's high-water mark is its root, free, or pending, and exactly one.
PagesAccounted ==
    up =>
      LET m == FreelistMeta
          pd == PendingPages(pending)
      IN /\ {p \in DataPages : p < m.pgid} = {m.root} \cup free \cup pd
         /\ m.root \notin free \cup pd
         /\ free \cap pd = {}

\* Tx.Page from a read-only tx (spec 4.6, TestMethodPage): while no write
\* tx is open, the root page of the tx's own snapshot, which the tx can
\* still read, is never reported "free".  The comment on Tx.Page rules out
\* only concurrent use.
ReaderPageOfSnapshot ==
    \A r \in Readers :
        rwtx = NoTx /\ readers[r] # NoTx =>
            TxPage(readers[r].meta, readers[r].meta.root) # "free"

\* Refinement: BoltTx implements BoltAbstract.  The newest committed
\* version is the meta the page cache holds; the contents of version t are
\* what its commit put in its root page; an open reader reads, now, the
\* page its snapshot's root names.
Abs == INSTANCE BoltAbstract WITH
    latest <- CurrentMeta(metaC).txid,
    vals <- [t \in Txids |-> IF t <= CurrentMeta(metaC).txid THEN rootVer[t]
                                                          ELSE 0],
    snap <- [r \in Readers |->
               IF readers[r] = NoTx THEN NoTx
               ELSE [txid |-> readers[r].meta.txid,
                     saw |-> dataC[readers[r].meta.root]]]

\* Every behaviour of the transactions is one of the abstract store: commits
\* append versions one at a time and never lose one, even across a crash,
\* and an open reader's view is a committed version that does not change
\* under it, whatever failed in a Commit and was rolled back.
RefinesAbstract == Abs!Spec

=============================================================================
