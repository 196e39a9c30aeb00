----------------------------- MODULE PageWrite -----------------------------
(***************************************************************************)
(* The byte arithmetic of the commit write path in src/tx.go: how          *)
(* Tx.write cuts a page and its overflow pages into writeAt calls of at    *)
(* most maxAllocSize - 1 bytes, and how commitFreelist sizes the freelist  *)
(* buffer and places it in the region its flid selects.                    *)
(***************************************************************************)
EXTENDS Integers, Sequences, SequencesExt

CONSTANTS
    PageSize,       \* db.pageSize
    MaxAllocSize,   \* maxAllocSize
    RegionSize,     \* freelistRegionSize
    Pgids,          \* ids of dirty pages
    Overflows,      \* their overflow counts
    Sizes,          \* freelist.size() values
    Flids           \* meta.flid values

ASSUME MaxAllocSize > 1 /\ PageSize > 0 /\ RegionSize > PageSize

\* Bug variant of Chunks: the buffer position is not advanced.
RECURSIVE ChunksFixedBuffer(_, _, _)
ChunksFixedBuffer(rem, offset, written) ==
    LET sz == IF rem > MaxAllocSize - 1 THEN MaxAllocSize - 1 ELSE rem
        c == [off |-> offset, from |-> written, len |-> sz]
    IN IF rem - sz = 0 THEN <<c>>
       ELSE <<c>> \o ChunksFixedBuffer(rem - sz, offset + sz, written)

\* The inner loop of Tx.write (tx.go:356-384): each writeAt is a chunk of
\* at most maxAllocSize - 1 bytes taken at buffer position from and
\* written at file offset off; both advance by the chunk until rem is 0.
RECURSIVE Chunks(_, _, _)
Chunks(rem, offset, written) ==
    LET sz == IF rem > MaxAllocSize - 1 THEN MaxAllocSize - 1 ELSE rem
        c == [off |-> offset, from |-> written, len |-> sz]
    IN IF rem - sz = 0 THEN <<c>>
       ELSE <<c>> \o Chunks(rem - sz, offset + sz, written + sz)

\* The writeAt calls for one dirty page (tx.go:355-358).
PageChunks(id, overflow) == Chunks((overflow + 1) * PageSize, id * PageSize, 0)

\* Bug variant of FreelistBuffer: the page count is size / pageSize.
FreelistBufferShort(size, flid) ==
    LET pages == IF size < PageSize THEN 1 ELSE size \div PageSize
    IN [panic |-> ~(size < RegionSize - PageSize),
        id |-> 2 + ((flid % 2) * RegionSize) \div PageSize,
        pages |-> pages]

\* commitFreelist (tx.go:228-242): assert the freelist fits, one pooled
\* page when it is smaller than a page, else size / pageSize + 1 pages;
\* the page id is that of the region flid % 2 selects.
FreelistBuffer(size, flid) ==
    LET pages == IF size < PageSize THEN 1 ELSE size \div PageSize + 1
    IN [panic |-> ~(size < RegionSize - PageSize),
        id |-> 2 + ((flid % 2) * RegionSize) \div PageSize,
        pages |-> pages]

VARIABLES
    page,      \* the last dirty page written: [id, overflow]
    chunks,    \* its writeAt calls
    region,    \* region[k]: the last freelist buffer of parity k, with size
    fatal      \* commitFreelist's assertion fired

vars == <<page, chunks, region, fatal>>

NoBuffer == [id |-> 0, pages |-> 0, size |-> 0]

Init ==
    /\ page = [id |-> 0, overflow |-> 0]
    /\ chunks = PageChunks(0, 0)
    /\ region = [k \in {0, 1} |-> NoBuffer]
    /\ fatal = FALSE

WritePage(id, overflow) ==
    /\ page' = [id |-> id, overflow |-> overflow]
    /\ chunks' = PageChunks(id, overflow)
    /\ UNCHANGED <<region, fatal>>

CommitFreelist(size, flid) ==
    LET b == FreelistBuffer(size, flid)
    IN /\ fatal' = b.panic
       /\ region' = IF b.panic THEN region
                    ELSE [region EXCEPT ![flid % 2] =
                            [id |-> b.id, pages |-> b.pages, size |-> size]]
       /\ UNCHANGED <<page, chunks>>

Next ==
    \/ \E id \in Pgids, o \in Overflows : WritePage(id, o)
    \/ \E s \in Sizes, f \in Flids : CommitFreelist(s, f)

Spec == Init /\ [][Next]_vars

-----------------------------------------------------------------------------
\* The writeAt calls of a page cover its bytes exactly once, in order: the
\* first starts at the page's offset, each next one where the previous
\* ended, each copies the buffer bytes that belong at its offset, none is
\* empty or larger than maxAllocSize - 1, and together they are the page
\* and its overflow.
ChunksTilePage ==
    LET start == page.id * PageSize
        c == chunks
    IN /\ c[1].off = start
       /\ \A i \in 1 .. Len(c) :
             /\ c[i].from = c[i].off - start
             /\ 0 < c[i].len /\ c[i].len <= MaxAllocSize - 1
       /\ \A i \in 1 .. (Len(c) - 1) : c[i + 1].off = c[i].off + c[i].len
       /\ c[Len(c)].off + c[Len(c)].len = start + (page.overflow + 1) * PageSize

\* A freelist buffer that passed the assertion holds the whole freelist,
\* and the buffers of the two regions never share a byte nor reach past
\* the two regions, so a commit never overwrites the freelist the
\* previous commit left for crash recovery.
Bytes(b) == (b.id * PageSize) .. ((b.id + b.pages) * PageSize - 1)
FreelistFitsRegion ==
    /\ \A k \in {0, 1} : region[k] # NoBuffer =>
          /\ region[k].size <= region[k].pages * PageSize
          /\ (region[k].id + region[k].pages) * PageSize
                <= 2 * PageSize + 2 * RegionSize
    /\ Bytes(region[0]) \cap Bytes(region[1]) = {}

=============================================================================
