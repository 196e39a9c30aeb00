----------------------------- MODULE MC_BoltTx -----------------------------
(***************************************************************************)
(* Model-checking instances of BoltTx: two readers, freelist regions of    *)
(* one page each, and the fault sets of the runs.                          *)
(***************************************************************************)
EXTENDS BoltTx, TLC

CONSTANTS r1, r2

MCReaders == {r1, r2}

\* Every I/O failure Commit handles, and crashes, but no fdatasync failure
\* after the meta page was written.
MCFaultsNoMetaSync ==
    {"spill", "freelist", "grow", "write", "sync", "metawrite", "crash"}

MCFaultsAll ==
    {"spill", "freelist", "grow", "write", "sync", "metawrite", "metasync",
     "crash"}

\* Only the meta fdatasync failure.
MCFaultsMetaSync == {"metasync"}

\* Readers are interchangeable.
MCSymmetry == Permutations(MCReaders)
=============================================================================
