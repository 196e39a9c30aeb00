\* Tx.Page from a read-only tx on its own snapshot's root, after a later
\* writer has committed; no failures.
CONSTANTS
    r1 = r1
    r2 = r2
    NoTx = NoTx
    Torn = Torn
    Readers <- MCReaders
    MaxTxid = 3
    MaxPgid = 7
    RegionPages = 1
    NoSync = FALSE
    IgnoreNoSync = FALSE
    Faults = {}
SPECIFICATION Spec
SYMMETRY MCSymmetry
INVARIANTS
    ReaderPageOfSnapshot
