\* Only a failed fdatasync after the meta page was written: readers must keep their snapshot.
CONSTANTS
    r1 = r1
    r2 = r2
    NoTx = NoTx
    Torn = Torn
    Readers <- MCReaders
    MaxTxid = 4
    MaxPgid = 7
    RegionPages = 1
    NoSync = FALSE
    IgnoreNoSync = FALSE
    Faults <- MCFaultsMetaSync
SPECIFICATION Spec
SYMMETRY MCSymmetry
INVARIANTS
    SnapshotIsolation
