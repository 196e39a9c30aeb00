\* Sync enabled, every handled failure except a failed meta fdatasync, crashes.
CONSTANTS
    r1 = r1
    r2 = r2
    NoTx = NoTx
    Torn = Torn
    Readers <- MCReaders
    MaxTxid = 4
    MaxPgid = 7
    RegionPages = 1
    NoSync = FALSE
    IgnoreNoSync = FALSE
    Faults <- MCFaultsNoMetaSync
SPECIFICATION Spec
SYMMETRY MCSymmetry
INVARIANTS
    TypeOK
    SnapshotIsolation
    CrashConsistent
    CommittedDurable
    PagesAccounted
