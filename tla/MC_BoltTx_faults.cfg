\* Every failure Commit handles, a failed meta fdatasync included, and crashes.
CONSTANTS
    r1 = r1
    r2 = r2
    NoTx = NoTx
    Torn = Torn
    Readers <- MCReaders
    MaxTxid = 3
    MaxPgid = 7
    RegionPages = 1
    NoSync = FALSE
    IgnoreNoSync = FALSE
    Faults <- MCFaultsAll
SPECIFICATION Spec
SYMMETRY MCSymmetry
PROPERTIES
    ReaderSeesLatestCommit
