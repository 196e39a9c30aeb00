\* Two writer goroutines whose handlers do not write: the stats merge after
\* the unlock.
CONSTANTS
    g1 = g1
    g2 = g2
    NoTx = NoTx
    Goroutines <- MCGoroutines
    MaxTxid = 3
    MaxAlloc = 1
    MaxCloses = 3
    HandlerWriters = {}
SPECIFICATION Spec
INVARIANT
    StatsFromLastClose
