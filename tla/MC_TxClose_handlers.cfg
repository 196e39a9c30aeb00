\* Two writer goroutines, two caller-opened write txs; g1's OnCommit handler
\* opens a write tx of its own.  Fairness as in TxClose!Fairness.
CONSTANTS
    g1 = g1
    g2 = g2
    NoTx = NoTx
    Goroutines <- MCGoroutines
    MaxTxid = 3
    MaxAlloc = 1
    MaxCloses = 2
    HandlerWriters <- MCHandlerWriters
SPECIFICATION Spec

PROPERTIES
    CommitReturns
    
