----------------------------- MODULE MC_TxClose -----------------------------
EXTENDS TxClose, TLC

CONSTANTS g1, g2

MCGoroutines == {g1, g2}

\* g1's OnCommit handler opens a write tx; g2's does not.
MCHandlerWriters == {g1}

=============================================================================
