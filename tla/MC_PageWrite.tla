---------------------------- MODULE MC_PageWrite ----------------------------
EXTENDS PageWrite
\* Pages of 4 bytes, writeAt chunks of at most 3 bytes (maxAllocSize 4: chunks of 3),
\* freelist regions of 3 pages.
MCPgids == 0 .. 3
MCOverflows == 0 .. 3
\* Every freelist size up to two past the region.
MCSizes == 0 .. 14
MCFlids == 0 .. 3
=============================================================================
