---------------------------- MODULE MC_PgidMerge ----------------------------
EXTENDS PgidMerge
\* Page ids 2..5: lists of up to three ids, every overlap between them.
MCIds == 2 .. 5
=============================================================================
