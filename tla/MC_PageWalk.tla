----------------------------- MODULE MC_PageWalk -----------------------------
EXTENDS PageWalk

MCPgids == 1 .. 5

=============================================================================
