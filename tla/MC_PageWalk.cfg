\* Every tree of five pages, with a first backing array of two ids, so that
\* deep paths are appended past its capacity, twice.
CONSTANTS
    Pgids <- MCPgids
    StackCap = 2
SPECIFICATION Spec
INVARIANT
    WalkIsPreorder
\* The walk ends when forEachPage returns.
CHECK_DEADLOCK FALSE
