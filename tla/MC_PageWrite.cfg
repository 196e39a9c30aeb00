\* Page writes of up to 4 pages cut into chunks smaller than a page, and
\* freelist buffers of every size around the region bound.
CONSTANTS
    PageSize = 4
    MaxAllocSize = 4
    RegionSize = 12
    Pgids <- MCPgids
    Overflows <- MCOverflows
    Sizes <- MCSizes
    Flids <- MCFlids
SPECIFICATION Spec
INVARIANTS
    ChunksTilePage
    FreelistFitsRegion
