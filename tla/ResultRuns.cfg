\* Full, quick and deep runs of one session, in any order, interrupted, stopped
\* between any two transactions, with a volume that may fail to open.
CONSTANTS
    NumVolumes = 2
    Base <- MCBase
    Clusters <- MCClusters
    Used <- MCUsed
    HasBitmap <- MCSecond
    File <- MCFile
    Walk <- MCWalk
    Extents <- MCExtents
    Size <- MCSize
    Carve <- MCCarve
    CarveAt <- MCCarveAt
    NumLost = 2
    Batch = 2
    MaxFaults <- MCFaults
SPECIFICATION Spec
INVARIANTS TypeOK IdenticalView UnallocatedIsFree FreeIsShown ProposalsNumbered
PROPERTY RowsKept
