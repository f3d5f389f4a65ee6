\* Two volumes with a bitmap each, and --unallocated-only.
CONSTANTS
    NumVolumes = 2
    Base <- MCBase
    Clusters <- MCClusters
    Used <- MCUsed
    HasBitmap <- MCBoth
    File <- MCFile
    Walk <- MCWalk
    Extents <- MCExtents
    Size <- MCSize
    Carve <- MCCarve
    CarveAt <- MCCarveAt
    NumLost = 2
    Batch = 2
    MaxFaults <- MCNone
SPECIFICATION Spec
INVARIANT FreeIsShown
