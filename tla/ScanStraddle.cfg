SPECIFICATION Spec
CONSTANTS
    NumChunks = 2
    ChunkLen = 3
    Cand <- MCCand
    FileStart <- MCStart
    FileEnd <- MCStraddlingEnd
    FullCand <- MCFull
    KeepCorrupted = TRUE
    ChanCap = 2
    Batch = 2
    MaxFaults <- MCInterrupt
INVARIANTS
    ResultSetIdentical
