SPECIFICATION ResumingSpec
CONSTANTS
    NumChunks = 2
    ChunkLen = 3
    Cand <- MCTwo
    FileStart <- MCTwoStart
    FileEnd <- MCTwoEnd
    FullCand = {}
    KeepCorrupted = TRUE
    ChanCap = 1
    Batch = 1
    MaxFaults <- MCLiveFaults
PROPERTIES
    EveryRunEnds
    EventuallyComplete
