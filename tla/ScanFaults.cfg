SPECIFICATION Spec
CONSTANTS
    NumChunks = 2
    ChunkLen = 3
    Cand <- MCCand
    FileStart <- MCStart
    FileEnd <- MCEnd
    FullCand <- MCFull
    KeepCorrupted = TRUE
    ChanCap = 2
    Batch = 2
    MaxFaults <- MCFaults
INVARIANTS
    TypeOK
    CheckpointBacked
    ResultSetIdentical
    OneOpenClaim
PROPERTIES
    ResumeNeverRegresses
    CompleteIsFinal
    ImplementsResumableScan
