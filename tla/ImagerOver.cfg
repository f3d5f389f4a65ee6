\* An image is started over, the run is killed, and the next one resumes.
CONSTANTS
    NumChunks = 3
    ChunkSectors = 2
    NonZero <- MCNonZero
    Flaky <- NoSector
    CkptChunks = 2
    MaxFaults <- MCKill
SPECIFICATION OverSpec
INVARIANT CompleteVerifies
