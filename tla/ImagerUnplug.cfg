\* The source is unplugged while it is imaged.
CONSTANTS
    NumChunks = 3
    ChunkSectors = 2
    NonZero <- MCNonZero
    Flaky <- NoSector
    CkptChunks = 2
    MaxFaults <- MCNone
SPECIFICATION UnplugSpec
INVARIANT BadIsUnreadable
