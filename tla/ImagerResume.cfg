\* Runs of one image, resumed with any options, cancelled, failing and killed.
CONSTANTS
    NumChunks = 3
    ChunkSectors = 2
    NonZero <- MCNonZero
    Flaky <- MCFlaky
    CkptChunks = 2
    MaxFaults <- MCFaults
SPECIFICATION ResumingSpec
INVARIANTS TypeOK DoneIsSource DoneVerifies WholeVerifies BadCounted
PROPERTIES ProgressKept EventuallyImaged
CHECK_DEADLOCK FALSE
