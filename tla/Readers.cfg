CONSTANTS
    Kinds <- MCKinds
    FatDisks <- MCFatDisks
    ExfatDisks <- MCExfatDisks
    NtfsDisks <- MCNtfsDisks
    ExtDisks <- MCExtDisks
    HfsDisks <- MCHfsDisks
    ApfsDisks <- MCApfsDisks
    IsoDisks <- MCIsoDisks
    Requests <- MCRequests
    Fat16From = 3
    Fat32From = 5
    LoSpan = 4
    HiSpan = 4
    Shifts = {1, 2}
    MaxDirBlocks = 4
    MaxDepth = 4
    Spare = 64
    System = 16
    Dollar = {"$MFT", "$Bitmap", "$UsnJrnl"}
    MaxParents = 4
    FirstIno = 11
    MaxTree = 5
    MaxMapNodes = 4
    MaxFileBlocks = 5
    MaxDirs = 9
    NodeLimit = 4
    InlineExtents = 3
    FirstFile = 16
    SweepChunk = 16
    SweepOverlap = 6
    KeyMin = 3
    NodeBudget = 8
    TotalBudget = 60
    MaxRing = 4
    MaxHistory = 4
    MaxDescriptors = 4
    TableDisks <- MCTableDisks
    MaxEntries = 4
    TableRoom = 4
    MaxChain = 4
    LostDisks <- MCLostDisks
    LostChunk = 16
    Beyond = 4
    Magic = 2
    Internal <- MCInternal
    BackupGap = 3
    Near = 1
    MaxProposals = 6
    Images <- MCImages
    ImageReads <- MCImageReads
    Sector = 2
    CacheBlocks = 2
    DecodeSlack = 1
    MaxBlockOut = 8
    MaxBlocks = 8
    MaxSections = 6
    Stacks <- MCStacks
    StackReads <- MCStackReads
    CacheChunk = 4
    Capacity = 2
    Jobs <- MCJobs
    Asks <- MCAsks
    CopyPiece = 4
    MaxSuffix = 2
    Sources <- MCCarved
    Scans <- MCScans
    CarveChunk = 8
    Wild = 99
    TextSymbols = {8, 9}
    MinAnchor = 2
    HeadLen = 3
    TextLen = 2
    MinSample = 2
    MinRun = 3
    TaintLen = 2
    FallbackCap = 4
    FooterWindow = 4
    MaxFile = 20
    MaxClaims = 2
    Prefix = 24
    FewFiles = 3
    EnoughFiles = 5
    MaxBlock = 8
SPECIFICATION Spec
INVARIANTS
    Listed
    Placed
    Revived
    NoTwice
    Capped
    Opened
    VolumesFound
    Carved
    GuestRead
    SectorsRead
    Recovered
PROPERTIES
    AlwaysShrinks
CHECK_DEADLOCK FALSE
