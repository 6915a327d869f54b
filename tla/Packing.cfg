\* Pack, write, read back: see MCPacking for the inputs.
CONSTANTS
    Probe = 5
    HeaderSize = 1
    BoxHeader = 1
    LargeBoxHeader = 2
    DefaultChunk = 2
    TileGroupCandidates <- Candidates
    MaxShardRecords = 2
    MaxRelOffset = 2
    MetaMaxEntries = 4
    TopMaxEntries = 4
    SubMetaMaxEntries = 2
    MaxDepth = 4
    MemoryJobs <- Jobs
    DiskJobs <- OnDisk
    PublishedTrees <- Published
    Faults = {"open", "write", "car", "rename", "crash"}
    MaxRuns = 2
SPECIFICATION Spec
INVARIANT TypeOK
INVARIANT ReadsAreRight
INVARIANT RootComesLast
INVARIANT LeavesTile
INVARIANT FlatWhenFits
INVARIANT TilesAreCheap
INVARIANT FragmentIsOneLeaf
INVARIANT CarIsWhole
PROPERTY InputUntouched
CHECK_DEADLOCK FALSE
