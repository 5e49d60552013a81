SPECIFICATION Spec
CONSTANTS
    CPUSeq <- MCCPUSeq
    Disks <- MCDisks
    PartitionOf <- MCPartitionOf
    Unmatched <- MCUnmatched
    Ifaces <- MCIfaces
    Pids <- MCPids
    Self = "melisai"
    Rss <- MCRss
    TopN = 1
    Filters <- MCFilters
    InCgroup <- MCInCgroup
    U64 = 64
    U32 = 4
    Starts <- MCStarts
    Present <- MCPresent
    MaxEvents = 2
    MaxFaults = 2
INVARIANTS
    CPUSharesExact
    NeverInflated
    LossesKnown
    TopListsCorrect
CHECK_DEADLOCK FALSE
