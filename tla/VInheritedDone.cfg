SPECIFICATION Spec
CHECK_DEADLOCK FALSE
CONSTANTS
    Nobody = Nobody
    Foreign = Foreign
    NumaNodes <- TwoSockets
    FirstNode = 0
    NodeCpus <- TwoSocketCpus
    SmtSecondary <- NoSmt
    ReservedCores = {3}
    Jobs <- AB
    JobCores <- OneOrTwo
    JobRam <- Ram
    Priority <- Prio
    IdRank <- Rank
    Position <- FileOrder
    DependsOn <- Free3
    Exclusive <- Empty
    Dormant <- Empty
    Pids = {p1, p2, p3}
    NoSession = NoSession
    MaxConcurrent = 2
    CoreBudget = 3
    RamBudget = 8
    RamSafety = 1
    Meters <- Ample
    Scoped = FALSE
    ScopeName <- Units
    HostCpus <- AllCpus
    ExitCodes = {0, 1}
    Backend = "subprocess"
    LongerNames <- NoLonger
    Mentions <- OwnId
    Tools = {"numactl", "taskset"}
    Events = {"stop"}
    InterleaveThreshold = 0
    OomCooldown = 2
    SliceCap <- NoReading
    Endless <- Empty
    MaxBoots = 2
    p1 = p1
    p2 = p2
    p3 = p3
SYMMETRY SamePids
INVARIANTS DoneMeansExitZero
