SPECIFICATION Spec
CHECK_DEADLOCK FALSE
CONSTANTS
    Nobody = Nobody
    Foreign = Foreign
    NumaNodes <- TwoSockets
    FirstNode = 0
    NodeCpus <- TwoSocketCpus
    SmtSecondary <- NoSmt
    ReservedCores = {3}
    Jobs <- ABC
    JobCores <- OneOrTwo
    JobRam <- Ram
    Priority <- Prio
    IdRank <- Rank
    Position <- FileOrder
    DependsOn <- Pipeline
    Exclusive <- OnlyB
    Dormant <- Empty
    Pids = {p1, p2, p3}
    NoSession = NoSession
    MaxConcurrent = 2
    CoreBudget = 3
    RamBudget = 8
    RamSafety = 1
    Meters <- Ample
    Scoped = TRUE
    ScopeName <- Units
    HostCpus <- AllCpus
    ExitCodes = {0, 1}
    Backend = "subprocess"
    LongerNames <- NoLonger
    Mentions <- OwnId
    Tools = {"numactl", "taskset"}
    Events = {"stop", "crash", "kids", "grow"}
    InterleaveThreshold = 0
    OomCooldown = 2
    SliceCap = 9
    Endless <- Empty
    MaxBoots = 3
    p1 = p1
    p2 = p2
    p3 = p3
SYMMETRY SamePids
INVARIANTS CoresApart ExclusiveAlone DepsRespected SkipsHaveCause SavedAtRest NeverTwice
PROPERTIES FinishedStaysFinished ZombiesAreDead OvercommitsOnlyInLag
