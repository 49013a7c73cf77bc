SPECIFICATION Spec
CHECK_DEADLOCK FALSE
CONSTANTS
    Nobody = Nobody
    Foreign = Foreign
    NumaNodes <- TwoSockets
    FirstNode = 0
    NodeCpus <- ThreeCoreCpus
    SmtSecondary <- NoSmt
    ReservedCores = {}
    Jobs <- ABCD
    JobCores <- WideCAndD
    JobRam <- MostToC
    Priority <- Prio
    IdRank <- Rank
    Position <- FileOrder
    DependsOn <- Free3
    Exclusive <- Empty
    Dormant <- Empty
    Pids = {p1, p2, p3}
    NoSession = NoSession
    MaxConcurrent = 2
    CoreBudget = 4
    RamBudget = 6
    RamSafety = 1
    Meters <- Tight
    Scoped = FALSE
    ScopeName <- Units
    HostCpus <- AllCpus
    ExitCodes = {0}
    Backend = "subprocess"
    LongerNames <- NoLonger
    Mentions <- OwnId
    Tools = {"numactl", "taskset"}
    Events = {"oom"}
    InterleaveThreshold = 0
    OomCooldown = 2
    SliceCap <- NoReading
    Endless <- Empty
    MaxBoots = 1
    p1 = p1
    p2 = p2
    p3 = p3
SYMMETRY SamePids
INVARIANTS TypeOK ConcurrencyCapped BudgetsKept
PROPERTIES NoLaunchAfterOom
